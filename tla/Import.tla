------------------------------- MODULE Import -------------------------------
(***************************************************************************)
(* Importing registrations from a file (services/import/import.service.ts, *)
(* routes/import.routes.ts) and the routing of an exam to a workspace      *)
(* (workspace.service.ts, resolveWorkspaceBySubject).  Several imports may *)
(* run at once; a row is looked up in one statement and written in the     *)
(* next, without a transaction.                                            *)
(*                                                                         *)
(* A row has the columns the code decides on.  Test code and subject are   *)
(* records of their spelling and of what normalization makes of it.        *)
(***************************************************************************)
EXTENDS Integers, Sequences, FiniteSets

CONSTANTS
  Files,         \* files that may be uploaded: sequences of rows
  Routings,      \* what workspaces and alias mappings may look like
  Importers,     \* import requests
  MaxRegistrations \* bound on the stored registrations, for the runs

VARIABLES
  routing,  \* the workspaces and the alias mappings
  stored,   \* the registrations, in the order of their creation
  roster,   \* what is known of each student
  imports,  \* the state of each request
  overlapped \* two imports have been under way at once

importVars == <<routing, stored, roster, imports, overlapped>>

Nothing == "none"

-----------------------------------------------------------------------------
(* Routing.                                                                 *)

Actives(rt) == {w \in DOMAIN rt.active : rt.active[w]}

ServesOnly(rt, w) == IF w \in Actives(rt) THEN w ELSE Nothing

\* The alias mapping first, else a workspace of that subject code, else the only one
\* there is.  A mapping to a workspace that is not active resolves to none at all.
ResolveWorkspace(rt, exam) ==
  LET mapped == rt.alias[exam]
      coded  == {w \in Actives(rt) : rt.subjectCode[w] = exam}
  IN  CASE exam = Nothing -> Nothing
        [] exam # Nothing /\ mapped # Nothing -> ServesOnly(rt, mapped)
        [] exam # Nothing /\ mapped = Nothing /\ coded # {} -> CHOOSE w \in coded : TRUE
        [] exam # Nothing /\ mapped = Nothing /\ coded = {} /\ Cardinality(Actives(rt)) = 1 ->
             CHOOSE w \in Actives(rt) : TRUE
        [] OTHER -> Nothing

-----------------------------------------------------------------------------
(* Rows.                                                                    *)

\* Mutant: codes are compared as they are spelled.
KeyAsSpelled(row) == <<row.student, row.subject.spelled, row.code.spelled>>

\* What a registration is looked up by.
Key(row) == <<row.student, row.subject.spelled, row.code.normal>>

\* What a file must not hold twice; here the subject is normalized too.
FileKey(row) == <<row.student, row.subject.normal, row.code.normal>>

Complete(row) ==
  row.student # Nothing /\ row.subject.spelled # Nothing /\ row.code.spelled # Nothing

\* A row repeats an earlier one of its file, be that one valid or not.
Repeats(file, i) ==
  /\ Complete(file[i])
  /\ \E j \in 1 .. i - 1 : Complete(file[j]) /\ FileKey(file[j]) = FileKey(file[i])

\* validateRows.
ValidRows(file) ==
  SelectSeq([i \in 1 .. Len(file) |-> [row |-> file[i], again |-> Repeats(file, i)]],
            LAMBDA v : /\ Complete(v.row) /\ v.row.code.long
                       /\ v.row.dates /\ ~ v.again)

-----------------------------------------------------------------------------

NotImporting == [step |-> "idle", file |-> << >>, todo |-> << >>, preview |-> FALSE,
            found |-> 0, known |-> FALSE, created |-> 0, updated |-> 0, failed |-> 0]

Busy(i) == imports[i].step \in {"rows", "found"}

ImportTypeOK ==
  /\ routing \in Routings
  /\ Len(stored) <= MaxRegistrations
  /\ \A i \in Importers :
       /\ imports[i].step \in {"idle", "rows", "found", "done", "dead"}
       /\ imports[i].found \in 0 .. Len(stored)
       /\ {imports[i].created, imports[i].updated, imports[i].failed} \subseteq Nat
  /\ overlapped \in BOOLEAN

ImportStart(rt) ==
  /\ routing = rt
  /\ stored = << >>
  /\ roster = [s \in {row.student : row \in UNION {{f[n] : n \in DOMAIN f} : f \in Files}} |-> Nothing]
  /\ imports = [i \in Importers |-> NotImporting]
  /\ overlapped = FALSE

ImportInit == \E rt \in Routings : ImportStart(rt)

\* The file is parsed and validated; the job is stored.  A preview ends here.
BeginImport(i) ==
  /\ imports[i].step = "idle"
  /\ \E file \in Files, preview \in BOOLEAN :
       imports' = [imports EXCEPT ![i] =
         [NotImporting EXCEPT !.step = IF preview THEN "done" ELSE "rows", !.preview = preview,
                         !.file = file, !.todo = ValidRows(file)]]
  /\ overlapped' = (overlapped \/ \E j \in Importers : Busy(j))
  /\ UNCHANGED <<routing, stored, roster>>

\* Blank cells keep what is known of the student.
Known(s, name) == IF name = Nothing THEN roster[s] ELSE name

\* Students are stored by an upsert; then the registration is looked up.
FindRegistration(i) ==
  /\ imports[i].step = "rows" /\ imports[i].todo # << >>
  /\ LET row     == imports[i].todo[1].row
         matches == {n \in DOMAIN stored : Key(stored[n]) = Key(row)}
         first   == IF matches = {} THEN 0 ELSE CHOOSE n \in matches : \A m \in matches : n <= m
     IN  /\ roster' = [roster EXCEPT ![row.student] = Known(row.student, row.name)]
         /\ imports' = [imports EXCEPT ![i].step = "found", ![i].found = first,
                          ![i].known = first > 0 /\ stored[first].attendance # Nothing]
  /\ UNCHANGED <<routing, stored, overlapped>>

\* Mutant: what the row brings decides, not what is there.
AttendanceIfGiven(i, old, row) == IF row.attendance # Nothing THEN row.attendance ELSE old

\* As of the lookup: attendance once set from a source is left alone.
AttendanceAfter(i, old, row) == IF imports[i].known THEN old ELSE row.attendance

WriteRegistration(i) ==
  /\ imports[i].step = "found"
  /\ LET row == imports[i].todo[1].row
         n   == imports[i].found
         new == [student |-> row.student, subject |-> row.subject, code |-> row.code,
                 exam |-> row.exam, workspace |-> ResolveWorkspace(routing, row.exam),
                 attendance |-> row.attendance]
     IN  IF n = 0
         THEN /\ Len(stored) < MaxRegistrations
              /\ stored' = Append(stored, new)
              /\ imports' = [imports EXCEPT ![i].step = "rows", ![i].todo = Tail(@),
                                            ![i].created = @ + 1]
         ELSE /\ stored' = [stored EXCEPT ![n] =
                   [new EXCEPT !.attendance = AttendanceAfter(i, stored[n].attendance, row)]]
              /\ imports' = [imports EXCEPT ![i].step = "rows", ![i].todo = Tail(@),
                                            ![i].updated = @ + 1]
  /\ UNCHANGED <<routing, roster, overlapped>>

\* A row that fails is counted and the next one taken.
FailRow(i) ==
  /\ imports[i].step \in {"rows", "found"} /\ imports[i].todo # << >>
  /\ imports' = [imports EXCEPT ![i].step = "rows", ![i].todo = Tail(@), ![i].failed = @ + 1]
  /\ UNCHANGED <<routing, stored, roster, overlapped>>

EndImport(i) ==
  /\ imports[i].step = "rows" /\ imports[i].todo = << >>
  /\ imports' = [imports EXCEPT ![i].step = "done"]
  /\ UNCHANGED <<routing, stored, roster, overlapped>>

\* The process dies, or the error of a row cannot be stored: the rest of the file is
\* never read.  (The job was stored as COMPLETED when it began.)
DieImporting(i) ==
  /\ Busy(i)
  /\ imports' = [imports EXCEPT ![i] = [NotImporting EXCEPT !.step = "dead"]]
  /\ UNCHANGED <<routing, stored, roster, overlapped>>

ImportNext ==
  \E i \in Importers :
    \/ BeginImport(i) \/ FindRegistration(i) \/ WriteRegistration(i)
    \/ FailRow(i) \/ EndImport(i) \/ DieImporting(i)

ImportSpec == ImportInit /\ [][ImportNext]_importVars

-----------------------------------------------------------------------------

SameSitting(r, s) ==
  /\ r.student = s.student /\ r.subject.spelled = s.subject.spelled
  /\ r.code.normal = s.code.normal

\* A student's sitting is stored once, however its code is spelled and however often
\* it is imported, through failures and crashes, as long as imports do not overlap.
\* (No unique key says so: two that overlap store it twice, and so do two files that
\* spell its subject differently.)
OnePerKey ==
  overlapped \/ \A m, n \in DOMAIN stored : SameSitting(stored[m], stored[n]) => m = n

\* What is known is not lost by importing again: a student's name stays where a cell is
\* blank, and attendance once set from a source is never overwritten, unless imports
\* overlapped ("Never overwrite attendanceOriginal once set", import.service.ts:238).
KnownIsKept ==
  [][ /\ \A s \in DOMAIN roster : roster[s] # Nothing => roster'[s] # Nothing
      /\ overlapped' \/ \A n \in DOMAIN stored :
           stored[n].attendance # Nothing => stored'[n].attendance = stored[n].attendance ]_importVars
=============================================================================

---------------------------- MODULE ManualCheck ----------------------------
(***************************************************************************)
(* One manual verification of a test code (manual-verification.service.ts, *)
(* verifyTestCode): the local record is read, the workspace resolved, both *)
(* endpoints are probed, and what they say is compared with the record.    *)
(* Meanwhile syncs, imports and administrators change what was read.       *)
(*                                                                         *)
(* Of two values that are compared only their relation matters: "same",    *)
(* "near" (equal but for spelling, as names may be), "other" or "missing". *)
(***************************************************************************)
EXTENDS FiniteSets

CONSTANTS
  Records,     \* the local records there may be, NoRecord among them
  Servers,     \* workspaces
  SubjectOf,   \* workspace that an exam subject is mapped to, or Unmapped
  Unmapped

VARIABLES
  record,   \* the local record of the code, as it is
  standing, \* workspaces that are not deleted
  check,    \* the check under way
  log       \* the history rows it has left

checkVars == <<record, standing, check, log>>

NoRecord == [found |-> FALSE, workspace |-> Unmapped, subject |-> "none", status |-> "missing",
             attendance |-> "missing"]

Verdicts == {"MATCH", "WARNING", "MISMATCH", "NOT_ENOUGH_DATA"}

Blank == [step |-> "begin", override |-> Unmapped, reg |-> NoRecord, server |-> Unmapped,
          resolvedBy |-> "nobody", status |-> "unasked", results |-> "unasked",
          live |-> "missing", relations |-> "missing", verdicts |-> << >>,
          success |-> FALSE, error |-> "none"]

-----------------------------------------------------------------------------
(* Comparisons.                                                             *)

\* Mutant: a side that is missing counts as different.
VerdictStrict(relation, whenNear) ==
  CASE relation = "same" -> "MATCH"
    [] relation = "near" -> whenNear
    [] relation \in {"missing", "other"} -> "MISMATCH"

\* verdictRow: nothing is said of a pair with a side missing.
Verdict(relation, whenNear) ==
  CASE relation = "missing" -> "NOT_ENOUGH_DATA"
    [] relation = "same"    -> "MATCH"
    [] relation = "near"    -> whenNear
    [] relation = "other"   -> "MISMATCH"

Relation(a, b) == IF a = "missing" \/ b = "missing" THEN "missing" ELSE IF a = b THEN "same" ELSE "other"

Answered(c) == c.status = "ok" \/ c.results = "ok"

Existence(c) ==
  CASE c.reg.found /\ Answered(c)     -> "MATCH"
    [] ~ c.reg.found /\ ~ Answered(c) -> "NOT_ENOUGH_DATA"
    [] OTHER                          -> "WARNING"

Attendance(c) ==
  CASE c.reg.attendance = "missing" \/ c.live = "missing" -> "NOT_ENOUGH_DATA"
    [] c.reg.attendance = "absent" /\ c.live \in {"IN_PROGRESS", "COMPLETED"} -> "MISMATCH"
    [] OTHER -> "MATCH"

Mapping(c) ==
  CASE ~ c.reg.found -> "NOT_ENOUGH_DATA"
    [] c.reg.found /\ c.reg.workspace \notin {Unmapped, c.server} -> "WARNING"
    [] OTHER -> "MATCH"

\* Names and ids are compared with what either endpoint returned of them.
Comparisons(c) ==
  LET seen == IF Answered(c) /\ c.reg.found THEN c.relations ELSE "missing"
  IN  [ existence   |-> Existence(c),
        examName    |-> Verdict(seen, "WARNING"),
        externalId  |-> Verdict(seen, "MISMATCH"),
        studentName |-> Verdict(seen, "WARNING"),
        workspaceMapping |-> Mapping(c),
        attendance  |-> Attendance(c),
        status      |-> Verdict(Relation(c.reg.status, c.live), "MISMATCH") ]

-----------------------------------------------------------------------------

Steps == {"begin", "resolve", "status", "results", "compare", "save", "done"}

CheckTypeOK ==
  /\ record \in Records /\ standing \subseteq Servers
  /\ check.step \in Steps /\ check.reg \in Records
  /\ {check.override, check.server} \subseteq Servers \cup {Unmapped}
  /\ {check.status, check.results} \subseteq {"unasked", "ok", "notFound", "failed"}
  /\ log \in SUBSET [found : BOOLEAN, status : BOOLEAN, results : BOOLEAN,
                     server : Servers \cup {Unmapped}]

\* The operator may have chosen a workspace.
CheckStart(known, servers, override) ==
  /\ record = known /\ standing = servers
  /\ check = [Blank EXCEPT !.override = override]
  /\ log = {}

CheckInit ==
  \E known \in Records, servers \in SUBSET Servers, override \in Servers \cup {Unmapped} :
    CheckStart(known, servers, override)

\* An empty code is refused at once and leaves no row.
RefuseEmpty ==
  /\ check.step = "begin"
  /\ check' = [check EXCEPT !.step = "done", !.error = "Enter a Test Code."]
  /\ UNCHANGED <<record, standing, log>>

ReadRecord ==
  /\ check.step = "begin"
  /\ check' = [check EXCEPT !.step = "resolve", !.reg = record]
  /\ UNCHANGED <<record, standing, log>>

IfStanding(w) == IF w \in standing THEN w ELSE Unmapped

\* The operator's choice, else the workspace of the record, else that of its subject.
Resolved(c) ==
  IF c.override # Unmapped THEN IfStanding(c.override)
  ELSE IF IfStanding(c.reg.workspace) # Unmapped THEN IfStanding(c.reg.workspace)
  ELSE IF c.reg.found THEN IfStanding(SubjectOf[c.reg.subject]) ELSE Unmapped

ResolveServer ==
  /\ check.step = "resolve"
  /\ LET w == Resolved(check)
     IN  check' = [check EXCEPT !.server = w,
                     !.resolvedBy = CASE w = Unmapped -> "nobody"
                                      [] w # Unmapped /\ w = check.override -> "manual override"
                                      [] w # Unmapped /\ w # check.override /\ w = check.reg.workspace ->
                                           "local registration"
                                      [] OTHER -> "ExamSubject mapping",
                     !.error = IF w = Unmapped THEN "no workspace" ELSE "none",
                     !.step = IF w = Unmapped THEN "save" ELSE "status"]
  /\ UNCHANGED <<record, standing, log>>

\* probeStatus returns its outcome, an error too.
ProbeStatus ==
  /\ check.step = "status"
  /\ \E outcome \in {"ok", "notFound", "failed"},
        live \in {"NOT_STARTED", "IN_PROGRESS", "COMPLETED"} :
       check' = [check EXCEPT !.step = "results", !.status = outcome,
                              !.live = IF outcome = "ok" THEN live ELSE "missing"]
  /\ UNCHANGED <<record, standing, log>>

AfterResults(c, outcome) == [c EXCEPT !.step = "compare", !.results = outcome]

ProbeResults ==
  /\ check.step = "results"
  /\ \E outcome \in {"ok", "notFound", "failed"} : check' = AfterResults(check, outcome)
  /\ UNCHANGED <<record, standing, log>>

Compare ==
  /\ check.step = "compare"
  /\ \E relation \in {"same", "near", "other", "missing"} :
       LET c == [check EXCEPT !.relations = relation]
       IN  check' = [c EXCEPT !.step = "save", !.verdicts = Comparisons(c),
                              !.success = Answered(c) \/ c.reg.found,
                              !.error = IF Answered(c) \/ c.reg.found THEN "none" ELSE "nothing found"]
  /\ UNCHANGED <<record, standing, log>>

\* Outcomes only.
SaveHistory ==
  /\ check.step = "save"
  /\ check' = [check EXCEPT !.step = "done"]
  /\ log' = log \cup {[found |-> check.reg.found, status |-> check.status = "ok",
                       results |-> check.results = "ok", server |-> check.server]}
  /\ UNCHANGED <<record, standing>>

RecordChanges ==
  /\ check.step # "done"
  /\ record' \in Records \ {record}
  /\ UNCHANGED <<standing, check, log>>

ServerDeleted ==
  /\ check.step # "done"
  /\ \E w \in standing : standing' = standing \ {w}
  /\ UNCHANGED <<record, check, log>>

CheckNext ==
  \/ RefuseEmpty \/ ReadRecord \/ ResolveServer \/ ProbeStatus \/ ProbeResults \/ Compare
  \/ SaveHistory \/ RecordChanges \/ ServerDeleted

CheckSpec == CheckInit /\ [][CheckNext]_checkVars

-----------------------------------------------------------------------------

Over == check.step = "done" /\ check.error # "Enter a Test Code."

\* Without an answer of FastTest nothing is called a match or a mismatch, but for
\* the mapping, which is local.
NoVerdictWithoutData ==
  Over /\ check.server # Unmapped /\ ~ Answered(check) =>
    \A k \in DOMAIN check.verdicts \ {"workspaceMapping", "existence"} :
      check.verdicts[k] = "NOT_ENOUGH_DATA"
=============================================================================

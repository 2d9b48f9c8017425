----------------------------- MODULE Dashboard -----------------------------
(***************************************************************************)
(* What the dashboards show of the registrations: the filter and scope of  *)
(* a request (services/filters.ts) and the aggregates, each of which is a  *)
(* query of its own with its own treatment of missing values               *)
(* (services/dashboard.service.ts, lib/subject-kind.ts).  One behaviour    *)
(* answers one request on one table.                                       *)
(***************************************************************************)
EXTENDS Integers, FiniteSetsExt

CONSTANTS
  Ids,      \* the rows of the table
  Rows,     \* what a row may hold
  Queries   \* requests: filters and the scope of who asks

VARIABLES
  table,  \* ExamRegistration, with the scores of its results
  query,  \* the request
  shown   \* the tiles of the answer, at most one

dashVars == <<table, query, shown>>

Any  == "any"    \* a filter that is not given
Null == "null"   \* a column that is
None == -1       \* a number that is not given or not known

\* The ids of schools are generated, and a user's scope is a list of them.
ASSUME DashboardAssumption ==
  /\ IsFiniteSet(Ids)
  /\ \A r \in Rows : r.school # "__none__"
  /\ \A q \in Queries : Null \notin q.schools

-----------------------------------------------------------------------------
(* Filters (parseFilter, buildRegistrationWhere).                           *)

\* An hour that is not one is dropped, and an end that is not given is the day's.
FromHour(q) == IF q.fromHour \in 0 .. 23 THEN q.fromHour ELSE 0
ToHour(q)   == IF q.toHour \in 0 .. 23 THEN q.toHour ELSE 23
Houred(q)   == q.fromHour \in 0 .. 23 \/ q.toHour \in 0 .. 23

\* A range that ends before it begins wraps around midnight.
AtHour(r, q) ==
  Houred(q) =>
    /\ r.hour # None
    /\ IF FromHour(q) <= ToHour(q) THEN r.hour \in FromHour(q) .. ToHour(q)
       ELSE r.hour >= FromHour(q) \/ r.hour <= ToHour(q)

\* Someone without schools is given one that no row has.
InScope(r, q) ==
  q.scoped => r.school \in (IF q.schools = {} THEN {"__none__"} ELSE q.schools)

Exactly(value, wanted) == wanted = Any \/ value = wanted

\* Some result within the bounds that are given.
Scored(r, q) ==
  q.scoreMin # None \/ q.scoreMax # None =>
    \E s \in r.scores : (q.scoreMin # None => s >= q.scoreMin) /\ (q.scoreMax # None => s <= q.scoreMax)

Failing == {"ERROR", "MANUAL_REVIEW"}

\* Lists that turn out empty narrow nothing.
Matches(r, q) ==
  /\ ~ r.deleted
  /\ InScope(r, q)
  /\ Exactly(r.school, q.school) /\ Exactly(r.grade, q.grade)
  /\ q.subjects = {} \/ r.subject \in q.subjects
  /\ q.statuses = {} \/ r.status \in q.statuses
  /\ q.apiError => r.sync \in Failing
  /\ AtHour(r, q)
  /\ Scored(r, q)

\* buildRegistrationWhere; every tile but participation goes by it.
Where(q) == {i \in Ids : Matches(table[i], q)}

-----------------------------------------------------------------------------
(* Aggregates.                                                              *)

GroupBy(set, key) == [k \in {key[i] : i \in set} |-> {i \in set : key[i] = k}]

Completed(set) == {i \in set : table[i].status = "COMPLETED"}

Errors(set)    == {i \in set : table[i].sync \in Failing}

Counted(set) == [total |-> Cardinality(set), completed |-> Cardinality(Completed(set)),
                 errors |-> Cardinality(Errors(set))]

CountedBy(set, key) ==
  LET groups == GroupBy(set, key)
  IN  [k \in DOMAIN groups |-> [total |-> Cardinality(groups[k]),
                                completed |-> Cardinality(Completed(groups[k]))]]

School == [i \in Ids |-> IF table[i].school = Null THEN "UNASSIGNED" ELSE table[i].school]

\* Mutant: rows without a school are left out of the table of schools.
AssignedOnly(set) ==
  LET groups == GroupBy({i \in set : table[i].school # Null}, School)
  IN  [k \in DOMAIN groups |-> Counted(groups[k])]

\* The errors of a school are a query of their own.
SchoolsSummary(set) ==
  LET groups == GroupBy(set, School)
      errors == GroupBy(Errors(set), School)
  IN  [k \in DOMAIN groups |->
         [ total |-> Cardinality(groups[k]), completed |-> Cardinality(Completed(groups[k])),
           errors |-> IF k \in DOMAIN errors THEN Cardinality(errors[k]) ELSE 0 ]]

CompletionByGrade(set) ==
  CountedBy(set, [i \in Ids |-> IF table[i].grade = Null THEN "-" ELSE table[i].grade])

SubjectsSummary(set) == CountedBy(set, [i \in Ids |-> table[i].subject])

\* By name: a form or a survey is not an exam, anything unknown is.
IsInstrument(subject) == subject \in {"Parent Questionnaire", "Observation Form"}

SumOf(rows, keys, field) == MapThenSumSet(LAMBDA k : rows[k][field], keys)

Bucket(rows, instrument) ==
  LET of == {k \in DOMAIN rows : IsInstrument(k) = instrument}
  IN  [total |-> SumOf(rows, of, "total"), completed |-> SumOf(rows, of, "completed")]

SplitByKind(rows) == [exams |-> Bucket(rows, FALSE), instruments |-> Bucket(rows, TRUE)]

TodaysActivity(set) ==
  LET groups == GroupBy({i \in set : table[i].today}, School)
  IN  [k \in DOMAIN groups |-> Cardinality(groups[k])]

NoEmiratesId == {Null, ""}

\* By Emirates ID; those without by their external id.
CountDistinctStudents(set) ==
  LET known == {i \in set : table[i].emiratesId \notin NoEmiratesId}
  IN  Cardinality({table[i].emiratesId : i \in known})
        + Cardinality({table[i].external : i \in set \ known})

Started == {"COMPLETED", "IN_PROGRESS", "UNDER_REVIEW", "REVIEW_FAILED"}

\* Its own statement: all of the exams, whoever asks.  SQL counts an empty id, but
\* not a missing one.
ParticipationCoverage ==
  LET exams  == {i \in Ids : ~ table[i].deleted /\ ~ IsInstrument(table[i].subject)}
      sat    == {i \in exams : table[i].status \in Started}
      Distinct(set, col) == Cardinality({table[i][col] : i \in set} \ {Null})
  IN  [ schools  |-> [targeted |-> Distinct(exams, "school"), participating |-> Distinct(sat, "school")],
        students |-> [targeted |-> Distinct(exams, "emiratesId"), participating |-> Distinct(sat, "emiratesId")] ]

Answer(q) ==
  LET set == Where(q)
  IN  [ overview |-> Counted(set), students |-> CountDistinctStudents(set),
        schools  |-> SchoolsSummary(set), grades |-> CompletionByGrade(set),
        subjects |-> SubjectsSummary(set), byKind |-> SplitByKind(SubjectsSummary(set)),
        today    |-> TodaysActivity(set), participation |-> ParticipationCoverage ]

-----------------------------------------------------------------------------

DashTypeOK == table \in [Ids -> Rows] /\ query \in Queries /\ Cardinality(shown) <= 1

DashStart(t, q) == table = t /\ query = q /\ shown = {}

DashInit == \E t \in [Ids -> Rows], q \in Queries : DashStart(t, q)

Respond == shown = {} /\ shown' = {Answer(query)} /\ UNCHANGED <<table, query>>

DashNext == Respond

DashSpec == DashInit /\ [][DashNext]_dashVars

-----------------------------------------------------------------------------

Total(rows, field) == SumOf(rows, DOMAIN rows, field)

\* No query of its own: the unfiltered view of someone who may see everything.
Unfiltered == \A i \in Ids : Matches(table[i], query) <=> ~ table[i].deleted

\* Every tile of an answer tells the same story, though each is a query of its own:
\* schools, grades, subjects and kinds of instruments add up to the headline, rows
\* without school or grade included; unique students are no more than registrations
\* and, unfiltered, no fewer than those said to take part.  None of it is about a
\* school that who asks may not see.
TilesAgree ==
  \A a \in shown :
    /\ \A field \in {"total", "completed"} :
         /\ \A rows \in {a.schools, a.grades, a.subjects} : Total(rows, field) = a.overview[field]
         /\ a.byKind.exams[field] + a.byKind.instruments[field] = a.overview[field]
    /\ Total(a.schools, "errors") = a.overview.errors
    /\ \A k \in DOMAIN a.today : a.today[k] <= a.schools[k].total
    /\ a.students <= a.overview.total
    /\ Unfiltered => /\ a.participation.students.targeted <= a.students
                     /\ a.participation.schools.targeted <= Cardinality(DOMAIN a.schools)
    /\ query.scoped => DOMAIN a.schools \subseteq query.schools
=============================================================================

----------------------- MODULE RegistrationSyncProofs -----------------------
(* Proofs about RegistrationSync, for any number of runners, requests and    *)
(* schedulers.                                                               *)
EXTENDS RegistrationSync, TLAPS

\* A transition leads to a state of the machine, whatever state is claimed.
LEMMA TransitionType ==
  ASSUME syncState \in SyncStates, NEW from, NEW to \in SyncStates, Transition(from, to)
  PROVE  syncState' \in SyncStates
  BY DEF Transition

\* What a handler reads of the row, blanks or keeps is a copy.
LEMMA CopyType ==
  ASSUME TypeOK, NEW a \in Actors
  PROVE  /\ Blank \in Copies
         /\ [state |-> syncState, dash |-> dash, has |-> FALSE] \in Copies
         /\ [Blank EXCEPT !.state = syncState] \in Copies
         /\ [copy[a] EXCEPT !.state = "PENDING"] \in Copies
         /\ [copy[a] EXCEPT !.dash = actual] \in Copies
         /\ [copy[a] EXCEPT !.has = hasResults] \in Copies
<1>1. Blank \in Copies
  BY DEF Blank, Copies, SyncStates, Statuses
<1>2. copy[a] \in Copies
  BY DEF TypeOK
<1>3. [state |-> syncState, dash |-> dash, has |-> FALSE] \in Copies
  BY DEF TypeOK, Copies
<1>4. "PENDING" \in SyncStates
  BY DEF SyncStates
<1> QED BY <1>1, <1>2, <1>3, <1>4 DEF TypeOK, Copies

\* Leaving a job keeps the actors' types.
LEMMA LeaveType ==
  ASSUME TypeOK, NEW a \in Actors, NEW s \in {"none", "waiting"}, Leave(a, s)
  PROVE  /\ pc' \in [Actors -> Pcs]
         /\ job' \in [Actors -> JobTypes \cup {"DIRECT", "none"}]
         /\ copy' \in [Actors -> Copies]
         /\ live' \in [JobTypes -> {"none", "waiting", "running"}]
  BY CopyType DEF TypeOK, Leave, Goto, Pcs

\* The sync state, the row, the jobs and every copy keep their types under every
\* handler, tick and operator action.
THEOREM TypeCorrect == Spec => []TypeOK
<1>1. Init => TypeOK
  <2> SUFFICES ASSUME Init PROVE TypeOK
    OBVIOUS
  <2>1. Blank \in Copies
    BY DEF Blank, Copies, SyncStates, Statuses
  <2>2. copy \in [Actors -> Copies] /\ pc \in [Actors -> Pcs]
    BY <2>1 DEF Init, Pcs
  <2>3. syncState \in SyncStates
    BY DEF Init, SyncStates
  <2> QED BY <2>2, <2>3 DEF Init, TypeOK, Statuses
<1>2. TypeOK /\ [Next]_vars => TypeOK'
  <2> SUFFICES ASSUME TypeOK, [Next]_vars PROVE TypeOK'
    OBVIOUS
  <2>1. ASSUME NEW a \in Actors, Proceeds(a) PROVE TypeOK'
    <3>1. CASE PersistStatus(a)
      <4>1. copy[a].dash \in Statuses
        BY DEF TypeOK, Copies
      <4> QED BY <3>1, <4>1 DEF PersistStatus, TypeOK, Goto, Pcs, StatusPcs
    <3>2. CASE StatusSynced(a)
      <4>1. syncState' \in SyncStates
        BY <3>2, TransitionType DEF StatusSynced, TypeOK, SyncStates
      <4> QED BY <3>2, <4>1, CopyType DEF StatusSynced, TypeOK, Goto, Pcs, StatusPcs
    <3>3. CASE Reschedule(a)
      BY <3>3 DEF Reschedule, TypeOK, Goto, NextSync, Pcs, StatusPcs
    <3>4. CASE FollowUp(a)
      <4>1. syncState' \in SyncStates
        BY <3>4, TransitionType DEF FollowUp, TypeOK, SyncStates
      <4>2. live' \in [JobTypes -> {"none", "waiting", "running"}]
        BY <3>4 DEF FollowUp, Enqueued, TypeOK
      <4> QED
        BY <3>4, <4>1, <4>2, CopyType DEF FollowUp, TypeOK, Goto, Pcs
    <3>5. CASE Again(a)
      BY <3>5, CopyType DEF Again, Read, TypeOK, row, Goto, Pcs, ResultPcs
    <3>6. CASE ResultsSynced(a)
      <4>1. syncState' \in SyncStates
        BY <3>6, TransitionType DEF ResultsSynced, TypeOK, SyncStates
      <4> QED
        BY <3>6, <4>1, CopyType DEF ResultsSynced, TypeOK, Goto, Pcs, ResultPcs
    <3>7. CASE Completed(a)
      <4>1. syncState' \in SyncStates
        BY <3>7, TransitionType DEF Completed, TypeOK, SyncStates
      <4> QED BY <3>7, <4>1 DEF Completed, TypeOK, Goto, Pcs, ResultPcs
    <3>8. CASE Close(a)
      BY <3>8, CopyType DEF Close, TypeOK, Goto, NextSync, Pcs
    <3>9. CASE DirectReschedule(a)
      BY <3>9 DEF DirectReschedule, TypeOK, Goto, Pcs, ResultPcs
    <3>10. CASE Done(a)
      BY <3>10, LeaveType DEF Done, TypeOK, row
    <3> QED
      BY <2>1, <3>1, <3>2, <3>3, <3>4, <3>5, <3>6, <3>7, <3>8, <3>9, <3>10 DEF Proceeds
  <2>2. ASSUME NEW a \in Actors, Begins(a) PROVE TypeOK'
    <3>1. syncState' \in SyncStates
      BY <2>2, TransitionType DEF Begins, BeginStatus, BeginResults, TypeOK, SyncStates
    <3> QED
      BY <2>2, <3>1, CopyType
      DEF Begins, BeginStatus, BeginResults, TypeOK, Goto, Pcs, StatusPcs, ResultPcs
  <2>3. ASSUME NEW a \in Actors, Fetches(a) PROVE TypeOK'
    <3>1. CASE FetchStatus(a)
      BY <3>1, CopyType DEF FetchStatus, TypeOK, row, Goto, Pcs, StatusPcs
    <3>2. CASE StoreResults(a) /\ job[a] = "DIRECT"
      BY <3>2, LeaveType DEF StoreResults, TypeOK
    <3>3. CASE StoreResults(a) /\ job[a] # "DIRECT"
      BY <3>3 DEF StoreResults, TypeOK, Goto, Pcs, ResultPcs
    <3> QED BY <2>3, <3>1, <3>2, <3>3 DEF Fetches
  <2>4. ASSUME NEW a \in Actors, Fails(a) PROVE TypeOK'
    <3>1. ASSUME NEW e \in Failures, NEW s \in {"none", "waiting"}, HandlerFails(a, e, s)
          PROVE  TypeOK'
      <4>1. e \in SyncStates
        BY SyncAssumption DEF SyncStates, Errors
      <4>2. syncState' \in SyncStates
        BY <3>1, <4>1, TransitionType DEF HandlerFails, TypeOK
      <4> QED BY <3>1, <4>2, LeaveType DEF HandlerFails, TypeOK
    <3>2. ASSUME NEW permanent \in BOOLEAN, DirectFails(a, permanent) PROVE TypeOK'
      BY <3>2, LeaveType DEF DirectFails, TypeOK
    <3> QED BY <2>4, <3>1, <3>2 DEF Fails
  <2>5. ASSUME NEW r \in Runners, Throttled(r) \/ Crash(r) PROVE TypeOK'
    <3>1. r \in Actors
      BY DEF Actors
    <3> QED BY <2>5, <3>1, LeaveType DEF Throttled, Crash, TypeOK, row
  <2>6. ASSUME NEW r \in Runners, NEW t \in JobTypes, Start(r, t) PROVE TypeOK'
    <3>1. r \in Actors
      BY DEF Actors
    <3> QED
      BY <2>6, <3>1, CopyType
      DEF Start, Read, ReadState, Goto, TypeOK, row, Pcs, StatusPcs, ResultPcs
  <2>7. ASSUME NEW c \in Callers, DirectStart(c) PROVE TypeOK'
    <3>1. c \in Actors
      BY DEF Actors
    <3> QED BY <2>7, <3>1 DEF DirectStart, TypeOK, row, Goto, Pcs, StatusPcs
  <2>8. ASSUME NEW s \in Schedulers, TickStep(s) PROVE TypeOK'
    BY <2>8
    DEF TickStep, TickClose, TickEnqueue, TickAdvance, Enqueued, TypeOK, row, own, JobTypes
  <2>9. ASSUME NEW s \in Schedulers, NEW m \in Modes, TickRead(s, m) PROVE TypeOK'
    BY <2>9 DEF TickRead, TypeOK, row, own
  <2>10. ASSUME NEW s \in Schedulers, TickLost(s) PROVE TypeOK'
    BY <2>10 DEF TickLost, TypeOK, row, own
  <2>11. CASE BecomeDue
    BY <2>11 DEF BecomeDue, TypeOK, own
  <2>12. ASSUME NEW t \in {"STATUS", "MANUAL"}, Batch(t) PROVE TypeOK'
    BY <2>12 DEF Batch, Operator, Enqueued, TypeOK, row, own, JobTypes
  <2>13. CASE BulkCancel
    BY <2>13 DEF BulkCancel, Operator, TypeOK, row, own
  <2>14. CASE ReviewRead
    BY <2>14 DEF ReviewRead, Operator, TypeOK, row, own
  <2>15. CASE ReviewMove
    <3>1. syncState' \in SyncStates
      BY <2>15, TransitionType DEF ReviewMove, TypeOK, SyncStates
    <3> QED BY <2>15, <3>1 DEF ReviewMove, TypeOK, own
  <2>16. CASE ReviewFlag
    BY <2>16 DEF ReviewFlag, TypeOK, own
  <2>17. CASE ExamAdvances
    BY <2>17 DEF ExamAdvances, TypeOK, row, own, Statuses
  <2>18. CASE UNCHANGED vars
    BY <2>18 DEF vars, TypeOK
  <2> QED
    BY <2>1, <2>2, <2>3, <2>4, <2>5, <2>6, <2>7, <2>8, <2>9, <2>10, <2>11, <2>12, <2>13,
       <2>14, <2>15, <2>16, <2>17, <2>18 DEF Next
<1> QED BY <1>1, <1>2, PTL DEF Spec

-----------------------------------------------------------------------------
(* Completion.  A COMPLETED answer, once given, stays true, and so does the   *)
(* presence of results: what matters is that every decision to stop polling   *)
(* was taken on a copy that had both.                                         *)

\* Nobody has read COMPLETED before FastTest said it.
AnswersAreTrue ==
  /\ dash = "COMPLETED" => actual = "COMPLETED"
  /\ \A a \in Actors : copy[a].dash = "COMPLETED" => actual = "COMPLETED"

\* Who believes that there are results is right.
ResultsAreThere ==
  \A a \in Actors :
    copy[a].has \/ pc[a] \in {"stored", "resultsSynced", "closing"} => hasResults

\* A handler closes a registration only on a COMPLETED copy.
ClosersSawCompletion ==
  \A a \in Actors : pc[a] \in {"resultsSynced", "closing"} => copy[a].dash = "COMPLETED"

\* A tick closes one only on a COMPLETED row with results.
TicksCloseFinished ==
  \A s \in Schedulers : tick[s] = "close" => actual = "COMPLETED" /\ hasResults

Completion ==
  /\ AnswersAreTrue
  /\ ResultsAreThere
  /\ ClosersSawCompletion
  /\ TicksCloseFinished
  /\ TerminalIsEarned
  /\ CompletedMeansResults

\* Where no handler, tick or exam moves, nothing the invariant speaks of does.
LEMMA CompletionFrame ==
  ASSUME Completion, UNCHANGED <<actual, dash, hasResults, pc, copy>>,
         \A s \in Schedulers : tick'[s] = "close" =>
           tick[s] = "close" \/ (dash = "COMPLETED" /\ hasResults),
         nextAt' = "never" => actual = "COMPLETED" /\ hasResults,
         syncState' = "COMPLETED" => syncState = "COMPLETED"
  PROVE  Completion'
  BY DEF Completion, AnswersAreTrue, ResultsAreThere, ClosersSawCompletion,
         TicksCloseFinished, TerminalIsEarned, CompletedMeansResults

\* A job that is left, finished or not, takes no belief with it.
LEMMA CompletionLeave ==
  ASSUME TypeOK, Completion, NEW a \in Actors, NEW s, Leave(a, s),
         UNCHANGED <<actual, dash, tick>>,
         hasResults => hasResults',
         nextAt' = "never" => nextAt = "never",
         syncState' = "COMPLETED" => syncState = "COMPLETED"
  PROVE  Completion'
<1>1. /\ pc' = [pc EXCEPT ![a] = "idle"]
      /\ copy' = [copy EXCEPT ![a] = Blank]
  BY DEF Leave, Goto
<1> QED
  BY <1>1
  DEF TypeOK, Blank, Completion, AnswersAreTrue, ResultsAreThere, ClosersSawCompletion,
      TicksCloseFinished, TerminalIsEarned, CompletedMeansResults

\* The goal of each step of a handler: the row, what the actor itself believes and the
\* pc it moves to; the other actors keep theirs.
LEMMA CompletionMove ==
  ASSUME TypeOK, Completion, NEW a \in Actors, NEW where, NEW c,
         pc' = [pc EXCEPT ![a] = where],
         copy' = [copy EXCEPT ![a] = c],
         UNCHANGED <<actual, tick>>,
         hasResults => hasResults',
         dash' = "COMPLETED" => actual = "COMPLETED",
         c.dash = "COMPLETED" => actual = "COMPLETED",
         c.has \/ where \in {"stored", "resultsSynced", "closing"} => hasResults',
         where \in {"resultsSynced", "closing"} => c.dash = "COMPLETED",
         nextAt' = "never" => actual = "COMPLETED" /\ hasResults',
         syncState' = "COMPLETED" => actual = "COMPLETED" /\ hasResults'
  PROVE  Completion'
  BY DEF TypeOK, Completion, AnswersAreTrue, ResultsAreThere, ClosersSawCompletion,
         TicksCloseFinished, TerminalIsEarned, CompletedMeansResults

LEMMA CompletionInductive == TypeOK /\ Completion /\ [Next]_vars => Completion'
<1> SUFFICES ASSUME TypeOK, Completion, [Next]_vars PROVE Completion'
  OBVIOUS
<1> USE DEF Goto
<1>a. /\ dash = "COMPLETED" => actual = "COMPLETED"
      /\ nextAt = "never" => actual = "COMPLETED" /\ hasResults
      /\ syncState = "COMPLETED" => actual = "COMPLETED" /\ hasResults
  BY DEF Completion, AnswersAreTrue, TerminalIsEarned, CompletedMeansResults
<1>b. \A a \in Actors :
        /\ copy[a].dash = "COMPLETED" => actual = "COMPLETED"
        /\ copy[a].has => hasResults
        /\ pc[a] \in {"stored", "resultsSynced", "closing"} => hasResults
        /\ pc[a] \in {"resultsSynced", "closing"} => copy[a].dash = "COMPLETED"
  BY DEF Completion, AnswersAreTrue, ResultsAreThere, ClosersSawCompletion
<1>c. \A a \in Actors : copy[a] \in Copies /\ copy = [copy EXCEPT ![a] = copy[a]]
  BY DEF TypeOK
<1>1. ASSUME NEW a \in Actors, Proceeds(a) PROVE Completion'
  <2> USE <1>a, <1>b, <1>c
  <2>1. CASE PersistStatus(a)
    BY <2>1, CompletionMove DEF PersistStatus
  <2>2. CASE StatusSynced(a)
    <3>1. syncState' = "COMPLETED" => syncState = "COMPLETED"
      BY <2>2 DEF StatusSynced, Transition
    <3>2. [copy[a] EXCEPT !.has = hasResults].dash = copy[a].dash
          /\ [copy[a] EXCEPT !.has = hasResults].has = hasResults
      BY DEF Copies
    <3> QED BY <2>2, <3>1, <3>2, CompletionMove DEF StatusSynced
  <2>3. CASE Reschedule(a)
    BY <2>3, CompletionMove DEF Reschedule, NextSync, Finished
  <2>4. CASE FollowUp(a)
    <3>1. syncState' = "COMPLETED" => actual = "COMPLETED" /\ hasResults
      BY <2>4 DEF FollowUp, CompletesNow, ShouldFetchResults, Transition
    <3> QED BY <2>4, <3>1, CompletionMove DEF FollowUp, Blank
  <2>5. CASE Again(a)
    <3>1. CASE Read(a) /\ Goto(a, "readResults")
      BY <2>5, <3>1, CompletionMove DEF Again, Read, row
    <3>2. CASE Goto(a, "done") /\ UNCHANGED copy
      BY <2>5, <3>2, CompletionMove DEF Again, row
    <3> QED BY <2>5, <3>1, <3>2 DEF Again
  <2>6. CASE ResultsSynced(a)
    <3>1. syncState' = "COMPLETED" => syncState = "COMPLETED"
      BY <2>6 DEF ResultsSynced, Transition
    <3> QED BY <2>6, <3>1, CompletionMove DEF ResultsSynced, ClosesAfterResults, Blank
  <2>7. CASE Completed(a)
    BY <2>7, CompletionMove DEF Completed
  <2>8. CASE Close(a)
    BY <2>8, CompletionMove DEF Close, NextSync, Finished, Blank
  <2>9. CASE DirectReschedule(a)
    BY <2>9, CompletionMove DEF DirectReschedule
  <2>10. CASE Done(a)
    BY <2>10, CompletionLeave DEF Done, row
  <2> QED
    BY <1>1, <2>1, <2>2, <2>3, <2>4, <2>5, <2>6, <2>7, <2>8, <2>9, <2>10 DEF Proceeds
<1>2. ASSUME NEW a \in Actors, Begins(a) PROVE Completion'
  <2>1. syncState' = "COMPLETED" => syncState = "COMPLETED"
    BY <1>2 DEF Begins, BeginStatus, BeginResults, Transition
  <2>2. [copy[a] EXCEPT !.state = "PENDING"].dash = copy[a].dash
        /\ [copy[a] EXCEPT !.state = "PENDING"].has = copy[a].has
    BY <1>c DEF Copies
  <2>3. PICK where : pc' = [pc EXCEPT ![a] = where] /\ where \in {"fetching", "fetchingResults"}
    BY <1>2 DEF Begins, BeginStatus, BeginResults
  <2>4. /\ copy' = [copy EXCEPT ![a] = [copy[a] EXCEPT !.state = "PENDING"]]
        /\ UNCHANGED <<actual, dash, hasResults, nextAt, tick>>
    BY <1>2, <1>c DEF Begins, BeginStatus, BeginResults, TypeOK
  <2> QED BY <1>a, <1>b, <2>1, <2>2, <2>3, <2>4, CompletionMove
<1>3. ASSUME NEW a \in Actors, Fetches(a) PROVE Completion'
  <2>1. CASE FetchStatus(a)
    <3>1. [copy[a] EXCEPT !.dash = actual].dash = actual
          /\ [copy[a] EXCEPT !.dash = actual].has = copy[a].has
      BY <1>c DEF Copies
    <3> QED BY <2>1, <1>a, <1>b, <3>1, CompletionMove DEF FetchStatus, row
  <2>2. CASE StoreResults(a) /\ job[a] = "DIRECT"
    BY <2>2, CompletionLeave DEF StoreResults
  <2>3. CASE StoreResults(a) /\ job[a] # "DIRECT"
    <3>1. /\ pc' = [pc EXCEPT ![a] = "stored"]
          /\ copy' = [copy EXCEPT ![a] = copy[a]]
          /\ hasResults' = TRUE
          /\ UNCHANGED <<actual, dash, syncState, nextAt, tick>>
      BY <2>3, <1>c DEF StoreResults
    <3> QED BY <3>1, <1>a, <1>b, CompletionMove
  <2> QED BY <1>3, <2>1, <2>2, <2>3 DEF Fetches
<1>4. ASSUME NEW a \in Actors, Fails(a) PROVE Completion'
  <2>1. ASSUME NEW e \in Failures, NEW s \in {"none", "waiting"}, HandlerFails(a, e, s)
        PROVE  Completion'
    <3>1. syncState' = "COMPLETED" => syncState = "COMPLETED"
      BY <2>1, SyncAssumption DEF HandlerFails, Transition
    <3> QED BY <2>1, <3>1, CompletionLeave DEF HandlerFails
  <2>2. ASSUME NEW permanent \in BOOLEAN, DirectFails(a, permanent) PROVE Completion'
    BY <2>2, CompletionLeave DEF DirectFails
  <2> QED BY <1>4, <2>1, <2>2 DEF Fails
<1>5. ASSUME NEW r \in Runners, Throttled(r) \/ Crash(r) PROVE Completion'
  <2>1. r \in Actors
    BY DEF Actors
  <2> QED BY <1>5, <2>1, CompletionLeave DEF Throttled, Crash, row
<1>6. ASSUME NEW r \in Runners, NEW t \in JobTypes, Start(r, t) PROVE Completion'
  <2>1. r \in Actors
    BY DEF Actors
  <2>2. PICK c : /\ copy' = [copy EXCEPT ![r] = c]
                 /\ c.dash = "COMPLETED" => dash = "COMPLETED"
                 /\ c.has = FALSE
    BY <1>6 DEF Start, Read, ReadState, Blank
  <2>3. PICK where : pc' = [pc EXCEPT ![r] = where] /\ where \in {"read", "readResults"}
    BY <1>6 DEF Start
  <2> QED BY <1>6, <1>a, <2>1, <2>2, <2>3, CompletionMove DEF Start, row
<1>7. ASSUME NEW c \in Callers, DirectStart(c) PROVE Completion'
  <2>1. c \in Actors
    BY DEF Actors
  <2> QED BY <1>7, <1>a, <1>b, <1>c, <2>1, CompletionMove DEF DirectStart, row
<1>8. ASSUME NEW s \in Schedulers, TickStep(s) PROVE Completion'
  <2>1. \A q \in Schedulers : tick'[q] = "close" => tick[q] = "close"
    BY <1>8 DEF TickStep, TickClose, TickEnqueue, TickAdvance, TypeOK
  <2>2. nextAt' = "never" => actual = "COMPLETED" /\ hasResults
    BY <1>8, <1>a
    DEF TickStep, TickClose, TickEnqueue, TickAdvance, row, Completion, TicksCloseFinished
  <2> QED
    BY <1>8, <2>1, <2>2, CompletionFrame
    DEF TickStep, TickClose, TickEnqueue, TickAdvance, row, own
<1>9. ASSUME NEW s \in Schedulers, NEW m \in Modes, TickRead(s, m) PROVE Completion'
  <2>1. \A q \in Schedulers :
          tick'[q] = "close" => tick[q] = "close" \/ (dash = "COMPLETED" /\ hasResults)
    BY <1>9 DEF TickRead, Finished, TypeOK
  <2> QED BY <1>9, <1>a, <2>1, CompletionFrame DEF TickRead, row, own
<1>10. ASSUME NEW s \in Schedulers, TickLost(s) PROVE Completion'
  <2>1. \A q \in Schedulers : tick'[q] = "close" => tick[q] = "close"
    BY <1>10 DEF TickLost, TypeOK
  <2> QED BY <1>10, <1>a, <2>1, CompletionFrame DEF TickLost, row, own
<1>11. CASE BecomeDue
  BY <1>11, <1>a, CompletionFrame DEF BecomeDue, own
<1>12. CASE BulkCancel \/ ReviewRead \/ ReviewFlag \/ \E t \in {"STATUS", "MANUAL"} : Batch(t)
  BY <1>12, <1>a, CompletionFrame DEF BulkCancel, ReviewRead, ReviewFlag, Batch, row, own
<1>13. CASE ReviewMove
  <2>1. syncState' = "COMPLETED" => syncState = "COMPLETED"
    BY <1>13 DEF ReviewMove, Transition
  <2> QED BY <1>13, <1>a, <2>1, CompletionFrame DEF ReviewMove, own
<1>14. CASE ExamAdvances
  BY <1>14
  DEF ExamAdvances, row, own, Completion, AnswersAreTrue, ResultsAreThere,
      ClosersSawCompletion, TicksCloseFinished, TerminalIsEarned, CompletedMeansResults
<1>15. CASE UNCHANGED vars
  BY <1>15, <1>a, CompletionFrame DEF vars
<1> QED
  BY <1>1, <1>2, <1>3, <1>4, <1>5, <1>6, <1>7, <1>8, <1>9, <1>10, <1>11, <1>12, <1>13,
     <1>14, <1>15 DEF Next

LEMMA CompletionInvariant == Spec => []Completion
<1>1. Init => Completion
  BY DEF Init, Blank, Completion, AnswersAreTrue, ResultsAreThere, ClosersSawCompletion,
         TicksCloseFinished, TerminalIsEarned, CompletedMeansResults
<1> QED BY <1>1, TypeCorrect, CompletionInductive, PTL DEF Spec

\* Polling is stopped for good only where FastTest has reported the exam completed and
\* its results are stored, for any number of handlers, requests and ticks at once.
THEOREM PollingStopsOnlyWhenDone == Spec => []TerminalIsEarned
<1>1. Completion => TerminalIsEarned
  BY DEF Completion
<1> QED BY <1>1, CompletionInvariant, PTL

\* The state COMPLETED is reached with results only.
THEOREM CompletedOnlyWithResults == Spec => []CompletedMeansResults
<1>1. Completion => CompletedMeansResults
  BY DEF Completion
<1> QED BY <1>1, CompletionInvariant, PTL

-----------------------------------------------------------------------------
(* Overlap.  The run registration_overlap shows a stopped polling beside a    *)
(* status that is not COMPLETED.  It takes two answers on their way to the    *)
(* row at once; where answers do not cross, it cannot happen.                 *)

\* At most one handler is between FastTest's answer and its write.
AnswersDoNotCross ==
  \A a, b \in Actors : pc[a] = "answered" /\ pc[b] = "answered" => a = b

\* A COMPLETED row or belief is not contradicted by what is under way, and polling
\* is stopped beside a COMPLETED row only.
Recorded ==
  /\ \A a \in Actors : pc[a] = "answered" /\ dash = "COMPLETED" => copy[a].dash = "COMPLETED"
  /\ \A a \in Actors : pc[a] # "answered" /\ copy[a].dash = "COMPLETED" => dash = "COMPLETED"
  /\ \A s \in Schedulers : tick[s] = "close" => dash = "COMPLETED"
  /\ nextAt = "never" => dash = "COMPLETED"

\* The recorded completion is not taken back.
CompletionStays == dash = "COMPLETED" => dash' = "COMPLETED"

\* Where no handler moves, a tick may find the row finished.
LEMMA RecordedFrame ==
  ASSUME Recorded, UNCHANGED <<dash, pc, copy>>,
         \A s \in Schedulers : tick'[s] = "close" => tick[s] = "close" \/ dash = "COMPLETED",
         nextAt' = "never" => dash = "COMPLETED"
  PROVE  Recorded'
BY DEF Recorded

\* A handler moves, with a copy as good as the one it had; the row keeps its status.
LEMMA RecordedMove ==
  ASSUME TypeOK, Recorded, NEW a \in Actors, NEW where, NEW c,
         pc' = [pc EXCEPT ![a] = where],
         copy' = [copy EXCEPT ![a] = c],
         UNCHANGED <<dash, tick>>,
         where = "answered" /\ dash = "COMPLETED" => c.dash = "COMPLETED",
         where # "answered" /\ c.dash = "COMPLETED" => dash = "COMPLETED",
         nextAt' = "never" => dash = "COMPLETED"
  PROVE  Recorded'
BY DEF Recorded, TypeOK

LEMMA RecordedLeave ==
  ASSUME TypeOK, Recorded, NEW a \in Actors, NEW s, Leave(a, s), UNCHANGED <<dash, tick>>,
         nextAt' = "never" => dash = "COMPLETED"
  PROVE  Recorded'
<1>1. /\ pc' = [pc EXCEPT ![a] = "idle"]
      /\ copy' = [copy EXCEPT ![a] = Blank]
      /\ Blank.dash # "COMPLETED"
  BY DEF Leave, Goto, Blank
<1> QED BY <1>1, RecordedMove

\* The write of an answer, while no other is under way.
LEMMA RecordedPersist ==
  ASSUME TypeOK, Recorded, AnswersDoNotCross, NEW a \in Actors, PersistStatus(a)
  PROVE  Recorded' /\ CompletionStays
<1>1. /\ pc[a] = "answered" /\ pc' = [pc EXCEPT ![a] = "persisted"]
      /\ dash' = copy[a].dash
      /\ UNCHANGED <<copy, tick, nextAt>>
  BY DEF PersistStatus, Goto
<1>2. \A b \in Actors \ {a} : pc[b] # "answered"
  BY <1>1 DEF AnswersDoNotCross
<1>3. dash = "COMPLETED" => dash' = "COMPLETED"
  BY <1>1 DEF Recorded
<1>4. pc'[a] = "persisted" /\ \A b \in Actors \ {a} : pc'[b] = pc[b]
  BY <1>1 DEF TypeOK
<1> QED BY <1>1, <1>2, <1>3, <1>4 DEF Recorded, CompletionStays

LEMMA RecordedInductive ==
  ASSUME TypeOK, Completion, Recorded, AnswersDoNotCross, [Next]_vars
  PROVE  Recorded' /\ CompletionStays
<1> USE DEF Goto, CompletionStays
<1>a. /\ dash = "COMPLETED" => actual = "COMPLETED"
      /\ nextAt = "never" => dash = "COMPLETED"
      /\ \A s \in Schedulers : tick[s] = "close" => dash = "COMPLETED"
  BY DEF Completion, AnswersAreTrue, Recorded
<1>b. \A a \in Actors :
        /\ pc[a] # "answered" /\ copy[a].dash = "COMPLETED" => dash = "COMPLETED"
        /\ pc[a] \in {"resultsSynced", "closing"} => copy[a].dash = "COMPLETED"
  BY DEF Completion, ClosersSawCompletion, Recorded
<1>c. \A a \in Actors : copy[a] \in Copies /\ copy = [copy EXCEPT ![a] = copy[a]]
  BY DEF TypeOK
<1>1. ASSUME NEW a \in Actors, Proceeds(a) PROVE Recorded' /\ CompletionStays
  <2> USE <1>a, <1>b, <1>c
  <2>1. CASE PersistStatus(a)
    BY <2>1, RecordedPersist
  <2>2. CASE StatusSynced(a)
    <3>1. [copy[a] EXCEPT !.has = hasResults].dash = copy[a].dash
      BY DEF Copies
    <3> QED BY <2>2, <3>1, RecordedMove DEF StatusSynced
  <2>3. CASE Reschedule(a)
    BY <2>3, RecordedMove DEF Reschedule, NextSync, Finished
  <2>4. CASE FollowUp(a)
    BY <2>4, RecordedMove DEF FollowUp, Blank
  <2>5. CASE Again(a)
    <3>1. CASE Read(a) /\ Goto(a, "readResults")
      BY <2>5, <3>1, RecordedMove DEF Again, Read, row
    <3>2. CASE Goto(a, "done") /\ UNCHANGED copy
      BY <2>5, <3>2, RecordedMove DEF Again, row
    <3> QED BY <2>5, <3>1, <3>2 DEF Again
  <2>6. CASE ResultsSynced(a)
    <3>1. pc[a] = "stored" /\ UNCHANGED <<dash, nextAt, tick>>
      BY <2>6 DEF ResultsSynced
    <3>2. CASE Goto(a, "resultsSynced") /\ UNCHANGED copy
      BY <3>1, <3>2, RecordedMove
    <3>3. CASE Goto(a, "done") /\ copy' = [copy EXCEPT ![a] = Blank]
      BY <3>1, <3>3, RecordedMove DEF Blank
    <3> QED BY <2>6, <3>2, <3>3 DEF ResultsSynced
  <2>7. CASE Completed(a)
    BY <2>7, RecordedMove DEF Completed
  <2>8. CASE Close(a)
    BY <2>8, RecordedMove DEF Close, NextSync, Finished, Blank
  <2>9. CASE DirectReschedule(a)
    <3>1. PICK where : pc' = [pc EXCEPT ![a] = where] /\ where \in {"fetchingResults", "done"}
      BY <2>9 DEF DirectReschedule
    <3>2. /\ pc[a] # "answered"
          /\ copy' = [copy EXCEPT ![a] = copy[a]]
          /\ UNCHANGED <<dash, tick>> /\ nextAt' = "ahead"
      BY <2>9 DEF DirectReschedule
    <3> QED BY <3>1, <3>2, RecordedMove
  <2>10. CASE Done(a)
    BY <2>10, RecordedLeave DEF Done, row
  <2> QED
    BY <1>1, <2>1, <2>2, <2>3, <2>4, <2>5, <2>6, <2>7, <2>8, <2>9, <2>10 DEF Proceeds
<1>2. ASSUME NEW a \in Actors, Begins(a) PROVE Recorded' /\ CompletionStays
  <2>1. [copy[a] EXCEPT !.state = "PENDING"].dash = copy[a].dash
    BY <1>c DEF Copies
  <2>2. PICK where : /\ pc' = [pc EXCEPT ![a] = where] /\ where \in {"fetching", "fetchingResults"}
                     /\ pc[a] # "answered"
    BY <1>2 DEF Begins, BeginStatus, BeginResults
  <2>3. /\ copy' = [copy EXCEPT ![a] = [copy[a] EXCEPT !.state = "PENDING"]]
        /\ UNCHANGED <<dash, nextAt, tick>>
    BY <1>2, <1>c DEF Begins, BeginStatus, BeginResults, TypeOK
  <2> QED BY <1>a, <1>b, <2>1, <2>2, <2>3, RecordedMove
<1>3. ASSUME NEW a \in Actors, Fetches(a) PROVE Recorded' /\ CompletionStays
  <2>1. CASE FetchStatus(a)
    <3>1. [copy[a] EXCEPT !.dash = actual].dash = actual
      BY <1>c DEF Copies
    <3> QED BY <2>1, <1>a, <3>1, RecordedMove DEF FetchStatus, row
  <2>2. CASE StoreResults(a) /\ job[a] = "DIRECT"
    BY <2>2, <1>a, RecordedLeave DEF StoreResults
  <2>3. CASE StoreResults(a) /\ job[a] # "DIRECT"
    <3>1. /\ pc' = [pc EXCEPT ![a] = "stored"] /\ pc[a] # "answered"
          /\ copy' = [copy EXCEPT ![a] = copy[a]]
          /\ UNCHANGED <<dash, nextAt, tick>>
      BY <2>3, <1>c DEF StoreResults
    <3> QED BY <3>1, <1>a, <1>b, RecordedMove
  <2> QED BY <1>3, <2>1, <2>2, <2>3 DEF Fetches
<1>4. ASSUME NEW a \in Actors, Fails(a) PROVE Recorded' /\ CompletionStays
  <2>1. ASSUME NEW e \in Failures, NEW s \in {"none", "waiting"}, HandlerFails(a, e, s)
        PROVE  Recorded' /\ CompletionStays
    BY <2>1, <1>a, RecordedLeave DEF HandlerFails
  <2>2. ASSUME NEW permanent \in BOOLEAN, DirectFails(a, permanent)
        PROVE  Recorded' /\ CompletionStays
    BY <2>2, <1>a, RecordedLeave DEF DirectFails
  <2> QED BY <1>4, <2>1, <2>2 DEF Fails
<1>5. ASSUME NEW r \in Runners, Throttled(r) \/ Crash(r) PROVE Recorded' /\ CompletionStays
  <2>1. r \in Actors
    BY DEF Actors
  <2> QED BY <1>5, <1>a, <2>1, RecordedLeave DEF Throttled, Crash, row
<1>6. ASSUME NEW r \in Runners, NEW t \in JobTypes, Start(r, t) PROVE Recorded' /\ CompletionStays
  <2>1. r \in Actors
    BY DEF Actors
  <2>2. PICK c : copy' = [copy EXCEPT ![r] = c] /\ (c.dash = "COMPLETED" => dash = "COMPLETED")
    BY <1>6 DEF Start, Read, ReadState, Blank
  <2>3. PICK where : pc' = [pc EXCEPT ![r] = where] /\ where \in {"read", "readResults"}
    BY <1>6 DEF Start
  <2> QED BY <1>6, <1>a, <2>1, <2>2, <2>3, RecordedMove DEF Start, row
<1>7. ASSUME NEW c \in Callers, DirectStart(c) PROVE Recorded' /\ CompletionStays
  <2>1. c \in Actors
    BY DEF Actors
  <2> QED BY <1>7, <1>a, <1>b, <1>c, <2>1, RecordedMove DEF DirectStart, row
<1>8. ASSUME NEW s \in Schedulers, TickStep(s) PROVE Recorded' /\ CompletionStays
  <2>1. \A q \in Schedulers : tick'[q] = "close" => tick[q] = "close"
    BY <1>8 DEF TickStep, TickClose, TickEnqueue, TickAdvance, TypeOK
  <2>2. nextAt' = "never" => dash = "COMPLETED"
    BY <1>8, <1>a DEF TickStep, TickClose, TickEnqueue, TickAdvance, row
  <2> QED
    BY <1>8, <2>1, <2>2, RecordedFrame
    DEF TickStep, TickClose, TickEnqueue, TickAdvance, row, own
<1>9. ASSUME NEW s \in Schedulers, NEW m \in Modes, TickRead(s, m)
      PROVE  Recorded' /\ CompletionStays
  <2>1. \A q \in Schedulers : tick'[q] = "close" => tick[q] = "close" \/ dash = "COMPLETED"
    BY <1>9 DEF TickRead, Finished, TypeOK
  <2> QED BY <1>9, <1>a, <2>1, RecordedFrame DEF TickRead, row, own
<1>10. ASSUME NEW s \in Schedulers, TickLost(s) PROVE Recorded' /\ CompletionStays
  <2>1. \A q \in Schedulers : tick'[q] = "close" => tick[q] = "close"
    BY <1>10 DEF TickLost, TypeOK
  <2> QED BY <1>10, <1>a, <2>1, RecordedFrame DEF TickLost, row, own
<1>11. ASSUME BecomeDue PROVE Recorded' /\ CompletionStays
  BY <1>11, <1>a, RecordedFrame DEF BecomeDue, own
<1>12. ASSUME BulkCancel \/ ReviewRead \/ ReviewFlag \/ \E t \in {"STATUS", "MANUAL"} : Batch(t)
       PROVE  Recorded' /\ CompletionStays
  BY <1>12, <1>a, RecordedFrame DEF BulkCancel, ReviewRead, ReviewFlag, Batch, row, own
<1>13. ASSUME ReviewMove PROVE Recorded' /\ CompletionStays
  BY <1>13, <1>a, RecordedFrame DEF ReviewMove, own
<1>14. ASSUME ExamAdvances PROVE Recorded' /\ CompletionStays
  BY <1>14, <1>a, RecordedFrame DEF ExamAdvances, row, own
<1>15. ASSUME UNCHANGED vars PROVE Recorded' /\ CompletionStays
  BY <1>15, <1>a, RecordedFrame DEF vars
<1> QED
  BY <1>1, <1>2, <1>3, <1>4, <1>5, <1>6, <1>7, <1>8, <1>9, <1>10, <1>11, <1>12, <1>13,
     <1>14, <1>15 DEF Next

LEMMA RecordedInvariant == Spec /\ []AnswersDoNotCross => []Recorded
<1>1. Init => Recorded
  BY DEF Init, Blank, Recorded
<1>2. TypeOK /\ Completion /\ Recorded /\ AnswersDoNotCross /\ [Next]_vars => Recorded'
  BY RecordedInductive
<1> QED BY <1>1, <1>2, TypeCorrect, CompletionInvariant, PTL DEF Spec

\* What the comment on requiresStatusFetch says of a stopped polling is true as long as
\* no two answers cross, and it takes nothing more: handlers, requests, ticks, crashes
\* and operators may overlap in every other way.
THEOREM StoppedWhereAnswersDoNotCross ==
  Spec /\ []AnswersDoNotCross => []StoppedMeansCompleted
<1>1. Recorded => StoppedMeansCompleted
  BY DEF Recorded, StoppedMeansCompleted
<1> QED BY <1>1, RecordedInvariant, PTL

\* And a completion that was recorded is never overwritten by an older answer.
THEOREM CompletionIsNotTakenBack ==
  Spec /\ []AnswersDoNotCross => [][dash = "COMPLETED" => dash' = "COMPLETED"]_vars
<1>1. TypeOK /\ Completion /\ Recorded /\ AnswersDoNotCross /\ [Next]_vars
        => [dash = "COMPLETED" => dash' = "COMPLETED"]_vars
  BY RecordedInductive DEF CompletionStays
<1> QED BY <1>1, RecordedInvariant, TypeCorrect, CompletionInvariant, PTL DEF Spec

-----------------------------------------------------------------------------
(* Jobs.  The module reduces the queue to one live job for each type, run by  *)
(* one runner; what follows says that the reduction is kept by every handler, *)
(* tick, cancellation and crash.                                              *)

\* A job is running exactly while one actor, and no other, works on it.
JobsAreHeld ==
  /\ \A a \in Actors : pc[a] = "idle" <=> job[a] = "none"
  /\ \A a \in Actors : job[a] \in JobTypes => live[job[a]] = "running"
  /\ \A a, b \in Actors : job[a] = job[b] /\ job[a] \in JobTypes => a = b
  /\ \A t \in JobTypes : live[t] = "running" => \E a \in Actors : job[a] = t

SameRunning == \A t \in JobTypes : live[t] = "running" <=> live'[t] = "running"

\* Enqueueing finds or makes a waiting job.
LEMMA EnqueuedRuns ==
  ASSUME TypeOK, NEW t \in JobTypes, live' \in {live, Enqueued(t)}
  PROVE  SameRunning
BY DEF TypeOK, Enqueued, SameRunning

LEMMA HeldFrame ==
  ASSUME JobsAreHeld, UNCHANGED <<pc, job>>, SameRunning
  PROVE  JobsAreHeld'
<1>1. \A a \in Actors : job[a] \in JobTypes => live'[job[a]] = "running"
  BY DEF JobsAreHeld, SameRunning
<1>2. \A t \in JobTypes : live'[t] = "running" => \E a \in Actors : job[a] = t
  BY DEF JobsAreHeld, SameRunning
<1>3. /\ \A a \in Actors : pc[a] = "idle" <=> job[a] = "none"
      /\ \A a, b \in Actors : job[a] = job[b] /\ job[a] \in JobTypes => a = b
  BY DEF JobsAreHeld
<1> QED BY <1>1, <1>2, <1>3 DEF JobsAreHeld

\* Who works goes on working, on the same job.
LEMMA HeldMove ==
  ASSUME TypeOK, JobsAreHeld, NEW a \in Actors, pc[a] # "idle",
         NEW where, where # "idle", pc' = [pc EXCEPT ![a] = where],
         UNCHANGED job, SameRunning
  PROVE  JobsAreHeld'
<1>1. \A b \in Actors : job[b] \in JobTypes => live'[job[b]] = "running"
  BY DEF JobsAreHeld, SameRunning
<1>2. \A t \in JobTypes : live'[t] = "running" => \E b \in Actors : job[b] = t
  BY DEF JobsAreHeld, SameRunning
<1>3. \A b \in Actors : pc'[b] = "idle" <=> job[b] = "none"
  BY DEF JobsAreHeld, TypeOK
<1>4. \A b, c \in Actors : job[b] = job[c] /\ job[b] \in JobTypes => b = c
  BY DEF JobsAreHeld
<1> QED BY <1>1, <1>2, <1>3, <1>4 DEF JobsAreHeld

\* Who leaves is the only one to leave the job.
LEMMA HeldLeave ==
  ASSUME TypeOK, JobsAreHeld, NEW a \in Actors, NEW s \in {"none", "waiting"}, Leave(a, s)
  PROVE  JobsAreHeld'
<1> "none" \notin JobTypes
  BY DEF JobTypes
<1>1. /\ pc'[a] = "idle" /\ job'[a] = "none"
      /\ \A b \in Actors \ {a} : pc'[b] = pc[b] /\ job'[b] = job[b]
  BY DEF Leave, Goto, TypeOK
<1>2. \A t \in JobTypes : live'[t] = IF t = job[a] THEN s ELSE live[t]
  BY DEF Leave, TypeOK
<1>3. \A b \in Actors \ {a} : job[b] \in JobTypes => job[b] # job[a] /\ live[job[b]] = "running"
  BY DEF JobsAreHeld
<1>4. \A b \in Actors : job'[b] \in JobTypes => live'[job'[b]] = "running"
  BY <1>1, <1>2, <1>3
<1>5. \A t \in JobTypes : live'[t] = "running" => \E b \in Actors : job'[b] = t
  <2> SUFFICES ASSUME NEW t \in JobTypes, live'[t] = "running" PROVE \E b \in Actors : job'[b] = t
    OBVIOUS
  <2>1. t # job[a] /\ live[t] = "running"
    BY <1>2
  <2>2. PICK b \in Actors : job[b] = t
    BY <2>1 DEF JobsAreHeld
  <2> QED BY <1>1, <2>1, <2>2
<1>6. /\ \A b \in Actors : pc'[b] = "idle" <=> job'[b] = "none"
      /\ \A b, c \in Actors : job'[b] = job'[c] /\ job'[b] \in JobTypes => b = c
  BY <1>1 DEF JobsAreHeld
<1> QED BY <1>4, <1>5, <1>6 DEF JobsAreHeld

\* Who starts takes a job that waits.
LEMMA HeldStart ==
  ASSUME TypeOK, JobsAreHeld, NEW r \in Runners, NEW t \in JobTypes, Start(r, t)
  PROVE  JobsAreHeld'
<1> "none" \notin JobTypes /\ r \in Actors
  BY DEF JobTypes, Actors
<1>1. /\ pc'[r] # "idle" /\ job'[r] = t /\ job[r] = "none"
      /\ \A b \in Actors \ {r} : pc'[b] = pc[b] /\ job'[b] = job[b]
  BY DEF Start, Goto, TypeOK, JobsAreHeld
<1>2. /\ live[t] = "waiting" /\ live'[t] = "running"
      /\ \A u \in JobTypes \ {t} : live'[u] = live[u]
  BY DEF Start, TypeOK
<1>3. \A b \in Actors : job[b] # t
  BY <1>2 DEF JobsAreHeld
<1>4. \A b \in Actors : job'[b] \in JobTypes => live'[job'[b]] = "running"
  BY <1>1, <1>2 DEF JobsAreHeld
<1>5. \A u \in JobTypes : live'[u] = "running" => \E b \in Actors : job'[b] = u
  <2> SUFFICES ASSUME NEW u \in JobTypes, u # t, live[u] = "running"
               PROVE  \E b \in Actors : job'[b] = u
    BY <1>1, <1>2
  <2>1. PICK b \in Actors : job[b] = u
    BY DEF JobsAreHeld
  <2> QED BY <1>1, <2>1
<1>6. /\ \A b \in Actors : pc'[b] = "idle" <=> job'[b] = "none"
      /\ \A b, c \in Actors : job'[b] = job'[c] /\ job'[b] \in JobTypes => b = c
  BY <1>1, <1>3 DEF JobsAreHeld
<1> QED BY <1>4, <1>5, <1>6 DEF JobsAreHeld

LEMMA HeldInductive == TypeOK /\ JobsAreHeld /\ [Next]_vars => JobsAreHeld'
<1> SUFFICES ASSUME TypeOK, JobsAreHeld, [Next]_vars PROVE JobsAreHeld'
  OBVIOUS
<1> USE DEF Goto
<1>a. UNCHANGED live => SameRunning
  BY DEF SameRunning
<1>b. "none" \notin JobTypes /\ "DIRECT" \notin JobTypes
  BY DEF JobTypes
<1>1. ASSUME NEW a \in Actors, Proceeds(a) PROVE JobsAreHeld'
  <2>1. CASE Done(a)
    BY <2>1, HeldLeave DEF Done
  <2>2. CASE FollowUp(a)
    <3>1. SameRunning
      BY <2>2, EnqueuedRuns DEF FollowUp, JobTypes
    <3> QED BY <2>2, <3>1, HeldMove DEF FollowUp
  <2>3. CASE Again(a)
    <3>1. PICK where : where # "idle" /\ pc' = [pc EXCEPT ![a] = where]
      BY <2>3 DEF Again
    <3> QED BY <2>3, <3>1, <1>a, HeldMove DEF Again, row
  <2>4. CASE PersistStatus(a) \/ StatusSynced(a) \/ Reschedule(a) \/ ResultsSynced(a)
             \/ Completed(a) \/ Close(a) \/ DirectReschedule(a)
    <3>1. PICK where : where # "idle" /\ pc' = [pc EXCEPT ![a] = where]
      BY <2>4 DEF PersistStatus, StatusSynced, Reschedule, ResultsSynced, Completed, Close,
                  DirectReschedule
    <3>2. pc[a] # "idle" /\ UNCHANGED <<job, live>>
      BY <2>4 DEF PersistStatus, StatusSynced, Reschedule, ResultsSynced, Completed, Close,
                  DirectReschedule
    <3> QED BY <3>1, <3>2, <1>a, HeldMove
  <2> QED BY <1>1, <2>1, <2>2, <2>3, <2>4 DEF Proceeds
<1>2. ASSUME NEW a \in Actors, Begins(a) PROVE JobsAreHeld'
  BY <1>2, <1>a, HeldMove DEF Begins, BeginStatus, BeginResults
<1>3. ASSUME NEW a \in Actors, Fetches(a) PROVE JobsAreHeld'
  <2>1. CASE FetchStatus(a)
    BY <2>1, <1>a, HeldMove DEF FetchStatus
  <2>2. CASE StoreResults(a) /\ job[a] = "DIRECT"
    BY <2>2, HeldLeave DEF StoreResults
  <2>3. CASE StoreResults(a) /\ job[a] # "DIRECT"
    BY <2>3, <1>a, HeldMove DEF StoreResults
  <2> QED BY <1>3, <2>1, <2>2, <2>3 DEF Fetches
<1>4. ASSUME NEW a \in Actors, Fails(a) PROVE JobsAreHeld'
  BY <1>4, HeldLeave DEF Fails, HandlerFails, DirectFails
<1>5. ASSUME NEW r \in Runners, Throttled(r) \/ Crash(r) PROVE JobsAreHeld'
  <2>1. r \in Actors
    BY DEF Actors
  <2> QED BY <1>5, <2>1, HeldLeave DEF Throttled, Crash
<1>6. ASSUME NEW r \in Runners, NEW t \in JobTypes, Start(r, t) PROVE JobsAreHeld'
  BY <1>6, HeldStart
<1>7. ASSUME NEW c \in Callers, DirectStart(c) PROVE JobsAreHeld'
  <2>1. c \in Actors /\ pc[c] = "idle" /\ UNCHANGED live
    BY <1>7 DEF DirectStart, Actors
  <2>2. /\ pc'[c] # "idle" /\ job'[c] = "DIRECT" /\ job[c] = "none"
        /\ \A b \in Actors \ {c} : pc'[b] = pc[b] /\ job'[b] = job[b]
    BY <1>7, <2>1 DEF DirectStart, TypeOK, JobsAreHeld
  <2>3. \A t \in JobTypes : live[t] = "running" => \E b \in Actors : job'[b] = t
    <3> SUFFICES ASSUME NEW t \in JobTypes, live[t] = "running"
                 PROVE  \E b \in Actors : job'[b] = t
      OBVIOUS
    <3>1. PICK b \in Actors : job[b] = t
      BY DEF JobsAreHeld
    <3> QED BY <1>b, <2>2, <3>1
  <2> QED BY <1>b, <2>1, <2>2, <2>3 DEF JobsAreHeld
<1>8. ASSUME NEW s \in Schedulers, TickStep(s) PROVE JobsAreHeld'
  <2>1. SameRunning
    BY <1>8, <1>a, EnqueuedRuns DEF TickStep, TickClose, TickEnqueue, TickAdvance, JobTypes
  <2> QED
    BY <1>8, <2>1, HeldFrame DEF TickStep, TickClose, TickEnqueue, TickAdvance, own
<1>9. ASSUME NEW s \in Schedulers, NEW m \in Modes, TickRead(s, m) PROVE JobsAreHeld'
  BY <1>9, <1>a, HeldFrame DEF TickRead, own
<1>10. ASSUME NEW s \in Schedulers, TickLost(s) PROVE JobsAreHeld'
  BY <1>10, <1>a, HeldFrame DEF TickLost, own
<1>11. ASSUME NEW t \in {"STATUS", "MANUAL"}, Batch(t) PROVE JobsAreHeld'
  <2>1. SameRunning
    BY <1>11, EnqueuedRuns DEF Batch, JobTypes
  <2> QED BY <1>11, <2>1, HeldFrame DEF Batch, own
<1>12. CASE BulkCancel
  <2>1. SameRunning
    BY <1>12 DEF BulkCancel, SameRunning
  <2> QED BY <1>12, <2>1, HeldFrame DEF BulkCancel, own
<1>13. CASE BecomeDue \/ ReviewRead \/ ReviewMove \/ ReviewFlag \/ ExamAdvances
  BY <1>13, <1>a, HeldFrame DEF BecomeDue, ReviewRead, ReviewMove, ReviewFlag, ExamAdvances, own
<1>14. CASE UNCHANGED vars
  BY <1>14, <1>a, HeldFrame DEF vars
<1> QED
  BY <1>1, <1>2, <1>3, <1>4, <1>5, <1>6, <1>7, <1>8, <1>9, <1>10, <1>11, <1>12, <1>13, <1>14
     DEF Next

\* One handler at a time works for each job type, and a job that reads as running has
\* one, so that a crash that gives its job back loses none and doubles none.
THEOREM OneHandlerPerJob == Spec => []JobsAreHeld
<1>1. Init => JobsAreHeld
  BY DEF Init, JobsAreHeld, JobTypes
<1> QED BY <1>1, TypeCorrect, HeldInductive, PTL DEF Spec

-----------------------------------------------------------------------------

\* The registration is finished and nobody works on it (a tick may be about to close
\* it once more).
AtRest ==
  /\ dash = "COMPLETED" /\ hasResults /\ nextAt = "never"
  /\ \A a \in Actors : pc[a] = "idle"
  /\ \A t \in JobTypes : live[t] = "none"
  /\ \A s \in Schedulers : tick[s] \in {"idle", "close"}
  /\ review = "idle"

RestIsKept == [][AtRest /\ calls' = calls => AtRest']_vars

\* A finished registration makes no work of its own accord: in neither mode does a tick
\* take it up again, and only an operator or a web request (each counts as a call) can
\* (the safety half of PollingStops and CompletionIsRecorded).
THEOREM FinishedRests == Spec => RestIsKept
<1>1. TypeOK /\ [Next]_vars => [AtRest /\ calls' = calls => AtRest']_vars
  <2> SUFFICES ASSUME TypeOK, [Next]_vars, AtRest, calls' = calls PROVE AtRest'
    OBVIOUS
  <2>a. /\ \A a \in Actors : pc[a] = "idle"
        /\ \A t \in JobTypes : live[t] = "none"
        /\ dash = "COMPLETED" /\ hasResults /\ nextAt = "never" /\ review = "idle"
        /\ \A s \in Schedulers : tick[s] \in {"idle", "close"}
        /\ calls \in Nat
    BY DEF AtRest, TypeOK
  <2>1. ASSUME NEW a \in Actors, Proceeds(a) PROVE FALSE
    <3>1. pc[a] = "idle"
      BY <2>a
    <3> QED
      BY <2>1, <3>1 DEF Proceeds, PersistStatus, StatusSynced, Reschedule, FollowUp, Again, ResultsSynced,
           Completed, Close, DirectReschedule, Done
  <2>2. ASSUME NEW a \in Actors, Begins(a) \/ Fetches(a) PROVE FALSE
    BY <2>2, <2>a DEF Begins, BeginStatus, BeginResults, Fetches, FetchStatus, StoreResults
  <2>3. ASSUME NEW a \in Actors, Fails(a) PROVE FALSE
    BY <2>3, <2>a DEF Fails, HandlerFails, DirectFails
  <2>4. ASSUME NEW r \in Runners, Throttled(r) \/ Crash(r) \/ \E t \in JobTypes : Start(r, t)
        PROVE  FALSE
    BY <2>4, <2>a DEF Throttled, Crash, Start, Actors
  <2>5. ASSUME NEW c \in Callers, DirectStart(c) PROVE FALSE
    BY <2>5, <2>a DEF DirectStart
  <2>6. ASSUME NEW s \in Schedulers, TickStep(s) \/ TickLost(s) PROVE AtRest'
    <3>1. \A q \in Schedulers : tick'[q] \in {"idle", "close"}
      BY <2>6, <2>a DEF TickStep, TickClose, TickEnqueue, TickAdvance, TickLost, TypeOK
    <3>2. nextAt' = "never" /\ UNCHANGED <<dash, hasResults, pc, live, review>>
      BY <2>6, <2>a DEF TickStep, TickClose, TickEnqueue, TickAdvance, TickLost, row, own
    <3> QED
      BY <3>1, <3>2 DEF AtRest
  <2>7. ASSUME NEW s \in Schedulers, NEW m \in Modes, TickRead(s, m) PROVE AtRest'
    <3>1. \A q \in Schedulers : tick'[q] \in {tick[q], "close"}
      BY <2>7, <2>a DEF TickRead, Finished, TypeOK
    <3> QED
      BY <2>7, <2>a, <3>1 DEF TickRead, AtRest, row, own
  <2>8. ASSUME BulkCancel \/ ReviewRead \/ \E t \in {"STATUS", "MANUAL"} : Batch(t) PROVE FALSE
    BY <2>8, <2>a DEF BulkCancel, ReviewRead, Batch, Operator
  <2>9. ASSUME BecomeDue \/ ReviewMove \/ ReviewFlag PROVE FALSE
    BY <2>9, <2>a DEF BecomeDue, ReviewMove, ReviewFlag, SyncStates, Errors
  <2>10. CASE ExamAdvances
    BY <2>10 DEF ExamAdvances, row, own, AtRest
  <2>11. CASE UNCHANGED vars
    BY <2>11 DEF vars, AtRest
  <2> QED
    BY <2>1, <2>2, <2>3, <2>4, <2>5, <2>6, <2>7, <2>8, <2>9, <2>10, <2>11 DEF Next
<1> QED
  BY <1>1, TypeCorrect, PTL DEF Spec, RestIsKept
=============================================================================

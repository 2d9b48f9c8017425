-------------------------- MODULE RegistrationSync --------------------------
(***************************************************************************)
(* The life of one exam registration: the scheduler that makes jobs for    *)
(* it, the handlers that ask FastTest for its status and its results, the  *)
(* direct sync of the web server, and the operator who sends it to review. *)
(* All of them update the same row, each from the copy it read before its  *)
(* HTTP call; the formal sync state is checked against that copy.          *)
(*                                                                         *)
(* The queue is reduced to what JobLifecycle promises: at most one live    *)
(* job per type, one runner per job, and a lost or failed job waits again  *)
(* or is settled.  Statuses are reduced to the three that differ:          *)
(* IN_PROGRESS (any status without results), UNDER_REVIEW (and             *)
(* REVIEW_FAILED) and COMPLETED.  Freshness flags, priorities and the      *)
(* length of the polling interval are left out.                            *)
(***************************************************************************)
EXTENDS Integers

CONSTANTS
  Runners,    \* job runners
  Callers,    \* web requests that sync the registration directly
  Schedulers, \* orchestrators, one per worker process
  Modes,      \* sync modes this instance allows: ADAPTIVE, SWEEP
  OperatorActions, \* batch, cancel, review
  Failures,   \* error states a failed call may lead to in this instance
  MaxCalls,   \* bound on operator actions and web requests
  MaxCrashes  \* bound on lost runners and scheduler ticks

ASSUME SyncAssumption ==
  /\ Modes \subseteq {"ADAPTIVE", "SWEEP"}
  /\ OperatorActions \subseteq {"batch", "cancel", "review"}
  /\ Failures \subseteq {"API_ERROR", "RATE_LIMITED"}
  /\ MaxCalls \in Nat /\ MaxCrashes \in Nat
  /\ Runners \cap Callers = {}

Actors == Runners \cup Callers

VARIABLES
  actual,     \* what FastTest would answer
  syncState, dash, hasResults, \* the row: syncState, dashboardStatus, result rows
  nextAt,     \* nextSyncAt: due (or null), ahead, or never (a century away)
  live,       \* [JobTypes -> none, waiting (QUEUED, RETRY_SCHEDULED) or running]
  pc, job, copy, \* where each actor is, for which job, on which copy of the row
  tick,       \* progress of each scheduler's tick
  review,     \* progress of the operator's move to review
  calls, crashes

row  == <<syncState, dash, hasResults, nextAt>>
own  == <<pc, job, copy>>
vars == <<actual, syncState, dash, hasResults, nextAt, live, pc, job, copy,
          tick, review, calls, crashes>>

Statuses  == {"IN_PROGRESS", "UNDER_REVIEW", "COMPLETED"}
JobTypes  == {"STATUS", "RESULTS", "FULL", "MANUAL"}
\* API_ERROR stands for NOT_FOUND, AUTH_FAILED and TIMEOUT as well, which have the
\* same transitions.  Nothing writes QUEUED, RETRY_SCHEDULED or STALE.
Errors     == {"API_ERROR", "RATE_LIMITED"}
SyncStates == {"PENDING", "SYNCING_STATUS", "STATUS_SYNCED", "SYNCING_RESULTS",
               "RESULTS_SYNCED", "COMPLETED", "MANUAL_REVIEW"} \cup Errors
StatusPcs  == {"read", "fetching", "answered", "persisted", "counted", "scheduled"}
ResultPcs  == {"readResults", "fetchingResults", "stored", "resultsSynced", "closing"}
Pcs        == {"idle", "again", "done"} \cup StatusPcs \cup ResultPcs
Copies     == [state : SyncStates, dash : Statuses, has : BOOLEAN]

TypeOK ==
  /\ actual \in Statuses
  /\ syncState \in SyncStates
  /\ dash \in Statuses
  /\ hasResults \in BOOLEAN
  /\ nextAt \in {"due", "ahead", "never"}
  /\ live \in [JobTypes -> {"none", "waiting", "running"}]
  /\ pc \in [Actors -> Pcs]
  /\ job \in [Actors -> JobTypes \cup {"DIRECT", "none"}]
  /\ copy \in [Actors -> Copies]
  /\ tick \in [Schedulers -> {"idle", "STATUS", "FULL", "close", "advance"}]
  /\ review \in {"idle", "flag"} \cup SyncStates
  /\ calls \in Nat
  /\ crashes \in Nat

Blank == [state |-> "PENDING", dash |-> "IN_PROGRESS", has |-> FALSE]

Init ==
  /\ actual \in Statuses
  /\ syncState = "PENDING" /\ dash = "IN_PROGRESS" /\ hasResults = FALSE
  /\ nextAt = "due"
  /\ live = [t \in JobTypes |-> "none"]
  /\ pc = [a \in Actors |-> "idle"]
  /\ job = [a \in Actors |-> "none"]
  /\ copy = [a \in Actors |-> Blank]
  /\ tick = [s \in Schedulers |-> "idle"]
  /\ review = "idle"
  /\ calls = 0 /\ crashes = 0

-----------------------------------------------------------------------------
(* Policy and state machine.                                                *)

BeginSync == {"SYNCING_STATUS", "SYNCING_RESULTS"}

Transitions ==
  [s \in SyncStates |->
    CASE s = "PENDING"         -> BeginSync \cup {"MANUAL_REVIEW"}
      [] s = "SYNCING_STATUS"  -> Errors \cup {"STATUS_SYNCED", "MANUAL_REVIEW"}
      [] s = "SYNCING_RESULTS" -> Errors \cup {"RESULTS_SYNCED", "MANUAL_REVIEW"}
      [] s \in {"STATUS_SYNCED", "RESULTS_SYNCED"} -> BeginSync \cup {"COMPLETED"}
      [] s = "API_ERROR"       -> BeginSync \cup {"MANUAL_REVIEW"}
      [] s \in {"COMPLETED", "RATE_LIMITED"} -> BeginSync
      [] s = "MANUAL_REVIEW"   -> {}]

CanTransition(from, to) == from = to \/ to \in Transitions[from]

\* transitionState: the check is against the state the caller names, the update
\* is by id alone; a refused transition changes nothing and the caller goes on.
Transition(from, to) == syncState' = IF CanTransition(from, to) THEN to ELSE syncState

\* Mutant: results are fetched while the exam is under review only.
ShouldFetchInReview(s) == s = "UNDER_REVIEW"

ShouldFetchResults(s) == s \in {"UNDER_REVIEW", "COMPLETED"}

\* Mutants: a finished registration goes on being polled, or one without results is
\* taken for finished.
NeverFinished(s, has)  == FALSE
FinishedByStatus(s, has) == s = "COMPLETED"

\* Completed with its results stored: nothing more to fetch.
Finished(s, has) == s = "COMPLETED" /\ has

NextSync(s, has) == IF Finished(s, has) THEN "never" ELSE "ahead"

Goto(a, where) == pc' = [pc EXCEPT ![a] = where]
Enqueued(t) == [live EXCEPT ![t] = IF @ = "none" THEN "waiting" ELSE @]

\* The row as a handler reads it.
Read(a) == copy' = [copy EXCEPT ![a] = [state |-> syncState, dash |-> dash, has |-> FALSE]]

\* The old status is of no use to what asks for a new one.
ReadState(a) == copy' = [copy EXCEPT ![a] = [Blank EXCEPT !.state = syncState]]

\* The job ends in state s of the queue; a direct request just ends.
Leave(a, s) ==
  /\ Goto(a, "idle")
  /\ job' = [job EXCEPT ![a] = "none"]
  /\ copy' = [copy EXCEPT ![a] = Blank]
  /\ live' = IF job[a] \in JobTypes THEN [live EXCEPT ![job[a]] = s] ELSE live

-----------------------------------------------------------------------------
(* The status part of a handler, and of a direct sync.                      *)

Start(r, t) ==
  /\ pc[r] = "idle"
  /\ live[t] = "waiting"
  /\ live' = [live EXCEPT ![t] = "running"]
  /\ job' = [job EXCEPT ![r] = t]
  /\ IF t = "RESULTS" THEN Read(r) /\ Goto(r, "readResults")
                      ELSE ReadState(r) /\ Goto(r, "read")
  /\ UNCHANGED <<actual, row, tick, review, calls, crashes>>

\* The rate slot is refused.
Throttled(r) ==
  /\ pc[r] \in {"read", "readResults"}
  /\ Leave(r, "waiting")
  /\ UNCHANGED <<actual, row, tick, review, calls, crashes>>

BeginStatus(r) ==
  /\ pc[r] = "read"
  /\ Transition(copy[r].state, "SYNCING_STATUS")
  /\ Goto(r, "fetching")
  /\ copy' = [copy EXCEPT ![r].state = "PENDING"]
  /\ UNCHANGED <<actual, dash, hasResults, nextAt, live, job, tick, review, calls, crashes>>

\* FastTest answers; from here on copy.dash is that answer (a part of the copy that
\* nobody will look at again is blanked).
FetchStatus(a) ==
  /\ pc[a] = "fetching"
  /\ copy' = [copy EXCEPT ![a].dash = actual]
  /\ Goto(a, "answered")
  /\ UNCHANGED <<actual, row, live, job, tick, review, calls, crashes>>

PersistStatus(a) ==
  /\ pc[a] = "answered"
  /\ dash' = copy[a].dash
  /\ Goto(a, "persisted")
  /\ UNCHANGED <<actual, syncState, hasResults, nextAt, live, job, copy, tick, review, calls, crashes>>

\* STATUS_SYNCED, claimed to come from SYNCING_STATUS; then the results are counted.
StatusSynced(r) ==
  /\ pc[r] = "persisted"
  /\ job[r] # "DIRECT"
  /\ Transition("SYNCING_STATUS", "STATUS_SYNCED")
  /\ copy' = [copy EXCEPT ![r].has = hasResults]
  /\ Goto(r, "counted")
  /\ UNCHANGED <<actual, dash, hasResults, nextAt, live, job, tick, review, calls, crashes>>

Reschedule(r) ==
  /\ pc[r] = "counted"
  /\ nextAt' = NextSync(copy[r].dash, copy[r].has)
  /\ Goto(r, "scheduled")
  /\ UNCHANGED <<actual, syncState, dash, hasResults, live, job, copy, tick, review, calls, crashes>>

\* Mutant: completed whether or not the results are still to be fetched.
CompletesAtOnce(s, has) == s = "COMPLETED"

CompletesNow(s, has) == s = "COMPLETED" /\ ~ (ShouldFetchResults(s) /\ ~ has)

\* A results job when results are needed and missing, or the state COMPLETED.
FollowUp(r) ==
  LET s == copy[r].dash
      has == copy[r].has
  IN  /\ pc[r] = "scheduled"
      /\ live' = IF ShouldFetchResults(s) /\ ~ has THEN Enqueued("RESULTS") ELSE live
      /\ IF CompletesNow(s, has) THEN Transition("STATUS_SYNCED", "COMPLETED")
                                 ELSE UNCHANGED syncState
      /\ Goto(r, IF job[r] = "STATUS" THEN "done" ELSE "again")
      /\ copy' = [copy EXCEPT ![r] = Blank]
      /\ UNCHANGED <<actual, dash, hasResults, nextAt, job, tick, review, calls, crashes>>

\* handleFull reads the row again and goes on to the results where they are due.
Again(r) ==
  /\ pc[r] = "again"
  /\ IF ShouldFetchResults(dash) THEN Read(r) /\ Goto(r, "readResults")
                                 ELSE Goto(r, "done") /\ UNCHANGED copy
  /\ UNCHANGED <<actual, row, live, job, tick, review, calls, crashes>>

-----------------------------------------------------------------------------
(* The results part.                                                        *)

BeginResults(r) ==
  /\ pc[r] = "readResults"
  /\ Transition(copy[r].state, "SYNCING_RESULTS")
  /\ Goto(r, "fetchingResults")
  /\ copy' = [copy EXCEPT ![r].state = "PENDING"]
  /\ UNCHANGED <<actual, dash, hasResults, nextAt, live, job, tick, review, calls, crashes>>

\* The result rows are replaced in one transaction.
StoreResults(a) ==
  /\ pc[a] = "fetchingResults"
  /\ ShouldFetchResults(actual)
  /\ hasResults' = TRUE
  /\ IF job[a] = "DIRECT" THEN Leave(a, "none") ELSE Goto(a, "stored") /\ UNCHANGED <<live, job, copy>>
  /\ UNCHANGED <<actual, syncState, dash, nextAt, tick, review, calls, crashes>>

ClosesAfterResults(s) == s = "COMPLETED"

ResultsSynced(r) ==
  /\ pc[r] = "stored"
  /\ Transition("SYNCING_RESULTS", "RESULTS_SYNCED")
  /\ IF ClosesAfterResults(copy[r].dash)
     THEN Goto(r, "resultsSynced") /\ UNCHANGED copy
     ELSE Goto(r, "done") /\ copy' = [copy EXCEPT ![r] = Blank]
  /\ UNCHANGED <<actual, dash, hasResults, nextAt, live, job, tick, review, calls, crashes>>

Completed(r) ==
  /\ pc[r] = "resultsSynced"
  /\ Transition("RESULTS_SYNCED", "COMPLETED")
  /\ Goto(r, "closing")
  /\ UNCHANGED <<actual, dash, hasResults, nextAt, live, job, copy, tick, review, calls, crashes>>

\* Scheduled with hasResults: true.
Close(r) ==
  /\ pc[r] = "closing"
  /\ nextAt' = NextSync(copy[r].dash, TRUE)
  /\ Goto(r, "done")
  /\ copy' = [copy EXCEPT ![r] = Blank]
  /\ UNCHANGED <<actual, syncState, dash, hasResults, live, job, tick, review, calls, crashes>>

Done(a) ==
  /\ pc[a] = "done"
  /\ Leave(a, "none")
  /\ UNCHANGED <<actual, row, tick, review, calls, crashes>>

\* The call fails: an error state claimed to come from SYNCING_*, and the queue
\* retries the job or settles it.
HandlerFails(r, e, s) ==
  /\ pc[r] \in {"fetching", "fetchingResults"}
  /\ job[r] # "DIRECT"
  /\ Transition(IF pc[r] = "fetching" THEN "SYNCING_STATUS" ELSE "SYNCING_RESULTS", e)
  /\ Leave(r, s)
  /\ UNCHANGED <<actual, dash, hasResults, nextAt, tick, review, calls, crashes>>

\* A runner dies; the sweep brings its job back.
Crash(r) ==
  /\ pc[r] # "idle"
  /\ crashes < MaxCrashes
  /\ crashes' = crashes + 1
  /\ Leave(r, "waiting")
  /\ UNCHANGED <<actual, row, tick, review, calls>>

-----------------------------------------------------------------------------
(* syncRegistration, called from a web request: no job, no sync state.      *)

DirectStart(c) ==
  /\ pc[c] = "idle"
  /\ calls < MaxCalls
  /\ calls' = calls + 1
  /\ job' = [job EXCEPT ![c] = "DIRECT"]
  /\ Goto(c, "fetching")
  /\ UNCHANGED <<actual, row, live, copy, tick, review, crashes>>

DirectReschedule(c) ==
  /\ pc[c] = "persisted"
  /\ job[c] = "DIRECT"
  /\ nextAt' = "ahead"
  /\ Goto(c, IF ShouldFetchResults(copy[c].dash) THEN "fetchingResults" ELSE "done")
  /\ UNCHANGED <<actual, syncState, dash, hasResults, live, job, copy, tick, review, calls, crashes>>

\* markError: a permanent error (or one too many) clears nextSyncAt, which the tick
\* takes for due, and sets syncStatus to MANUAL_REVIEW, which it does not look at;
\* another one sets a short delay.  Failed results are ignored.
DirectFails(c, permanent) ==
  /\ job[c] = "DIRECT"
  /\ \/ /\ pc[c] = "fetching"
        /\ nextAt' = IF permanent THEN "due" ELSE "ahead"
     \/ /\ pc[c] = "fetchingResults"
        /\ UNCHANGED nextAt
  /\ Leave(c, "none")
  /\ UNCHANGED <<actual, syncState, dash, hasResults, tick, review, calls, crashes>>

-----------------------------------------------------------------------------
(* enqueueDueJobs: the due row is read, then handled, then put off.         *)

TickRead(s, mode) ==
  /\ tick[s] = "idle"
  /\ mode \in Modes
  /\ syncState # "MANUAL_REVIEW"
  /\ IF mode = "SWEEP" THEN ~ (dash = "COMPLETED" /\ hasResults) ELSE nextAt = "due"
  /\ tick' = [tick EXCEPT ![s] =
       IF Finished(dash, hasResults) THEN "close"
       ELSE IF ShouldFetchResults(dash) /\ ~ hasResults THEN "FULL" ELSE "STATUS"]
  /\ UNCHANGED <<actual, row, live, own, review, calls, crashes>>

TickClose(s) ==
  /\ tick[s] = "close"
  /\ nextAt' = "never"
  /\ tick' = [tick EXCEPT ![s] = "idle"]
  /\ UNCHANGED <<actual, syncState, dash, hasResults, live, own, review, calls, crashes>>

TickEnqueue(s) ==
  /\ tick[s] \in {"STATUS", "FULL"}
  /\ live' = Enqueued(tick[s])
  /\ tick' = [tick EXCEPT ![s] = "advance"]
  /\ UNCHANGED <<actual, row, own, review, calls, crashes>>

\* Written whatever a handler has scheduled since.
TickAdvance(s) ==
  /\ tick[s] = "advance"
  /\ nextAt' = "ahead"
  /\ tick' = [tick EXCEPT ![s] = "idle"]
  /\ UNCHANGED <<actual, syncState, dash, hasResults, live, own, review, calls, crashes>>

TickLost(s) ==
  /\ tick[s] # "idle"
  /\ crashes < MaxCrashes
  /\ crashes' = crashes + 1
  /\ tick' = [tick EXCEPT ![s] = "idle"]
  /\ UNCHANGED <<actual, row, live, own, review, calls>>

BecomeDue ==
  /\ nextAt = "ahead"
  /\ nextAt' = "due"
  /\ UNCHANGED <<actual, syncState, dash, hasResults, live, own, tick, review, calls, crashes>>

-----------------------------------------------------------------------------
(* Operators, and FastTest.                                                 *)

Operator(action) ==
  /\ action \in OperatorActions
  /\ calls < MaxCalls
  /\ calls' = calls + 1

\* A bulk SYNC, or a batch job that takes in this registration.
Batch(t) ==
  /\ Operator("batch")
  /\ live' = Enqueued(t)
  /\ UNCHANGED <<actual, row, own, tick, review, crashes>>

BulkCancel ==
  /\ Operator("cancel")
  /\ live' = [t \in JobTypes |-> IF live[t] = "waiting" THEN "none" ELSE live[t]]
  /\ UNCHANGED <<actual, row, own, tick, review, crashes>>

\* Bulk MANUAL_REVIEW: the state is read, then moved if the machine allows it,
\* and then nextSyncAt is cleared in any case.
ReviewRead ==
  /\ review = "idle"
  /\ Operator("review")
  /\ review' = syncState
  /\ UNCHANGED <<actual, row, live, own, tick, crashes>>

ReviewMove ==
  /\ review \in SyncStates
  /\ Transition(review, "MANUAL_REVIEW")
  /\ review' = "flag"
  /\ UNCHANGED <<actual, dash, hasResults, nextAt, live, own, tick, calls, crashes>>

ReviewFlag ==
  /\ review = "flag"
  /\ review' = "idle"
  /\ nextAt' = "due"
  /\ UNCHANGED <<actual, syncState, dash, hasResults, live, own, tick, calls, crashes>>

\* The exam goes on; FastTest does not take a completion back.
ExamAdvances ==
  /\ actual # "COMPLETED"
  /\ actual' \in (IF actual = "IN_PROGRESS" THEN {"UNDER_REVIEW"} ELSE {}) \cup {"COMPLETED"}
  /\ UNCHANGED <<row, live, own, tick, review, calls, crashes>>

-----------------------------------------------------------------------------

\* What an actor does without depending on FastTest or the rate limiter.
Proceeds(a) ==
  \/ PersistStatus(a)
  \/ StatusSynced(a)
  \/ Reschedule(a)
  \/ FollowUp(a)
  \/ Again(a)
  \/ ResultsSynced(a)
  \/ Completed(a)
  \/ Close(a)
  \/ DirectReschedule(a)
  \/ Done(a)

Begins(a) == BeginStatus(a) \/ BeginResults(a)

Fetches(a) == FetchStatus(a) \/ StoreResults(a)

Fails(a) ==
  \/ \E e \in Failures, s \in {"none", "waiting"} : HandlerFails(a, e, s)
  \/ \E permanent \in BOOLEAN : DirectFails(a, permanent)

TickStep(s) == TickClose(s) \/ TickEnqueue(s) \/ TickAdvance(s)

Next ==
  \/ \E a \in Actors : Proceeds(a) \/ Begins(a) \/ Fetches(a) \/ Fails(a)
  \/ \E r \in Runners : Throttled(r) \/ Crash(r) \/ \E t \in JobTypes : Start(r, t)
  \/ \E c \in Callers : DirectStart(c)
  \/ \E s \in Schedulers : TickStep(s) \/ TickLost(s) \/ \E m \in Modes : TickRead(s, m)
  \/ BecomeDue
  \/ \E t \in {"STATUS", "MANUAL"} : Batch(t)
  \/ BulkCancel
  \/ ReviewRead \/ ReviewMove \/ ReviewFlag
  \/ ExamAdvances

Spec == Init /\ [][Next]_vars

\* The queue runs what waits (JobQueue, WaitingRuns), the orchestrators keep ticking;
\* of the calls made again and again, rate slots are granted and FastTest answers
\* some, with a status and with results.
Fairness ==
  /\ \A a \in Actors : /\ WF_vars(Proceeds(a))
                       /\ SF_vars(BeginStatus(a)) /\ SF_vars(BeginResults(a))
                       /\ SF_vars(FetchStatus(a)) /\ SF_vars(StoreResults(a))
  /\ \A t \in JobTypes : SF_vars(\E r \in Runners : Start(r, t))
  /\ \A s \in Schedulers : WF_vars(TickStep(s)) /\ SF_vars(\E m \in Modes : TickRead(s, m))
  /\ WF_vars(BecomeDue)
  /\ WF_vars(ReviewMove \/ ReviewFlag)

FairSpec == Spec /\ Fairness

-----------------------------------------------------------------------------

\* Polling is stopped for good only where FastTest has reported the exam completed
\* and its results are stored, whichever copy that was decided on.
TerminalIsEarned == nextAt = "never" => actual = "COMPLETED" /\ hasResults

\* "COMPLETED: terminal, synced through to results": the state is never reached on
\* a status alone, nor by an answer that was not COMPLETED.
CompletedMeansResults == syncState = "COMPLETED" => actual = "COMPLETED" /\ hasResults

\* An exam that is completed is seen completed, its results are stored and its
\* polling ends, through refused slots, failures, lost jobs and lost or late ticks;
\* unless an operator holds it in review.  This is for jobs that do not overlap
\* (StoppedMeansCompleted says what happens otherwise).
CompletionIsRecorded ==
  <>[](actual = "COMPLETED") =>
    <>[](\/ dash = "COMPLETED" /\ hasResults /\ nextAt = "never"
         \/ syncState = "MANUAL_REVIEW")

\* The platform "stops burning FastTest calls on work that is done".
PollingStops ==
  <>[](actual = "COMPLETED") =>
    <>[](\A t \in JobTypes : live[t] = "none")

\* "requiresStatusFetch: true unless already COMPLETED with results": once nobody
\* works on a registration, its polling is stopped only if it reads COMPLETED.  Two
\* overlapping jobs break it: the older answer is written last and the newer one
\* stops the polling.
StoppedMeansCompleted ==
  (/\ nextAt = "never"
   /\ \A a \in Actors : pc[a] = "idle"
   /\ \A t \in JobTypes : live[t] = "none"
   /\ \A s \in Schedulers : tick[s] = "idle")
    => dash = "COMPLETED"
=============================================================================

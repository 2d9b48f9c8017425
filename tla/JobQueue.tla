------------------------------ MODULE JobQueue ------------------------------
(***************************************************************************)
(* The durable job queue of the sync platform: the SyncJob table, the      *)
(* claim / finish protocol of the job runners of every worker process, the *)
(* stalled-job sweep, and the operations the scheduler and the operators   *)
(* apply to the same rows.                                                 *)
(*                                                                         *)
(* Nothing but single SQL statements (and the two-statement transaction    *)
(* that ends an attempt) is atomic.  A code path that reads, awaits and    *)
(* then writes is therefore split here at the await: enqueue, cancelJob,   *)
(* requeueDeadLetter and pauseAcademicYear keep their progress in `request', *)
(* claimNext keeps its in `view'.                                          *)
(*                                                                         *)
(* Time is reduced to two facts per row: `due' (scheduledAt or nextRetryAt *)
(* is not after now) and `lapsed' (the row is running and its heartbeat older *)
(* than SYNC_STALLED_JOB_MS).  The master switch, the rate buckets and the *)
(* deadlock retries only make a step happen later and are left out.        *)
(***************************************************************************)
EXTENDS Integers, FiniteSets

CONSTANTS
  Jobs,        \* rows the SyncJob table may come to hold
  Kinds,       \* dedupe keys: a job type with its registration or workspace
  Workspaces,  \* FastTest workspaces
  Years,       \* academic years
  WsOf,        \* [Kinds -> Workspaces], the row's workspaceId
  ScopesOf,    \* [Kinds -> SUBSET Scopes], the pausable scopes written on the row
  Workers,     \* worker processes (WORKER_ID)
  Runners,     \* the concurrent runners of all the processes
  WorkerOf,    \* [Runners -> Workers]
  Clients,     \* requests in flight: scheduler ticks and operators
  MaxAttempts, \* SyncJob.maxAttempts
  GlobalMax,   \* SYNC_GLOBAL_MAX_CONCURRENT
  WsCap,       \* endpointConcurrency of a workspace
  Scopes,      \* what QueueControl can pause
  Faults,      \* environment faults of this instance
  Operations,  \* operator actions of this instance
  MaxCrashes,  \* bound on process crashes
  MaxClaims,   \* bound on attemptCount
  NoJob, NoWorker

FaultKinds == {"crash", "stall", "acklost", "breaker", "throw"}
OperationKinds == {"cancel", "retry", "requeue", "retryFailed", "pause", "pauseYear"}

ASSUME ConstantsAssumption ==
  /\ IsFiniteSet(Jobs) /\ IsFiniteSet(Runners) /\ IsFiniteSet(Clients)
  /\ Kinds # {}
  /\ WsOf \in [Kinds -> Workspaces]
  /\ Years \subseteq Scopes
  /\ ScopesOf \in [Kinds -> SUBSET Scopes]
  /\ WorkerOf \in [Runners -> Workers]
  /\ NoJob \notin Jobs /\ NoWorker \notin Workers \cup Runners
  /\ MaxAttempts \in Nat \ {0}
  /\ GlobalMax \in Nat \ {0}
  /\ WsCap \in Nat \ {0}
  /\ MaxCrashes \in Nat
  /\ MaxClaims \in Nat
  /\ Faults \subseteq FaultKinds
  /\ Operations \subseteq OperationKinds

VARIABLES
  status,      \* [Jobs -> status, or ABSENT before the row is created]
  kind,        \* [Jobs -> Kinds], meaningful once the row exists
  lockedBy,    \* [Jobs -> Workers or NoWorker]
  attempts,    \* [Jobs -> Int], attemptCount
  due,         \* [Jobs -> BOOLEAN], of rows that wait
  lapsed,      \* [Jobs -> BOOLEAN]
  paused,      \* scopes with a QueueControl row that says paused
  cached,      \* what each process last read of them (pausedSets, ttlCache)
  breakerOpen, \* workspaces whose circuit breaker refuses calls
  pc,          \* where each runner is in processOneJob
  view,        \* what its claimNext has read so far
  held,        \* the job it works on
  snap,        \* attemptCount of the row claimNext returned to it
  revoked,     \* history: runners whose claim somebody else has ended
  request,     \* progress of each client's request
  crashes      \* crashes so far

rows    == <<status, kind, lockedBy, attempts, due, lapsed>>
control == <<paused, cached, breakerOpen>>
runner  == <<pc, view, held, snap, revoked>>
vars    == <<status, kind, lockedBy, attempts, due, lapsed, paused, cached, breakerOpen,
             pc, view, held, snap, revoked, request, crashes>>

-----------------------------------------------------------------------------
(* Statuses.  FAILED exists in the enumeration, but nothing writes it.      *)

\* Mutant: a job that waits for its retry is not seen as active.
ActiveWithoutRetries == {"QUEUED", "RUNNING"}

Active   == {"QUEUED", "RUNNING", "RETRY_SCHEDULED"}
Terminal == {"DONE", "DEAD_LETTER", "CANCELLED", "MANUAL_REVIEW"}
Statuses == {"ABSENT"} \cup Active \cup Terminal

\* The cases of the retry policy: RETRY_AFTER is a RATE_LIMIT that says when to come
\* back, OTHER stands for every category without a rule.
Categories == {"INVALID_TEST_CODE", "WORKSPACE_MISMATCH", "NOT_FOUND",
               "AUTHENTICATION", "RETRY_AFTER", "OTHER"}

Running == {j \in Jobs : status[j] = "RUNNING"}

HoldingPcs == {"won", "running", "failing"}
Holds(r, j) == pc[r] \in HoldingPcs /\ held[r] = j
Holders(j)  == {r \in Runners : Holds(r, j)}

Idle     == [op |-> "idle", job |-> NoJob, kind |-> NoJob, scope |-> NoJob]
Requests == {Idle}
  \cup [op : {"create"}, job : {NoJob}, kind : Kinds, scope : {NoJob}]
  \cup [op : {"cancel", "requeue"}, job : Jobs, kind : {NoJob}, scope : {NoJob}]
  \cup [op : {"clearYear"}, job : {NoJob}, kind : {NoJob}, scope : Years]

\* Nothing read yet.
Blank == [paused |-> {}, from |-> "QUEUED", cands |-> {},
          load |-> [w \in Workspaces |-> 0]]
Views == [paused : SUBSET Scopes, from : {"QUEUED", "RETRY_SCHEDULED"},
          cands : SUBSET Jobs, load : [Workspaces -> Nat]]

TypeOK ==
  /\ status \in [Jobs -> Statuses]
  /\ kind \in [Jobs -> Kinds]
  /\ lockedBy \in [Jobs -> Workers \cup {NoWorker}]
  /\ attempts \in [Jobs -> Int]
  /\ due \in [Jobs -> BOOLEAN]
  /\ lapsed \in [Jobs -> BOOLEAN]
  /\ paused \in SUBSET Scopes
  /\ cached \in [Workers -> SUBSET Scopes]
  /\ breakerOpen \in SUBSET Workspaces
  /\ pc \in [Runners -> {"idle", "counted", "ready"} \cup HoldingPcs]
  /\ view \in [Runners -> Views]
  /\ held \in [Runners -> Jobs \cup {NoJob}]
  /\ snap \in [Runners -> Int]
  /\ revoked \in SUBSET Runners
  /\ request \in [Clients -> Requests]
  /\ crashes \in Nat

Init ==
  /\ status = [j \in Jobs |-> "ABSENT"]
  /\ kind \in [Jobs -> {CHOOSE k \in Kinds : TRUE}]
  /\ lockedBy = [j \in Jobs |-> NoWorker]
  /\ attempts = [j \in Jobs |-> 0]
  /\ due = [j \in Jobs |-> FALSE]
  /\ lapsed = [j \in Jobs |-> FALSE]
  /\ paused = {}
  /\ cached = [w \in Workers |-> {}]
  /\ breakerOpen = {}
  /\ pc = [r \in Runners |-> "idle"]
  /\ view = [r \in Runners |-> Blank]
  /\ held = [r \in Runners |-> NoJob]
  /\ snap = [r \in Runners |-> 0]
  /\ revoked = {}
  /\ request = [c \in Clients |-> Idle]
  /\ crashes = 0

-----------------------------------------------------------------------------
(* Enqueue: look for an active row with the same dedupe key, then insert.   *)

ActiveOf(k) == {j \in Jobs : status[j] \in Active /\ kind[j] = k}

EnqueueFind(c, k) ==
  /\ request[c] = Idle
  /\ ActiveOf(k) = {}
  /\ request' = [request EXCEPT ![c] = [Idle EXCEPT !.op = "create", !.kind = k]]
  /\ UNCHANGED <<rows, control, runner, crashes>>

EnqueueCreate(c, j) ==
  /\ request[c].op = "create"
  /\ status[j] = "ABSENT"
  /\ status' = [status EXCEPT ![j] = "QUEUED"]
  /\ kind' = [kind EXCEPT ![j] = request[c].kind]
  /\ due' = [due EXCEPT ![j] = TRUE]
  /\ request' = [request EXCEPT ![c] = Idle]
  /\ UNCHANGED <<lockedBy, attempts, lapsed, control, runner, crashes>>

-----------------------------------------------------------------------------
(* claimNext.  The first step stands for the count of running rows and the  *)
(* paused scopes, the second for the candidate query and the per-workspace  *)
(* counts; the rows may change before each of the steps that follow.        *)

\* The two-second cache of the paused scopes expires (or is invalidated by a
\* change made in this process) and is read again.
RefreshCache(w) ==
  /\ cached[w] # paused
  /\ cached' = [cached EXCEPT ![w] = paused]
  /\ UNCHANGED <<rows, paused, breakerOpen, runner, request, crashes>>

\* Mutant: off by one.
BelowOrAtGlobalMax == Cardinality(Running) <= GlobalMax

BelowGlobalMax == Cardinality(Running) < GlobalMax

ClaimCount(r) ==
  /\ pc[r] = "idle"
  /\ BelowGlobalMax
  /\ pc' = [pc EXCEPT ![r] = "counted"]
  /\ view' = [view EXCEPT ![r].paused = cached[WorkerOf[r]]]
  /\ UNCHANGED <<rows, control, held, snap, revoked, request, crashes>>

DueIn(s) == {j \in Jobs : status[j] = s /\ due[j]}

\* RETRY_SCHEDULED rows are looked at only when no QUEUED row is due.
Source == IF DueIn("QUEUED") # {} THEN "QUEUED" ELSE "RETRY_SCHEDULED"

\* Mutant: the year is looked at when jobs are scheduled only.
UnpausedButForYear(r, j) == (ScopesOf[kind[j]] \ Years) \cap view[r].paused = {}

Unpaused(r, j) == ScopesOf[kind[j]] \cap view[r].paused = {}

ClaimList(r) ==
  LET eligible == {j \in DueIn(Source) : Unpaused(r, j)}
  IN  /\ pc[r] = "counted"
      /\ IF eligible = {}
         THEN /\ pc' = [pc EXCEPT ![r] = "idle"]
              /\ view' = [view EXCEPT ![r] = Blank]
         ELSE /\ pc' = [pc EXCEPT ![r] = "ready"]
              /\ view' = [view EXCEPT ![r] =
                   [paused |-> {}, from |-> Source, cands |-> eligible,
                    load |-> [w \in Workspaces |->
                      Cardinality({j \in Running : WsOf[kind[j]] = w})]]]
      /\ UNCHANGED <<rows, control, held, snap, revoked, request, crashes>>

LoadOf(r, j) == view[r].load[WsOf[kind[j]]]

\* The next candidate: least loaded workspace first, ties in shuffled order.
NextCandidate(r, j) ==
  /\ pc[r] = "ready"
  /\ j \in view[r].cands
  /\ \A i \in view[r].cands : LoadOf(r, j) <= LoadOf(r, i)

\* Mutant: off by one.
BlockedAboveCap(r, j) == WsOf[kind[j]] \in breakerOpen \/ LoadOf(r, j) > WsCap

Blocked(r, j) ==
  \/ WsOf[kind[j]] \in breakerOpen
  \/ LoadOf(r, j) >= WsCap

\* Mutants: the update by id alone, and one that looks at the lock alone.
ClaimableById(r, j) == j \in view[r].cands
ClaimableUnlocked(r, j) == lockedBy[j] = NoWorker

Claimable(r, j) == status[j] = view[r].from /\ lockedBy[j] = NoWorker

\* The guarded update that takes the row: exactly one of the runners that
\* listed it finds it still unlocked and in the listed status.
ClaimWin(r, j) ==
  /\ NextCandidate(r, j)
  /\ ~ Blocked(r, j)
  /\ Claimable(r, j)
  /\ attempts[j] < MaxClaims
  /\ status' = [status EXCEPT ![j] = "RUNNING"]
  /\ lockedBy' = [lockedBy EXCEPT ![j] = WorkerOf[r]]
  /\ lapsed' = [lapsed EXCEPT ![j] = FALSE]
  /\ attempts' = [attempts EXCEPT ![j] = @ + 1]
  /\ pc' = [pc EXCEPT ![r] = "won"]
  /\ held' = [held EXCEPT ![r] = j]
  /\ revoked' = revoked \ {r}
  /\ view' = [view EXCEPT ![r] = Blank]
  /\ UNCHANGED <<kind, due, control, snap, request, crashes>>

\* A refused or lost candidate is dropped; after the last one the call is over.
ClaimSkip(r, j) ==
  /\ NextCandidate(r, j)
  /\ Blocked(r, j) \/ ~ Claimable(r, j)
  /\ IF view[r].cands = {j}
     THEN /\ pc' = [pc EXCEPT ![r] = "idle"]
          /\ view' = [view EXCEPT ![r] = Blank]
     ELSE /\ view' = [view EXCEPT ![r].cands = @ \ {j}]
          /\ UNCHANGED pc
  /\ UNCHANGED <<rows, control, held, snap, revoked, request, crashes>>

\* claimNext reads the row back: by now it may have been changed again.
ClaimReadBack(r) ==
  /\ pc[r] = "won"
  /\ pc' = [pc EXCEPT ![r] = "running"]
  /\ snap' = [snap EXCEPT ![r] = attempts[held[r]]]
  /\ UNCHANGED <<rows, control, view, held, revoked, request, crashes>>

-----------------------------------------------------------------------------
(* The end of an attempt.  None of the writes looks at the row's status or  *)
(* lock: a runner whose claim was ended meanwhile writes all the same.      *)

\* Every claim on j but r's own is over when r writes j's final status.
EndOthers(r, j) == (revoked \cup Holders(j)) \ {r}

GoIdle(r) ==
  /\ pc' = [pc EXCEPT ![r] = "idle"]
  /\ held' = [held EXCEPT ![r] = NoJob]
  /\ snap' = [snap EXCEPT ![r] = 0]

\* Mutant: the lock outlives the attempt.
ReleaseKeepingLock(j, s) ==
  /\ status' = [status EXCEPT ![j] = s]
  /\ due' = [due EXCEPT ![j] = FALSE]
  /\ lapsed' = [lapsed EXCEPT ![j] = FALSE]
  /\ UNCHANGED lockedBy

\* The row leaves RUNNING (or whatever it is) for status s; a retry lies ahead.
Release(j, s) ==
  /\ status' = [status EXCEPT ![j] = s]
  /\ due' = [due EXCEPT ![j] = FALSE]
  /\ lockedBy' = [lockedBy EXCEPT ![j] = NoWorker]
  /\ lapsed' = [lapsed EXCEPT ![j] = FALSE]

Complete(r) ==
  /\ pc[r] = "running"
  /\ Release(held[r], "DONE")
  /\ revoked' = EndOthers(r, held[r])
  /\ GoIdle(r)
  /\ UNCHANGED <<kind, attempts, control, view, request, crashes>>

\* The write commits, the acknowledgement does not arrive: the call throws and the
\* job is about to be failed as well (three such writes; see below for two of them).
AckLost(r) ==
  /\ "acklost" \in Faults
  /\ pc[r] = "running"
  /\ revoked' = revoked \cup Holders(held[r])
  /\ pc' = [pc EXCEPT ![r] = "failing"]
  /\ UNCHANGED <<kind, control, view, held, snap, request, crashes>>

CompleteAckLost(r) ==
  /\ AckLost(r)
  /\ Release(held[r], "DONE")
  /\ UNCHANGED attempts

\* The handler or the write throws with nothing written.
Throw(r) ==
  /\ "throw" \in Faults
  /\ pc[r] = "running"
  /\ pc' = [pc EXCEPT ![r] = "failing"]
  /\ UNCHANGED <<rows, control, view, held, snap, revoked, request, crashes>>

\* The read that follows the claim, or the last write of a failure, throws:
\* the runner goes on to its next job and leaves the row RUNNING.
Forget(r) ==
  /\ "throw" \in Faults
  /\ pc[r] \in {"won", "failing"}
  /\ GoIdle(r)
  /\ revoked' = revoked \ {r}
  /\ UNCHANGED <<rows, control, view, request, crashes>>

\* Mutant: one attempt too many.
DecisionOneMore(category, n) == IF n > MaxAttempts THEN "DEAD_LETTER" ELSE "RETRY_SCHEDULED"

\* decideRetry.
Decision(category, n) ==
  CASE category = "INVALID_TEST_CODE"  -> "DEAD_LETTER"
    [] category = "WORKSPACE_MISMATCH" -> "MANUAL_REVIEW"
    [] category = "NOT_FOUND" ->
         IF n >= (IF MaxAttempts < 2 THEN MaxAttempts ELSE 2)
         THEN "MANUAL_REVIEW" ELSE "RETRY_SCHEDULED"
    [] category = "AUTHENTICATION" ->
         IF n >= MaxAttempts THEN "MANUAL_REVIEW" ELSE "RETRY_SCHEDULED"
    [] OTHER ->
         IF n >= MaxAttempts THEN "DEAD_LETTER" ELSE "RETRY_SCHEDULED"

\* backoffMs has no entry for an attempt below 1: the retry date is invalid
\* and the update is refused, unless FastTest has named the delay.
NoBackoff(category, n) ==
  Decision(category, n) = "RETRY_SCHEDULED" /\ category # "RETRY_AFTER" /\ n + 1 < 1

\* Where failJob is called from decides the category: the handler's outcome,
\* or QUEUE (a category without a rule) once something has thrown.
FailCategories(r) ==
  IF pc[r] = "running" THEN Categories
  ELSE IF pc[r] = "failing" THEN {"OTHER"} ELSE {}

Fail(r, category) ==
  /\ category \in FailCategories(r)
  /\ ~ NoBackoff(category, snap[r])
  /\ Release(held[r], Decision(category, snap[r]))
  /\ revoked' = EndOthers(r, held[r])
  /\ GoIdle(r)
  /\ UNCHANGED <<kind, attempts, control, view, request, crashes>>

\* From the catch a lost acknowledgement is swallowed, which is Fail.
FailAckLost(r, category) ==
  /\ AckLost(r)
  /\ ~ NoBackoff(category, snap[r])
  /\ Release(held[r], Decision(category, snap[r]))
  /\ UNCHANGED attempts

\* The refused update throws: a first time into the catch, which fails the
\* job again, then into the catch of that call, which drops it.
FailRefused(r, category) ==
  /\ category \in FailCategories(r)
  /\ NoBackoff(category, snap[r])
  /\ IF pc[r] = "running"
     THEN /\ pc' = [pc EXCEPT ![r] = "failing"]
          /\ UNCHANGED <<held, snap, revoked>>
     ELSE /\ GoIdle(r)
          /\ revoked' = revoked \ {r}
  /\ UNCHANGED <<rows, control, view, request, crashes>>

\* The workspace rate slot was refused: back to the queue, attempt given back.
Reschedule(r) ==
  /\ pc[r] = "running"
  /\ Release(held[r], "RETRY_SCHEDULED")
  /\ attempts' = [attempts EXCEPT ![held[r]] = @ - 1]
  /\ revoked' = EndOthers(r, held[r])
  /\ GoIdle(r)
  /\ UNCHANGED <<kind, control, view, request, crashes>>

RescheduleAckLost(r) ==
  /\ AckLost(r)
  /\ Release(held[r], "RETRY_SCHEDULED")
  /\ attempts' = [attempts EXCEPT ![held[r]] = @ - 1]

-----------------------------------------------------------------------------
(* Heartbeats, crashes and the stalled-job sweep.                           *)

\* heartbeatJob matches the worker id, which the runners of a process share.
Heartbeat(r) ==
  /\ pc[r] \in {"running", "failing"}
  /\ lockedBy[held[r]] = WorkerOf[r]
  /\ lapsed[held[r]]
  /\ lapsed' = [lapsed EXCEPT ![held[r]] = FALSE]
  /\ UNCHANGED <<status, kind, lockedBy, attempts, due, control, runner, request, crashes>>

Beating(j) == \E r \in Runners : Holds(r, j) /\ WorkerOf[r] = lockedBy[j]

\* SYNC_STALLED_JOB_MS pass without a heartbeat: the runner is gone, or
\* ("stall") its process or its database connection hangs that long.
Lapse(j) ==
  /\ status[j] = "RUNNING"
  /\ ~ lapsed[j]
  /\ ~ Beating(j) \/ "stall" \in Faults
  /\ lapsed' = [lapsed EXCEPT ![j] = TRUE]
  /\ UNCHANGED <<status, kind, lockedBy, attempts, due, control, runner, request, crashes>>

\* A worker process dies with all its runners; the process that replaces it
\* starts idle.
Crash(w) ==
  LET lost == {r \in Runners : WorkerOf[r] = w}
  IN  /\ "crash" \in Faults
      /\ crashes < MaxCrashes
      /\ crashes' = crashes + 1
      /\ pc' = [r \in Runners |-> IF r \in lost THEN "idle" ELSE pc[r]]
      /\ view' = [r \in Runners |-> IF r \in lost THEN Blank ELSE view[r]]
      /\ held' = [r \in Runners |-> IF r \in lost THEN NoJob ELSE held[r]]
      /\ snap' = [r \in Runners |-> IF r \in lost THEN 0 ELSE snap[r]]
      /\ revoked' = revoked \ lost
      /\ cached' = [cached EXCEPT ![w] = paused]
      /\ UNCHANGED <<rows, paused, breakerOpen, request>>

\* Mutants: every running row is taken for stalled, or none that is locked.
StalledWhenRunning  == Running
StalledWhenUnlocked == {j \in Running : lapsed[j] /\ lockedBy[j] = NoWorker}

Stalled == {j \in Running : lapsed[j]}

RecoverStalled ==
  /\ Stalled # {}
  /\ status' = [j \in Jobs |-> IF j \in Stalled THEN "RETRY_SCHEDULED" ELSE status[j]]
  /\ lockedBy' = [j \in Jobs |-> IF j \in Stalled THEN NoWorker ELSE lockedBy[j]]
  /\ due' = [j \in Jobs |-> IF j \in Stalled THEN TRUE ELSE due[j]]
  /\ lapsed' = [j \in Jobs |-> FALSE]
  /\ revoked' = revoked \cup UNION {Holders(j) : j \in Stalled}
  /\ UNCHANGED <<kind, attempts, control, pc, view, held, snap, request, crashes>>

\* nextRetryAt is reached.
BecomeDue(j) ==
  /\ status[j] = "RETRY_SCHEDULED"
  /\ ~ due[j]
  /\ due' = [due EXCEPT ![j] = TRUE]
  /\ UNCHANGED <<status, kind, lockedBy, attempts, lapsed, control, runner, request, crashes>>

-----------------------------------------------------------------------------
(* Operators.                                                               *)

CancelRead(c, j) ==
  /\ "cancel" \in Operations
  /\ request[c] = Idle
  /\ status[j] \in Active
  /\ request' = [request EXCEPT ![c] = [Idle EXCEPT !.op = "cancel", !.job = j]]
  /\ UNCHANGED <<rows, control, runner, crashes>>

CancelWrite(c) ==
  LET j == request[c].job
  IN  /\ request[c].op = "cancel"
      /\ Release(j, "CANCELLED")
      /\ revoked' = revoked \cup Holders(j)
      /\ request' = [request EXCEPT ![c] = Idle]
      /\ UNCHANGED <<kind, attempts, control, pc, view, held, snap, crashes>>

\* The rows of S go back to the queue as if new.
BackToQueue(S) ==
  /\ status' = [j \in Jobs |-> IF j \in S THEN "QUEUED" ELSE status[j]]
  /\ lockedBy' = [j \in Jobs |-> IF j \in S THEN NoWorker ELSE lockedBy[j]]
  /\ attempts' = [j \in Jobs |-> IF j \in S THEN 0 ELSE attempts[j]]
  /\ due' = [j \in Jobs |-> IF j \in S THEN TRUE ELSE due[j]]
  /\ lapsed' = [j \in Jobs |-> IF j \in S THEN FALSE ELSE lapsed[j]]
  /\ revoked' = revoked \cup UNION {Holders(j) : j \in S}
  /\ UNCHANGED <<kind, control, pc, view, held, snap, crashes>>

\* retryJob takes a row in any status, a running one included.
Retry(j) ==
  /\ "retry" \in Operations
  /\ status[j] # "ABSENT"
  /\ BackToQueue({j})
  /\ UNCHANGED request

RequeueRead(c, j) ==
  /\ "requeue" \in Operations
  /\ request[c] = Idle
  /\ status[j] = "DEAD_LETTER"
  /\ request' = [request EXCEPT ![c] = [Idle EXCEPT !.op = "requeue", !.job = j]]
  /\ UNCHANGED <<rows, control, runner, crashes>>

RequeueWrite(c) ==
  /\ request[c].op = "requeue"
  /\ BackToQueue({request[c].job})
  /\ request' = [request EXCEPT ![c] = Idle]

\* One guarded update over the dead letters, of one workspace or of all.
RetryFailed(W) ==
  LET dead == {j \in Jobs : status[j] = "DEAD_LETTER" /\ WsOf[kind[j]] \in W}
  IN  /\ "retryFailed" \in Operations
      /\ dead # {}
      /\ BackToQueue(dead)
      /\ UNCHANGED request

SetPaused(s, on) ==
  /\ "pause" \in Operations
  /\ paused' = IF on THEN paused \cup {s} ELSE paused \ {s}
  /\ paused' # paused
  /\ UNCHANGED <<rows, cached, breakerOpen, runner, request, crashes>>

\* Switching a year off writes the control row first...
PauseYear(c, y) ==
  /\ "pauseYear" \in Operations
  /\ request[c] = Idle
  /\ paused' = paused \cup {y}
  /\ request' = [request EXCEPT ![c] = [Idle EXCEPT !.op = "clearYear", !.scope = y]]
  /\ UNCHANGED <<rows, cached, breakerOpen, runner, crashes>>

\* ... and then cancels what waits under that year.
ClearYear(c) ==
  LET waiting == {j \in Jobs : /\ status[j] \in {"QUEUED", "RETRY_SCHEDULED"}
                               /\ request[c].scope \in ScopesOf[kind[j]]}
  IN  /\ request[c].op = "clearYear"
      /\ status' = [j \in Jobs |-> IF j \in waiting THEN "CANCELLED" ELSE status[j]]
      /\ lockedBy' = [j \in Jobs |-> IF j \in waiting THEN NoWorker ELSE lockedBy[j]]
      /\ due' = [j \in Jobs |-> due[j] /\ j \notin waiting]
      /\ request' = [request EXCEPT ![c] = Idle]
      /\ UNCHANGED <<kind, attempts, lapsed, control, runner, crashes>>

\* The circuit breaker of a workspace opens or lets calls through again
\* (module CircuitBreaker says when).
BreakerFlips(w) ==
  /\ "breaker" \in Faults
  /\ breakerOpen' = IF w \in breakerOpen THEN breakerOpen \ {w} ELSE breakerOpen \cup {w}
  /\ UNCHANGED <<rows, paused, cached, runner, request, crashes>>

-----------------------------------------------------------------------------

Finish(r) ==
  \/ Complete(r)
  \/ CompleteAckLost(r)
  \/ Throw(r)
  \/ Forget(r)
  \/ \E category \in Categories :
       Fail(r, category) \/ FailAckLost(r, category) \/ FailRefused(r, category)
  \/ Reschedule(r) \/ RescheduleAckLost(r)

Claim(r) ==
  \/ ClaimCount(r)
  \/ ClaimList(r)
  \/ \E j \in Jobs : ClaimWin(r, j) \/ ClaimSkip(r, j)
  \/ ClaimReadBack(r)

RunnerStep(r) == Claim(r) \/ Finish(r) \/ Heartbeat(r)

ClientStep(c) ==
  \/ \E k \in Kinds : EnqueueFind(c, k)
  \/ \E j \in Jobs : EnqueueCreate(c, j) \/ CancelRead(c, j) \/ RequeueRead(c, j)
  \/ CancelWrite(c)
  \/ RequeueWrite(c)
  \/ \E y \in Years : PauseYear(c, y)
  \/ ClearYear(c)

OperatorStep ==
  \/ \E j \in Jobs : Retry(j)
  \/ \E W \in {Workspaces} \cup {{w} : w \in Workspaces} : RetryFailed(W)
  \/ \E s \in Scopes, on \in BOOLEAN : SetPaused(s, on)

EnvironmentStep ==
  \/ \E j \in Jobs : Lapse(j) \/ BecomeDue(j)
  \/ \E w \in Workers : Crash(w) \/ RefreshCache(w)
  \/ \E w \in Workspaces : BreakerFlips(w)

Next ==
  \/ \E r \in Runners : RunnerStep(r)
  \/ \E c \in Clients : ClientStep(c)
  \/ RecoverStalled
  \/ OperatorStep
  \/ EnvironmentStep

Spec == Init /\ [][Next]_vars

\* What the code keeps doing: runner loops poll without end, every handler call
\* is bounded by the HTTP timeout, ticks run the sweep and finish their inserts.
\* Strong fairness of the claim is the shuffle of the candidates: a job that is
\* listed again and again is at some time drawn first.
Fairness ==
  /\ \A r \in Runners : WF_vars(Claim(r)) /\ WF_vars(Finish(r))
  /\ \A j \in Jobs : /\ SF_vars(\E r \in Runners : ClaimWin(r, j))
                     /\ WF_vars(Lapse(j))
                     /\ WF_vars(BecomeDue(j))
  /\ \A c \in Clients : /\ WF_vars(\E j \in Jobs : EnqueueCreate(c, j))
                        /\ WF_vars(CancelWrite(c) \/ RequeueWrite(c) \/ ClearYear(c))
  /\ \A w \in Workers : WF_vars(RefreshCache(w))
  /\ WF_vars(RecoverStalled)

FairSpec == Spec /\ Fairness

\* Retention deletes settled rows when they are old, long after the last request, claim
\* or runner that knew them.  Next leaves it out (a row that is deleted changes nothing
\* for the others); here it makes room for new rows, so that their supply has no end.
Prune(j) ==
  /\ status[j] \in Terminal
  /\ Holders(j) = {}
  /\ \A r \in Runners : j \notin view[r].cands
  /\ \A c \in Clients : request[c].job # j
  /\ status' = [status EXCEPT ![j] = "ABSENT"]
  /\ attempts' = [attempts EXCEPT ![j] = 0]
  /\ UNCHANGED <<kind, lockedBy, due, lapsed, control, runner, request, crashes>>

SupplyNext == Next \/ \E j \in Jobs : Prune(j)

SupplySpec == Init /\ [][SupplyNext]_vars /\ Fairness

-----------------------------------------------------------------------------
(* Safety.                                                                  *)

\* A row carries a lock exactly while it is RUNNING, whoever ended its attempt:
\* the claim wants lockedBy to be null, so one lock left behind would make the
\* row unclaimable for ever, and one cleared early would let two runners in.
LockMatchesRunning ==
  \A j \in Jobs : status[j] = "RUNNING" <=> lockedBy[j] # NoWorker

\* A runner whose claim nobody has ended (by the sweep, a cancellation, a retry
\* or the write of a runner that had lost the job) holds a RUNNING row locked by
\* its process, and is the only such runner of that row.
UnrevokedClaimOwnsJob ==
  \A r \in Runners, j \in Jobs :
    Holds(r, j) /\ r \notin revoked =>
      /\ status[j] = "RUNNING"
      /\ lockedBy[j] = WorkerOf[r]
      /\ \A q \in Holders(j) : q \in revoked \/ q = r

\* "Exactly one worker can transition a given job to RUNNING, so no job is
\* processed twice": no two runners are inside the handler for one row.  It holds
\* while heartbeats arrive and no operator or lost acknowledgement touches the row.
NoJobProcessedTwice ==
  \A r, q \in Runners, j \in Jobs : Holds(r, j) /\ Holds(q, j) => r = q

\* The ceiling is read before the claim, so it can be passed, but only by the
\* runners that had read it too: those still on their way to a claim count as if
\* they had it.
RunningBounded ==
  Cardinality(Running) + Cardinality({r \in Runners : pc[r] \in {"counted", "ready"}})
    <= GlobalMax + Cardinality(Runners) - 1

\* The same for the concurrency of one workspace.
RunningOf(w) == {j \in Running : WsOf[kind[j]] = w}

WorkspaceLoadBounded ==
  \A w \in Workspaces : Cardinality(RunningOf(w)) <= WsCap + Cardinality(Runners) - 1

\* A job is attempted at most MaxAttempts times, and once more for every crash
\* (the sweep does not look at maxAttempts); giving an attempt back never takes
\* the count below zero.
RetryBudget == \A j \in Jobs : attempts[j] \in 0 .. MaxAttempts + crashes

\* The rows of a dedupe key that are queued, running or waiting for their retry.
LiveRows(k) ==
  {j \in Jobs : status[j] \in {"QUEUED", "RUNNING", "RETRY_SCHEDULED"} /\ kind[j] = k}

\* "Duplicate enqueues collapse to a single job": each key has one live row.  This
\* is what enqueue is documented to do; two requests that overlap break it.
NoDuplicateActive == \A k \in Kinds : Cardinality(LiveRows(k)) <= 1

\* What it does do: a key never has more live rows than there are requests that may
\* overlap, however often they come and whatever claims, retries and sweeps do to
\* the rows: duplicates do not breed.  (Where no operator retries a settled job.)
DuplicatesBounded == \A k \in Kinds : Cardinality(LiveRows(k)) <= Cardinality(Clients)

\* "Terminal statuses are never re-processed", where no operator requeues.
TerminalIsFinal ==
  [][\A j \in Jobs : status[j] \in Terminal => status'[j] = status[j]]_vars

-----------------------------------------------------------------------------
(* Liveness, under FairSpec.                                                *)

\* No row stays RUNNING for ever, not even one whose process died: the sweep
\* finds it.
RunningEnds == \A j \in Jobs : status[j] = "RUNNING" ~> status[j] # "RUNNING"

\* A claim has found no QUEUED row due and is at the retries.
RetriesListed == \E r \in Runners : pc[r] = "ready" /\ view[r].from = "RETRY_SCHEDULED"

\* Where what is paused is resumed, every QUEUED row is claimed in the end (switching
\* its year off cancels it), through lost races and crashes and however many rows
\* come after it.  A row that waits for its retry is promised that only if claims
\* find the queue without due QUEUED rows again and again: a steady supply of fresh
\* rows may keep it waiting for ever.
WaitingRuns ==
  <>[](paused = {}) =>
    \A j \in Jobs :
      /\ status[j] = "QUEUED" ~> status[j] \in {"RUNNING", "CANCELLED"}
      /\ []<>RetriesListed =>
           (status[j] = "RETRY_SCHEDULED" ~> status[j] \in {"RUNNING", "CANCELLED"})

\* A pause takes hold: once a scope stays paused, its work ends and none of it
\* is claimed again, in spite of stale caches and of claims already under way.
PauseDrains ==
  \A s \in Scopes :
    <>[](s \in paused) => <>[](\A j \in Running : s \notin ScopesOf[kind[j]])

\* "RETRY_SCHEDULED: awaiting retry; claimable once nextRetryAt <= now": where
\* nothing of the row is paused, it is claimed in the end.
DueRetryRuns ==
  \A j \in Jobs :
    (status[j] = "RETRY_SCHEDULED" /\ due[j] /\ ScopesOf[kind[j]] \cap paused = {})
      ~> (status[j] # "RETRY_SCHEDULED" \/ ScopesOf[kind[j]] \cap paused # {})

-----------------------------------------------------------------------------
(* What the queue promises (JobLifecycle).  The owner of a job is the runner *)
(* that holds it and whose claim nobody has ended.                           *)

Phase(s) ==
  CASE s = "ABSENT"                          -> "absent"
    [] s \in {"QUEUED", "RETRY_SCHEDULED"}  -> "waiting"
    [] s = "RUNNING"                         -> "working"
    [] s \in Terminal                       -> "settled"

Owners(j) == Holders(j) \ revoked

PhaseBar == [j \in Jobs |-> Phase(status[j])]
OwnerBar == [j \in Jobs |-> IF Owners(j) = {} THEN NoWorker ELSE CHOOSE r \in Owners(j) : TRUE]

Lifecycle == INSTANCE JobLifecycle WITH
  Nobody <- NoWorker,
  LiveTogether <- {S \in SUBSET Jobs : Cardinality(S) <= Cardinality(Clients)},
  phase <- PhaseBar, key <- kind, owner <- OwnerBar

\* Every step of the queue is a step of that lifecycle: one runner per job, no
\* way back from a settled job, no take-over from a live owner, no more live jobs
\* of a key than requests that may overlap.
ImplementsLifecycle == Lifecycle!Spec

=============================================================================

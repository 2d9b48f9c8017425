--------------------------- MODULE JobQueueProofs ---------------------------
(* Theorems about JobQueue, for every set of rows, runners and requests.    *)
EXTENDS JobQueue, FiniteSetTheorems, TLAPS

\* A runner that holds anything holds a row.
HoldersHoldJobs == \A r \in Runners : pc[r] \in HoldingPcs => held[r] \in Jobs

Typed == TypeOK /\ HoldersHoldJobs

-----------------------------------------------------------------------------
(* Type correctness.                                                        *)

\* What the requests in flight carry.
LEMMA RequestFields ==
  ASSUME TypeOK, NEW c \in Clients
  PROVE  /\ request[c].op = "create" => request[c].kind \in Kinds
         /\ request[c].op \in {"cancel", "requeue"} => request[c].job \in Jobs
         /\ request[c].op = "clearYear" => request[c].scope \in Years
BY DEF TypeOK, Requests, Idle

\* The load a claim reads is a table of numbers.
LEMMA LoadIsNat ==
  ASSUME NEW w \in Workspaces
  PROVE  Cardinality({j \in Running : WsOf[kind[j]] = w}) \in Nat
<1>1. {j \in Running : WsOf[kind[j]] = w} \subseteq Jobs
  BY DEF Running
<1>2. IsFiniteSet({j \in Running : WsOf[kind[j]] = w})
  BY <1>1, FS_Subset, ConstantsAssumption
<1> QED
  BY <1>2, FS_CardinalityType

LEMMA BlankIsView == Blank \in Views
BY DEF Blank, Views

LEMMA InitTyped == Init => Typed
<1> SUFFICES ASSUME Init PROVE Typed
  OBVIOUS
<1>1. kind \in [Jobs -> Kinds]
  BY ConstantsAssumption DEF Init
<1> QED
  BY <1>1, BlankIsView DEF Init, Typed, TypeOK, HoldersHoldJobs, HoldingPcs, Statuses, Requests, Idle

LEMMA DecisionStatus ==
  ASSUME NEW category, NEW n
  PROVE  Decision(category, n) \in Statuses \ {"RUNNING", "QUEUED", "ABSENT"}
BY DEF Decision, Statuses, Active, Terminal

LEMMA HoldersOfRows ==
  ASSUME NEW S
  PROVE  UNION {Holders(j) : j \in S} \subseteq Runners
BY DEF Holders

LEMMA BackToQueueTyped ==
  ASSUME Typed, NEW S, BackToQueue(S), request' \in [Clients -> Requests]
  PROVE  Typed'
<1>1. revoked' \in SUBSET Runners
  BY HoldersOfRows DEF BackToQueue, Typed, TypeOK
<1>2. status' \in [Jobs -> Statuses]
  BY DEF BackToQueue, Typed, TypeOK, Statuses, Active
<1>3. attempts' \in [Jobs -> Int]
  BY DEF BackToQueue, Typed, TypeOK
<1>4. /\ lockedBy' \in [Jobs -> Workers \cup {NoWorker}]
      /\ due' \in [Jobs -> BOOLEAN]
      /\ lapsed' \in [Jobs -> BOOLEAN]
  BY DEF BackToQueue, Typed, TypeOK
<1>5. UNCHANGED <<kind, paused, cached, breakerOpen, pc, view, held, snap, crashes>>
  BY DEF BackToQueue, control
<1> QED
  BY <1>1, <1>2, <1>3, <1>4, <1>5 DEF Typed, TypeOK, HoldersHoldJobs

LEMMA NextTyped == Typed /\ [Next]_vars => Typed'
<1> SUFFICES ASSUME Typed, [Next]_vars PROVE Typed'
  OBVIOUS
<1> USE DEF Typed, TypeOK, HoldersHoldJobs, HoldingPcs, rows, control, runner
<1>1. ASSUME NEW c \in Clients, NEW k \in Kinds, EnqueueFind(c, k) PROVE Typed'
  BY <1>1 DEF EnqueueFind, Requests, Idle
<1>2. ASSUME NEW c \in Clients, NEW j \in Jobs, EnqueueCreate(c, j) PROVE Typed'
  BY <1>2, RequestFields DEF EnqueueCreate, Requests, Idle, Statuses, Active
<1>3. ASSUME NEW r \in Runners, ClaimCount(r) PROVE Typed'
  <2>1. view' \in [Runners -> Views]
    <3>1. [view[r] EXCEPT !.paused = cached[WorkerOf[r]]] \in Views
      <4>1. view[r] \in Views /\ cached[WorkerOf[r]] \in SUBSET Scopes
        BY ConstantsAssumption
      <4> QED
        BY <4>1 DEF Views
    <3> QED
      BY <1>3, <3>1 DEF ClaimCount
  <2> QED
    BY <1>3, <2>1 DEF ClaimCount
<1>4. ASSUME NEW r \in Runners, ClaimList(r) PROVE Typed'
  <2>1. [paused |-> {}, from |-> Source, cands |-> {k \in DueIn(Source) : Unpaused(r, k)},
          load |-> [w \in Workspaces |-> Cardinality({k \in Running : WsOf[kind[k]] = w})]] \in Views
    BY LoadIsNat DEF Views, Source, DueIn
  <2> QED
    BY <1>4, <2>1, BlankIsView DEF ClaimList
<1>5. ASSUME NEW r \in Runners, NEW j \in Jobs, ClaimWin(r, j) PROVE Typed'
  <2>1. status' \in [Jobs -> Statuses]
    BY <1>5 DEF ClaimWin, Statuses, Active
  <2>2. lockedBy' \in [Jobs -> Workers \cup {NoWorker}]
    BY <1>5, ConstantsAssumption DEF ClaimWin
  <2>3. attempts' \in [Jobs -> Int]
    BY <1>5 DEF ClaimWin
  <2> QED
    BY <1>5, <2>1, <2>2, <2>3, BlankIsView DEF ClaimWin
<1>6. ASSUME NEW r \in Runners, NEW j \in Jobs, ClaimSkip(r, j) PROVE Typed'
  <2>1. view' \in [Runners -> Views]
    <3>1. [view[r] EXCEPT !.cands = @ \ {j}] \in Views
      BY DEF Views
    <3> QED
      BY <1>6, <3>1, BlankIsView DEF ClaimSkip
  <2> QED
    BY <1>6, <2>1 DEF ClaimSkip
<1>7. ASSUME NEW r \in Runners, ClaimReadBack(r) PROVE Typed'
  BY <1>7 DEF ClaimReadBack
<1>8. ASSUME NEW r \in Runners, Complete(r) PROVE Typed'
  BY <1>8 DEF Complete, Release, GoIdle, EndOthers, Holders, Holds, Statuses, Terminal
<1>9. ASSUME NEW r \in Runners, CompleteAckLost(r) PROVE Typed'
  BY <1>9 DEF CompleteAckLost, AckLost, Release, Holders, Holds, Statuses, Terminal
<1>32. ASSUME NEW r \in Runners, NEW category \in Categories, FailAckLost(r, category) PROVE Typed'
  BY <1>32, DecisionStatus DEF FailAckLost, AckLost, Release, Holders, Holds
<1>33. ASSUME NEW r \in Runners, RescheduleAckLost(r) PROVE Typed'
  BY <1>33 DEF RescheduleAckLost, AckLost, Release, Holders, Holds, Statuses, Active
<1>10. ASSUME NEW r \in Runners, Throw(r) PROVE Typed'
  BY <1>10 DEF Throw
<1>11. ASSUME NEW r \in Runners, Forget(r) PROVE Typed'
  BY <1>11 DEF Forget, GoIdle
<1>12. ASSUME NEW r \in Runners, NEW category \in Categories, Fail(r, category) PROVE Typed'
  <2>1. status' \in [Jobs -> Statuses]
    BY <1>12, DecisionStatus DEF Fail, Release
  <2>2. revoked' \in SUBSET Runners
    BY <1>12 DEF Fail, EndOthers, Holders
  <2> QED
    BY <1>12, <2>1, <2>2 DEF Fail, Release, GoIdle
<1>13. ASSUME NEW r \in Runners, NEW category \in Categories, FailRefused(r, category) PROVE Typed'
  BY <1>13 DEF FailRefused, GoIdle, FailCategories
<1>14. ASSUME NEW r \in Runners, Reschedule(r) PROVE Typed'
  BY <1>14 DEF Reschedule, Release, GoIdle, EndOthers, Holders, Holds, Statuses, Active
<1>15. ASSUME NEW r \in Runners, Heartbeat(r) PROVE Typed'
  BY <1>15 DEF Heartbeat
<1>16. ASSUME NEW j \in Jobs, Lapse(j) PROVE Typed'
  BY <1>16 DEF Lapse
<1>17. ASSUME NEW w \in Workers, Crash(w) PROVE Typed'
  BY <1>17, BlankIsView DEF Crash
<1>18. ASSUME NEW w \in Workers, RefreshCache(w) PROVE Typed'
  BY <1>18 DEF RefreshCache
<1>19. ASSUME RecoverStalled PROVE Typed'
  <2>1. revoked' \in SUBSET Runners
    BY <1>19, HoldersOfRows DEF RecoverStalled
  <2> QED
    BY <1>19, <2>1 DEF RecoverStalled, Statuses, Active
<1>20. ASSUME NEW j \in Jobs, BecomeDue(j) PROVE Typed'
  BY <1>20 DEF BecomeDue
<1>21. ASSUME NEW c \in Clients, NEW j \in Jobs, CancelRead(c, j) PROVE Typed'
  BY <1>21 DEF CancelRead, Requests, Idle
<1>22. ASSUME NEW c \in Clients, CancelWrite(c) PROVE Typed'
  BY <1>22, RequestFields DEF CancelWrite, Release, Holders, Requests, Idle, Statuses, Terminal
<1>23. ASSUME NEW j \in Jobs, Retry(j) PROVE Typed'
  BY <1>23, BackToQueueTyped DEF Retry
<1>24. ASSUME NEW c \in Clients, NEW j \in Jobs, RequeueRead(c, j) PROVE Typed'
  BY <1>24 DEF RequeueRead, Requests, Idle
<1>25. ASSUME NEW c \in Clients, RequeueWrite(c) PROVE Typed'
  BY <1>25, BackToQueueTyped DEF RequeueWrite, Requests, Idle
<1>26. ASSUME NEW W \in SUBSET Workspaces, RetryFailed(W) PROVE Typed'
  BY <1>26, BackToQueueTyped DEF RetryFailed
<1>27. ASSUME NEW s \in Scopes, NEW on \in BOOLEAN, SetPaused(s, on) PROVE Typed'
  BY <1>27 DEF SetPaused
<1>28. ASSUME NEW c \in Clients, NEW y \in Years, PauseYear(c, y) PROVE Typed'
  BY <1>28, ConstantsAssumption DEF PauseYear, Requests, Idle
<1>29. ASSUME NEW c \in Clients, ClearYear(c) PROVE Typed'
  BY <1>29 DEF ClearYear, Statuses, Terminal, Requests, Idle
<1>30. ASSUME NEW w \in Workspaces, BreakerFlips(w) PROVE Typed'
  BY <1>30 DEF BreakerFlips
<1>31. CASE UNCHANGED vars
  BY <1>31 DEF vars
<1> HIDE DEF Typed, TypeOK, HoldersHoldJobs, HoldingPcs, rows, control, runner
<1> QED
  BY <1>1, <1>2, <1>3, <1>4, <1>5, <1>6, <1>7, <1>8, <1>9, <1>10, <1>11, <1>12, <1>13, <1>14, <1>15, <1>16, <1>17, <1>18, <1>19, <1>20, <1>21, <1>22, <1>23, <1>24, <1>25, <1>26, <1>27, <1>28, <1>29, <1>30, <1>31, <1>32, <1>33
     DEF Next, RunnerStep, Claim, Finish, ClientStep, OperatorStep, EnvironmentStep

LEMMA TypedAlways == Spec => []Typed
<1> QED
  BY InitTyped, NextTyped, PTL DEF Spec

\* Every variable has its type in every reachable state: in particular a request
\* under way names a row, a kind or a year that exists, and the status a failure
\* writes is one the queue knows (enum JOB_STATUS).
THEOREM TypeCorrect == Spec => []TypeOK
<1>1. Typed => TypeOK
  BY DEF Typed
<1> QED
  BY <1>1, TypedAlways, PTL

-----------------------------------------------------------------------------
(* Ownership: the lock and the status go together, and a claim that nobody   *)
(* has ended owns its row.                                                   *)

\* A claim in force.
Claimed(r, j) == Holds(r, j) /\ r \notin revoked

Ownership == Typed /\ LockMatchesRunning /\ UnrevokedClaimOwnsJob

LEMMA OwnershipByClaims ==
  ASSUME Typed
  PROVE  UnrevokedClaimOwnsJob <=>
           \A r \in Runners, j \in Jobs : Claimed(r, j) =>
             /\ status[j] = "RUNNING"
             /\ lockedBy[j] = WorkerOf[r]
             /\ \A q \in Runners : Claimed(q, j) => q = r
BY DEF UnrevokedClaimOwnsJob, Claimed, Holders

LEMMA InitOwnership == Init => Ownership
<1> SUFFICES ASSUME Init PROVE Ownership
  OBVIOUS
<1>1. Typed
  BY InitTyped
<1>2. LockMatchesRunning
  BY DEF Init, LockMatchesRunning
<1>3. UnrevokedClaimOwnsJob
  BY DEF Init, UnrevokedClaimOwnsJob, Holds, HoldingPcs
<1> QED
  BY <1>1, <1>2, <1>3 DEF Ownership

\* A step that takes the rows S out of RUNNING, with their locks and the claims on
\* them, and makes no claim keeps both invariants.
LEMMA EndingClaims ==
  ASSUME Ownership, Typed', NEW S,
         \A j \in Jobs \ S : status'[j] = status[j] /\ lockedBy'[j] = lockedBy[j],
         \A j \in Jobs \cap S : status'[j] # "RUNNING" /\ lockedBy'[j] = NoWorker,
         \A r \in Runners, j \in Jobs : Claimed(r, j)' => Claimed(r, j) /\ j \notin S
  PROVE  Ownership'
<1>1. LockMatchesRunning'
  BY DEF Ownership, LockMatchesRunning
<1>2. \A r \in Runners, j \in Jobs : Claimed(r, j)' =>
             /\ status'[j] = "RUNNING"
             /\ lockedBy'[j] = WorkerOf[r]
             /\ \A q \in Runners : Claimed(q, j)' => q = r
  BY OwnershipByClaims DEF Ownership
<1>3. UnrevokedClaimOwnsJob'
  BY <1>2 DEF UnrevokedClaimOwnsJob, Claimed, Holders
<1> QED
  BY <1>1, <1>3 DEF Ownership

\* The claim itself: the guarded update finds the row unlocked, so no claim on it
\* is in force.
LEMMA ClaimWinOwnership ==
  ASSUME Ownership, Typed', NEW r \in Runners, NEW j \in Jobs, ClaimWin(r, j)
  PROVE  Ownership'
<1>a. WorkerOf[r] \in Workers
  BY ConstantsAssumption
<1>1. lockedBy[j] = NoWorker /\ WorkerOf[r] # NoWorker
  BY <1>a, ConstantsAssumption DEF ClaimWin, Claimable
<1> USE DEF Ownership, Typed, TypeOK, Claimed, Holds, HoldingPcs
<1>2. LockMatchesRunning'
  BY <1>1 DEF ClaimWin, LockMatchesRunning
<1>3. \A q \in Runners : ~ Claimed(q, j)
  BY <1>1, ConstantsAssumption, OwnershipByClaims
<1>4. ASSUME NEW q \in Runners, NEW i \in Jobs
      PROVE  Claimed(q, i)' <=> (Claimed(q, i) /\ q # r) \/ (q = r /\ i = j)
  BY <1>3 DEF ClaimWin, NextCandidate
<1>5. \A q \in Runners, i \in Jobs : Claimed(q, i)' =>
        /\ status'[i] = "RUNNING"
        /\ lockedBy'[i] = WorkerOf[q]
        /\ \A p \in Runners : Claimed(p, i)' => p = q
  BY <1>3, <1>4, OwnershipByClaims DEF ClaimWin
<1>6. UnrevokedClaimOwnsJob'
  BY <1>5 DEF UnrevokedClaimOwnsJob, Holders
<1> QED
  BY <1>2, <1>6

LEMMA NextOwnership == Ownership /\ [Next]_vars => Ownership'
<1> SUFFICES ASSUME Ownership, [Next]_vars PROVE Ownership'
  OBVIOUS
<1> DEFINE Quiet == /\ UNCHANGED <<status, lockedBy>>
                    /\ \A r \in Runners, j \in Jobs : Claimed(r, j)' => Claimed(r, j)
           Ends(S) == /\ \A j \in Jobs \ S : status'[j] = status[j] /\ lockedBy'[j] = lockedBy[j]
                      /\ \A j \in Jobs \cap S : status'[j] # "RUNNING" /\ lockedBy'[j] = NoWorker
                      /\ \A r \in Runners, j \in Jobs : Claimed(r, j)' => Claimed(r, j) /\ j \notin S
<1>a. Typed /\ Typed'
  BY NextTyped DEF Ownership
<1>b. Quiet => Ends({})
  OBVIOUS
<1>c. ASSUME NEW S, Ends(S) PROVE Ownership'
  BY <1>a, <1>c, EndingClaims
<1> USE <1>a DEF Typed, TypeOK, HoldersHoldJobs, HoldingPcs, Claimed, Holds, rows, control, runner
<1>1. ASSUME NEW c \in Clients, NEW k \in Kinds, EnqueueFind(c, k) PROVE Quiet
  BY <1>1 DEF EnqueueFind
<1>2. ASSUME NEW c \in Clients, NEW j \in Jobs, EnqueueCreate(c, j) PROVE Ownership'
  <2>1. lockedBy[j] = NoWorker
    BY <1>2 DEF EnqueueCreate, Ownership, LockMatchesRunning
  <2>2. \A q \in Runners : ~ Claimed(q, j)
    BY <1>2, OwnershipByClaims DEF EnqueueCreate, Ownership
  <2>3. \A k \in Jobs \ {j} : status'[k] = status[k] /\ lockedBy'[k] = lockedBy[k]
    BY <1>2 DEF EnqueueCreate
  <2>4. \A k \in Jobs \cap {j} : status'[k] # "RUNNING" /\ lockedBy'[k] = NoWorker
    BY <1>2, <2>1 DEF EnqueueCreate
  <2>5. \A q \in Runners, k \in Jobs : Claimed(q, k)' => Claimed(q, k) /\ k \notin {j}
    BY <1>2, <2>2 DEF EnqueueCreate
  <2> QED
    BY <2>3, <2>4, <2>5, <1>c
<1>3. ASSUME NEW r \in Runners, ClaimCount(r) PROVE Quiet
  BY <1>3 DEF ClaimCount
<1>4. ASSUME NEW r \in Runners, ClaimList(r) PROVE Quiet
  BY <1>4 DEF ClaimList
<1>5. ASSUME NEW r \in Runners, NEW j \in Jobs, ClaimWin(r, j) PROVE Ownership'
  BY <1>5, <1>a, ClaimWinOwnership
<1>6. ASSUME NEW r \in Runners, NEW j \in Jobs, ClaimSkip(r, j) PROVE Quiet
  BY <1>6 DEF ClaimSkip
<1>7. ASSUME NEW r \in Runners, ClaimReadBack(r) PROVE Quiet
  BY <1>7 DEF ClaimReadBack
<1>8. ASSUME NEW r \in Runners, Complete(r) PROVE Ownership'
  <2> DEFINE S == {held[r]}
  <2>1. \A k \in Jobs \ S : status'[k] = status[k] /\ lockedBy'[k] = lockedBy[k]
    BY <1>8 DEF Complete, Release, GoIdle, EndOthers, Holders
  <2>2. \A k \in Jobs \cap S : status'[k] # "RUNNING" /\ lockedBy'[k] = NoWorker
    BY <1>8 DEF Complete, Release, GoIdle, EndOthers, Holders
  <2>3. \A q \in Runners, k \in Jobs : Claimed(q, k)' => Claimed(q, k) /\ k \notin S
    BY <1>8 DEF Complete, Release, GoIdle, EndOthers, Holders
  <2> QED
    BY <2>1, <2>2, <2>3, <1>c
<1>9. ASSUME NEW r \in Runners, CompleteAckLost(r) PROVE Ownership'
  <2> DEFINE S == {held[r]}
  <2>1. \A k \in Jobs \ S : status'[k] = status[k] /\ lockedBy'[k] = lockedBy[k]
    BY <1>9 DEF CompleteAckLost, AckLost, Release, Holders
  <2>2. \A k \in Jobs \cap S : status'[k] # "RUNNING" /\ lockedBy'[k] = NoWorker
    BY <1>9 DEF CompleteAckLost, AckLost, Release, Holders
  <2>3. \A q \in Runners, k \in Jobs : Claimed(q, k)' => Claimed(q, k) /\ k \notin S
    BY <1>9 DEF CompleteAckLost, AckLost, Release, Holders
  <2> QED
    BY <2>1, <2>2, <2>3, <1>c
<1>32. ASSUME NEW r \in Runners, NEW category \in Categories, FailAckLost(r, category) PROVE Ownership'
  <2> DEFINE S == {held[r]}
  <2>1. \A k \in Jobs \ S : status'[k] = status[k] /\ lockedBy'[k] = lockedBy[k]
    BY <1>32, DecisionStatus DEF FailAckLost, AckLost, Release, Holders
  <2>2. \A k \in Jobs \cap S : status'[k] # "RUNNING" /\ lockedBy'[k] = NoWorker
    BY <1>32, DecisionStatus DEF FailAckLost, AckLost, Release, Holders
  <2>3. \A q \in Runners, k \in Jobs : Claimed(q, k)' => Claimed(q, k) /\ k \notin S
    BY <1>32, DecisionStatus DEF FailAckLost, AckLost, Release, Holders
  <2> QED
    BY <2>1, <2>2, <2>3, <1>c
<1>33. ASSUME NEW r \in Runners, RescheduleAckLost(r) PROVE Ownership'
  <2> DEFINE S == {held[r]}
  <2>1. \A k \in Jobs \ S : status'[k] = status[k] /\ lockedBy'[k] = lockedBy[k]
    BY <1>33 DEF RescheduleAckLost, AckLost, Release, Holders
  <2>2. \A k \in Jobs \cap S : status'[k] # "RUNNING" /\ lockedBy'[k] = NoWorker
    BY <1>33 DEF RescheduleAckLost, AckLost, Release, Holders
  <2>3. \A q \in Runners, k \in Jobs : Claimed(q, k)' => Claimed(q, k) /\ k \notin S
    BY <1>33 DEF RescheduleAckLost, AckLost, Release, Holders
  <2> QED
    BY <2>1, <2>2, <2>3, <1>c
<1>10. ASSUME NEW r \in Runners, Throw(r) PROVE Quiet
  BY <1>10 DEF Throw
<1>11. ASSUME NEW r \in Runners, Forget(r) PROVE Quiet
  BY <1>11 DEF Forget, GoIdle
<1>12. ASSUME NEW r \in Runners, NEW category \in Categories, Fail(r, category) PROVE Ownership'
  <2> DEFINE S == {held[r]}
  <2>1. \A k \in Jobs \ S : status'[k] = status[k] /\ lockedBy'[k] = lockedBy[k]
    BY <1>12, DecisionStatus DEF Fail, Release, GoIdle, EndOthers, Holders
  <2>2. \A k \in Jobs \cap S : status'[k] # "RUNNING" /\ lockedBy'[k] = NoWorker
    BY <1>12, DecisionStatus DEF Fail, Release, GoIdle, EndOthers, Holders
  <2>3. \A q \in Runners, k \in Jobs : Claimed(q, k)' => Claimed(q, k) /\ k \notin S
    BY <1>12, DecisionStatus DEF Fail, Release, GoIdle, EndOthers, Holders
  <2> QED
    BY <2>1, <2>2, <2>3, <1>c
<1>13. ASSUME NEW r \in Runners, NEW category \in Categories, FailRefused(r, category) PROVE Quiet
  BY <1>13 DEF FailRefused, GoIdle
<1>14. ASSUME NEW r \in Runners, Reschedule(r) PROVE Ownership'
  <2> DEFINE S == {held[r]}
  <2>1. \A k \in Jobs \ S : status'[k] = status[k] /\ lockedBy'[k] = lockedBy[k]
    BY <1>14 DEF Reschedule, Release, GoIdle, EndOthers, Holders
  <2>2. \A k \in Jobs \cap S : status'[k] # "RUNNING" /\ lockedBy'[k] = NoWorker
    BY <1>14 DEF Reschedule, Release, GoIdle, EndOthers, Holders
  <2>3. \A q \in Runners, k \in Jobs : Claimed(q, k)' => Claimed(q, k) /\ k \notin S
    BY <1>14 DEF Reschedule, Release, GoIdle, EndOthers, Holders
  <2> QED
    BY <2>1, <2>2, <2>3, <1>c
<1>15. ASSUME NEW r \in Runners, Heartbeat(r) PROVE Quiet
  BY <1>15 DEF Heartbeat
<1>16. ASSUME NEW j \in Jobs, Lapse(j) PROVE Quiet
  BY <1>16 DEF Lapse
<1>17. ASSUME NEW w \in Workers, Crash(w) PROVE Quiet
  BY <1>17 DEF Crash
<1>18. ASSUME NEW w \in Workers, RefreshCache(w) PROVE Quiet
  BY <1>18 DEF RefreshCache
<1>19. ASSUME RecoverStalled PROVE Ownership'
  <2> DEFINE S == Stalled
  <2>1. \A k \in Jobs \ S : status'[k] = status[k] /\ lockedBy'[k] = lockedBy[k]
    BY <1>19 DEF RecoverStalled, Holders
  <2>2. \A k \in Jobs \cap S : status'[k] # "RUNNING" /\ lockedBy'[k] = NoWorker
    BY <1>19 DEF RecoverStalled, Holders
  <2>3. \A q \in Runners, k \in Jobs : Claimed(q, k)' => Claimed(q, k) /\ k \notin S
    BY <1>19 DEF RecoverStalled, Holders
  <2> QED
    BY <2>1, <2>2, <2>3, <1>c
<1>20. ASSUME NEW j \in Jobs, BecomeDue(j) PROVE Quiet
  BY <1>20 DEF BecomeDue
<1>21. ASSUME NEW c \in Clients, NEW j \in Jobs, CancelRead(c, j) PROVE Quiet
  BY <1>21 DEF CancelRead
<1>22. ASSUME NEW c \in Clients, CancelWrite(c) PROVE Ownership'
  <2> DEFINE S == {request[c].job}
  <2>1. \A k \in Jobs \ S : status'[k] = status[k] /\ lockedBy'[k] = lockedBy[k]
    BY <1>22, RequestFields DEF CancelWrite, Release, Holders
  <2>2. \A k \in Jobs \cap S : status'[k] # "RUNNING" /\ lockedBy'[k] = NoWorker
    BY <1>22, RequestFields DEF CancelWrite, Release, Holders
  <2>3. \A q \in Runners, k \in Jobs : Claimed(q, k)' => Claimed(q, k) /\ k \notin S
    BY <1>22, RequestFields DEF CancelWrite, Release, Holders
  <2> QED
    BY <2>1, <2>2, <2>3, <1>c
<1>23. ASSUME NEW j \in Jobs, Retry(j) PROVE Ownership'
  <2> DEFINE S == {j}
  <2>1. \A k \in Jobs \ S : status'[k] = status[k] /\ lockedBy'[k] = lockedBy[k]
    BY <1>23 DEF Retry, BackToQueue, Holders
  <2>2. \A k \in Jobs \cap S : status'[k] # "RUNNING" /\ lockedBy'[k] = NoWorker
    BY <1>23 DEF Retry, BackToQueue, Holders
  <2>3. \A q \in Runners, k \in Jobs : Claimed(q, k)' => Claimed(q, k) /\ k \notin S
    BY <1>23 DEF Retry, BackToQueue, Holders
  <2> QED
    BY <2>1, <2>2, <2>3, <1>c
<1>24. ASSUME NEW c \in Clients, NEW j \in Jobs, RequeueRead(c, j) PROVE Quiet
  BY <1>24 DEF RequeueRead
<1>25. ASSUME NEW c \in Clients, RequeueWrite(c) PROVE Ownership'
  <2> DEFINE S == {request[c].job}
  <2>1. \A k \in Jobs \ S : status'[k] = status[k] /\ lockedBy'[k] = lockedBy[k]
    BY <1>25, RequestFields DEF RequeueWrite, BackToQueue, Holders
  <2>2. \A k \in Jobs \cap S : status'[k] # "RUNNING" /\ lockedBy'[k] = NoWorker
    BY <1>25, RequestFields DEF RequeueWrite, BackToQueue, Holders
  <2>3. \A q \in Runners, k \in Jobs : Claimed(q, k)' => Claimed(q, k) /\ k \notin S
    BY <1>25, RequestFields DEF RequeueWrite, BackToQueue, Holders
  <2> QED
    BY <2>1, <2>2, <2>3, <1>c
<1>26. ASSUME NEW W \in SUBSET Workspaces, RetryFailed(W) PROVE Ownership'
  <2> DEFINE S == {j \in Jobs : status[j] = "DEAD_LETTER" /\ WsOf[kind[j]] \in W}
  <2>1. \A k \in Jobs \ S : status'[k] = status[k] /\ lockedBy'[k] = lockedBy[k]
    BY <1>26 DEF RetryFailed, BackToQueue, Holders
  <2>2. \A k \in Jobs \cap S : status'[k] # "RUNNING" /\ lockedBy'[k] = NoWorker
    BY <1>26 DEF RetryFailed, BackToQueue, Holders
  <2>3. \A q \in Runners, k \in Jobs : Claimed(q, k)' => Claimed(q, k) /\ k \notin S
    BY <1>26 DEF RetryFailed, BackToQueue, Holders
  <2> QED
    BY <2>1, <2>2, <2>3, <1>c
<1>27. ASSUME NEW s \in Scopes, NEW on \in BOOLEAN, SetPaused(s, on) PROVE Quiet
  BY <1>27 DEF SetPaused
<1>28. ASSUME NEW c \in Clients, NEW y \in Years, PauseYear(c, y) PROVE Quiet
  BY <1>28 DEF PauseYear
<1>29. ASSUME NEW c \in Clients, ClearYear(c) PROVE Ownership'
  <2> DEFINE S == {j \in Jobs : status[j] \in {"QUEUED", "RETRY_SCHEDULED"} /\ request[c].scope \in ScopesOf[kind[j]]}
  <2>1. \A k \in Jobs \ S : status'[k] = status[k] /\ lockedBy'[k] = lockedBy[k]
    BY <1>29 DEF ClearYear
  <2>2. \A k \in Jobs \cap S : status'[k] # "RUNNING" /\ lockedBy'[k] = NoWorker
    BY <1>29 DEF ClearYear
  <2>3. \A q \in Runners, k \in Jobs : Claimed(q, k)' => Claimed(q, k) /\ k \notin S
    BY <1>29, OwnershipByClaims DEF ClearYear, Ownership
  <2> QED
    BY <2>1, <2>2, <2>3, <1>c
<1>30. ASSUME NEW w \in Workspaces, BreakerFlips(w) PROVE Quiet
  BY <1>30 DEF BreakerFlips
<1>31. CASE UNCHANGED vars
  <2>1. Quiet
    BY <1>31 DEF vars
  <2> QED
    BY <2>1, <1>b, <1>c
<1> HIDE DEF Typed, TypeOK, HoldersHoldJobs, HoldingPcs, Claimed, Holds, rows, control, runner, Quiet, Ends
<1> QED
  BY <1>b, <1>c, <1>1, <1>2, <1>3, <1>4, <1>5, <1>6, <1>7, <1>8, <1>9, <1>10, <1>11, <1>12, <1>13, <1>14, <1>15, <1>16, <1>17, <1>18, <1>19, <1>20, <1>21, <1>22, <1>23, <1>24, <1>25, <1>26, <1>27, <1>28, <1>29, <1>30, <1>31, <1>32, <1>33
     DEF Next, RunnerStep, Claim, Finish, ClientStep, OperatorStep, EnvironmentStep

LEMMA OwnershipAlways == Spec => []Ownership
<1> QED
  BY InitOwnership, NextOwnership, PTL DEF Spec

\* In every reachable state, whatever the faults and the operators do, a row is
\* locked exactly while it is RUNNING (claimNext wants lockedBy to be null).
THEOREM LockAlwaysMatchesRunning == Spec => []LockMatchesRunning
<1>1. Ownership => LockMatchesRunning
  BY DEF Ownership
<1> QED
  BY <1>1, OwnershipAlways, PTL

\* In every reachable state a runner whose claim nobody has ended owns its row
\* alone: the guarded update of claimNext is enough for mutual exclusion.
THEOREM ClaimsOwnTheirJobs == Spec => []UnrevokedClaimOwnsJob
<1>1. Ownership => UnrevokedClaimOwnsJob
  BY DEF Ownership
<1> QED
  BY <1>1, OwnershipAlways, PTL

-----------------------------------------------------------------------------
(* A healthy fleet: heartbeats arrive, acknowledgements too, and no operator *)
(* touches a row that somebody may hold.  Crashes, thrown errors, breakers   *)
(* and pauses are allowed.                                                   *)

HealthyFleet ==
  /\ "stall" \notin Faults
  /\ "acklost" \notin Faults
  /\ Operations \cap {"cancel", "retry", "requeue", "retryFailed"} = {}

\* Then no claim is ever ended by anyone but its holder: what the sweep finds has
\* no holder left.
Undisturbed ==
  /\ Ownership
  /\ revoked = {}
  /\ \A j \in Jobs : lapsed[j] => Holders(j) = {}
  /\ \A c \in Clients : request[c].op \notin {"cancel", "requeue"}

LEMMA InitUndisturbed == Init => Undisturbed
<1> SUFFICES ASSUME Init PROVE Undisturbed
  OBVIOUS
<1>1. Ownership
  BY InitOwnership
<1> QED
  BY <1>1 DEF Init, Undisturbed, Idle

\* Nobody else is on a row that a runner holds.
LEMMA SoleHolder ==
  ASSUME Undisturbed, NEW r \in Runners, NEW j \in Jobs, Holds(r, j)
  PROVE  Holders(j) = {r} /\ lockedBy[j] = WorkerOf[r]
<1>1. Typed /\ revoked = {}
  BY DEF Undisturbed, Ownership
<1>2. \A q \in Runners : Holds(q, j) => q = r /\ lockedBy[j] = WorkerOf[q]
  BY <1>1 DEF Undisturbed, Ownership, UnrevokedClaimOwnsJob, Holders
<1> QED
  BY <1>2 DEF Holders

LEMMA NextUndisturbed ==
  ASSUME HealthyFleet, Undisturbed, [Next]_vars
  PROVE  Undisturbed'
<1> DEFINE Kept == /\ revoked' = {}
                   /\ \A j \in Jobs : lapsed'[j] => \A r \in Runners : ~ Holds(r, j)'
                   /\ \A c \in Clients : request'[c].op \notin {"cancel", "requeue"}
<1>a. Ownership /\ Ownership' /\ Typed /\ Typed'
  BY NextOwnership DEF Undisturbed, Ownership
<1>b. /\ revoked = {}
      /\ \A j \in Jobs, r \in Runners : lapsed[j] => ~ Holds(r, j)
      /\ \A c \in Clients : request[c].op \notin {"cancel", "requeue"}
  BY DEF Undisturbed, Holders
<1>c. Kept => Undisturbed'
  BY <1>a DEF Undisturbed, Holders
<1> USE <1>a, <1>b DEF Typed, TypeOK, HoldersHoldJobs, HoldingPcs, Holds, rows, control, runner, Idle
<1>1. ASSUME NEW c \in Clients, NEW k \in Kinds, EnqueueFind(c, k) PROVE Kept
  BY <1>1 DEF EnqueueFind
<1>2. ASSUME NEW c \in Clients, NEW j \in Jobs, EnqueueCreate(c, j) PROVE Kept
  BY <1>2 DEF EnqueueCreate
<1>3. ASSUME NEW r \in Runners, ClaimCount(r) PROVE Kept
  BY <1>3 DEF ClaimCount
<1>4. ASSUME NEW r \in Runners, ClaimList(r) PROVE Kept
  BY <1>4 DEF ClaimList
<1>5. ASSUME NEW r \in Runners, NEW j \in Jobs, ClaimWin(r, j) PROVE Kept
  BY <1>5 DEF ClaimWin
<1>6. ASSUME NEW r \in Runners, NEW j \in Jobs, ClaimSkip(r, j) PROVE Kept
  BY <1>6 DEF ClaimSkip
<1>7. ASSUME NEW r \in Runners, ClaimReadBack(r) PROVE Kept
  BY <1>7 DEF ClaimReadBack
<1>8. ASSUME NEW r \in Runners, Complete(r) PROVE Kept
  <2>1. Holders(held[r]) = {r}
    BY <1>8, SoleHolder DEF Complete
  <2> QED
    BY <1>8, <2>1 DEF Complete, Release, GoIdle, EndOthers
<1>9. ASSUME NEW r \in Runners, CompleteAckLost(r) PROVE FALSE
  BY <1>9, HealthyFleet DEF CompleteAckLost, AckLost, HealthyFleet
<1>32. ASSUME NEW r \in Runners, NEW category \in Categories, FailAckLost(r, category) PROVE FALSE
  BY <1>32, HealthyFleet DEF FailAckLost, AckLost, HealthyFleet
<1>33. ASSUME NEW r \in Runners, RescheduleAckLost(r) PROVE FALSE
  BY <1>33, HealthyFleet DEF RescheduleAckLost, AckLost, HealthyFleet
<1>10. ASSUME NEW r \in Runners, Throw(r) PROVE Kept
  BY <1>10 DEF Throw
<1>11. ASSUME NEW r \in Runners, Forget(r) PROVE Kept
  BY <1>11 DEF Forget, GoIdle
<1>12. ASSUME NEW r \in Runners, NEW category \in Categories, Fail(r, category) PROVE Kept
  <2>1. Holders(held[r]) = {r}
    BY <1>12, SoleHolder DEF Fail, FailCategories
  <2> QED
    BY <1>12, <2>1 DEF Fail, Release, GoIdle, EndOthers
<1>13. ASSUME NEW r \in Runners, NEW category \in Categories, FailRefused(r, category) PROVE Kept
  BY <1>13 DEF FailRefused, GoIdle
<1>14. ASSUME NEW r \in Runners, Reschedule(r) PROVE Kept
  <2>1. Holders(held[r]) = {r}
    BY <1>14, SoleHolder DEF Reschedule
  <2> QED
    BY <1>14, <2>1 DEF Reschedule, Release, GoIdle, EndOthers
<1>15. ASSUME NEW r \in Runners, Heartbeat(r) PROVE Kept
  BY <1>15 DEF Heartbeat
<1>16. ASSUME NEW j \in Jobs, Lapse(j) PROVE Kept
  <2>1. \A r \in Runners : ~ Holds(r, j)
    BY <1>16, HealthyFleet, SoleHolder DEF Lapse, Beating, HealthyFleet
  <2> QED
    BY <1>16, <2>1 DEF Lapse
<1>17. ASSUME NEW w \in Workers, Crash(w) PROVE Kept
  BY <1>17 DEF Crash
<1>18. ASSUME NEW w \in Workers, RefreshCache(w) PROVE Kept
  BY <1>18 DEF RefreshCache
<1>19. ASSUME RecoverStalled PROVE Kept
  <2>1. \A j \in Stalled : Holders(j) = {}
    BY DEF Stalled, Running, Holders
  <2>2. revoked' = {}
    BY <1>19, <2>1 DEF RecoverStalled
  <2> QED
    BY <1>19, <2>2 DEF RecoverStalled
<1>20. ASSUME NEW j \in Jobs, BecomeDue(j) PROVE Kept
  BY <1>20 DEF BecomeDue
<1>21. ASSUME NEW c \in Clients, NEW j \in Jobs, CancelRead(c, j) PROVE FALSE
  BY <1>21, HealthyFleet DEF CancelRead, HealthyFleet
<1>22. ASSUME NEW c \in Clients, CancelWrite(c) PROVE FALSE
  BY <1>22 DEF CancelWrite
<1>23. ASSUME NEW j \in Jobs, Retry(j) PROVE FALSE
  BY <1>23, HealthyFleet DEF Retry, HealthyFleet
<1>24. ASSUME NEW c \in Clients, NEW j \in Jobs, RequeueRead(c, j) PROVE FALSE
  BY <1>24, HealthyFleet DEF RequeueRead, HealthyFleet
<1>25. ASSUME NEW c \in Clients, RequeueWrite(c) PROVE FALSE
  BY <1>25 DEF RequeueWrite
<1>26. ASSUME NEW W \in SUBSET Workspaces, RetryFailed(W) PROVE FALSE
  BY <1>26, HealthyFleet DEF RetryFailed, HealthyFleet
<1>27. ASSUME NEW s \in Scopes, NEW on \in BOOLEAN, SetPaused(s, on) PROVE Kept
  BY <1>27 DEF SetPaused
<1>28. ASSUME NEW c \in Clients, NEW y \in Years, PauseYear(c, y) PROVE Kept
  BY <1>28 DEF PauseYear
<1>29. ASSUME NEW c \in Clients, ClearYear(c) PROVE Kept
  BY <1>29 DEF ClearYear
<1>30. ASSUME NEW w \in Workspaces, BreakerFlips(w) PROVE Kept
  BY <1>30 DEF BreakerFlips
<1>31. ASSUME UNCHANGED vars PROVE Kept
  BY <1>31 DEF vars
<1> HIDE DEF Typed, TypeOK, HoldersHoldJobs, HoldingPcs, Holds, rows, control, runner, Idle, Kept
<1> QED
  BY <1>c, <1>1, <1>2, <1>3, <1>4, <1>5, <1>6, <1>7, <1>8, <1>9, <1>10, <1>11, <1>12, <1>13, <1>14, <1>15, <1>16, <1>17, <1>18, <1>19, <1>20, <1>21, <1>22, <1>23, <1>24, <1>25, <1>26, <1>27, <1>28, <1>29, <1>30, <1>31, <1>32, <1>33
     DEF Next, RunnerStep, Claim, Finish, ClientStep, OperatorStep, EnvironmentStep

\* While the fleet is healthy no two runners are ever inside the handler for one
\* job, crashes included (WORKER_OPERATIONS.md: "no job is processed twice").
THEOREM HealthyFleetProcessesOnce ==
  ASSUME HealthyFleet
  PROVE  Spec => []NoJobProcessedTwice
<1>1. Undisturbed => NoJobProcessedTwice
  <2> SUFFICES ASSUME Undisturbed, NEW r \in Runners, NEW q \in Runners, NEW j \in Jobs,
                      Holds(r, j), Holds(q, j)
               PROVE  r = q
    BY DEF NoJobProcessedTwice
  <2> QED
    BY SoleHolder DEF Holders
<1>2. Undisturbed /\ [Next]_vars => Undisturbed'
  BY HealthyFleet, NextUndisturbed
<1> QED
  BY <1>1, <1>2, InitUndisturbed, PTL DEF Spec

-----------------------------------------------------------------------------
(* The ceilings of claimNext: how far they can be passed, for every number   *)
(* of runners, rows and workspaces.                                          *)

\* Runners that have read the count of running rows and not yet claimed.
Counted == {r \in Runners : pc[r] \in {"counted", "ready"}}

\* Runners about to claim that read a load of w below its cap.
Admitted(w) == {r \in Runners : pc[r] = "ready" /\ view[r].load[w] < WsCap}

WorkspaceBound ==
  \A w \in Workspaces :
    Cardinality(RunningOf(w)) + Cardinality(Admitted(w)) <= WsCap + Cardinality(Runners) - 1

Capacity == Typed /\ RunningBounded /\ WorkspaceBound

-----------------------------------------------------------------------------
(* Counting.                                                                 *)

\* Runners and rows are finite, so are their subsets, which have a size.
LEMMA Sizes ==
  /\ \A S : S \subseteq Jobs => IsFiniteSet(S) /\ Cardinality(S) \in Nat
  /\ \A S : S \subseteq Runners =>
       IsFiniteSet(S) /\ Cardinality(S) \in Nat /\ Cardinality(S) <= Cardinality(Runners)
BY ConstantsAssumption, FS_Subset, FS_CardinalityType

\* Sets that only shrink keep every bound on the sum of their sizes.
LEMMA ShrinkingKeepsBound ==
  ASSUME NEW A, NEW B, NEW C, NEW D, NEW n \in Int,
         B \subseteq Jobs, A \subseteq B, D \subseteq Runners, C \subseteq D,
         Cardinality(B) + Cardinality(D) <= n
  PROVE  Cardinality(A) + Cardinality(C) <= n
<1>1. Cardinality(A) <= Cardinality(B) /\ Cardinality(C) <= Cardinality(D)
  BY Sizes, FS_Subset
<1>2. /\ Cardinality(A) \in Nat /\ Cardinality(B) \in Nat
      /\ Cardinality(C) \in Nat /\ Cardinality(D) \in Nat
  BY Sizes
<1> QED
  BY <1>1, <1>2

\* A claim moves one from the runners that had read the count to the running rows.
LEMMA ClaimKeepsBound ==
  ASSUME NEW A, NEW B, NEW D, NEW j, NEW r, NEW n \in Int,
         B \subseteq Jobs, j \in Jobs, A \subseteq B \cup {j}, D \subseteq Runners, r \in D,
         Cardinality(B) + Cardinality(D) <= n
  PROVE  Cardinality(A) + Cardinality(D \ {r}) <= n
<1>1. Cardinality(A) <= Cardinality(B) + 1
  <2>1. /\ IsFiniteSet(B) /\ Cardinality(B) \in Nat
        /\ Cardinality(A) \in Nat /\ Cardinality(B \cup {j}) \in Nat
    BY Sizes
  <2>2. Cardinality(B \cup {j}) <= Cardinality(B) + 1
    <3>1. Cardinality(B \cup {j}) = IF j \in B THEN Cardinality(B) ELSE Cardinality(B) + 1
      BY <2>1, FS_AddElement
    <3> QED
      BY <2>1, <3>1
  <2>3. Cardinality(A) <= Cardinality(B \cup {j})
    BY Sizes, FS_Subset
  <2> QED
    BY <2>1, <2>2, <2>3
<1>2. Cardinality(D \ {r}) = Cardinality(D) - 1
  BY Sizes, FS_RemoveElement
<1>3. /\ Cardinality(A) \in Nat /\ Cardinality(B) \in Nat /\ Cardinality(D) \in Nat
  BY Sizes
<1> QED
  BY <1>1, <1>2, <1>3

-----------------------------------------------------------------------------

LEMMA Bounds ==
  /\ Cardinality(Runners) \in Nat
  /\ GlobalMax + Cardinality(Runners) - 1 \in Nat
  /\ WsCap + Cardinality(Runners) - 1 \in Nat
  /\ GlobalMax \in Nat /\ WsCap \in Nat
<1>1. Cardinality(Runners) \in Nat
  BY Sizes
<1> QED
  BY <1>1, ConstantsAssumption

LEMMA Subsets ==
  /\ Running \subseteq Jobs
  /\ Counted \subseteq Runners
  /\ \A w : RunningOf(w) \subseteq Jobs /\ Admitted(w) \subseteq Runners
BY DEF Running, Counted, RunningOf, Admitted

LEMMA InitCapacity == Init => Capacity
<1> SUFFICES ASSUME Init PROVE Capacity
  OBVIOUS
<1>1. Running = {} /\ Counted = {} /\ \A w : RunningOf(w) = {} /\ Admitted(w) = {}
  BY DEF Init, Running, Counted, RunningOf, Admitted
<1>2. Cardinality({}) = 0
  BY FS_EmptySet
<1>3. RunningBounded
  <2>1. Cardinality(Running) + Cardinality(Counted) <= GlobalMax + Cardinality(Runners) - 1
    BY <1>1, <1>2, Bounds
  <2> QED
    BY <2>1 DEF RunningBounded, Counted
<1>4. WorkspaceBound
  BY <1>1, <1>2, Bounds DEF WorkspaceBound
<1> QED
  BY <1>3, <1>4, InitTyped DEF Capacity

\* What a step does to the two counts if it neither claims nor reads a count.
Shrinks ==
  /\ Running' \subseteq Running
  /\ Counted' \subseteq Counted
  /\ \A w \in Workspaces : RunningOf(w)' \subseteq RunningOf(w) /\ Admitted(w)' \subseteq Admitted(w)

LEMMA ShrinksCapacity ==
  ASSUME Capacity, Typed', Shrinks
  PROVE  Capacity'
<1>1. RunningBounded'
  BY ShrinkingKeepsBound, Subsets, Bounds DEF Capacity, RunningBounded, Shrinks, Counted
<1>2. WorkspaceBound'
  BY ShrinkingKeepsBound, Subsets, Bounds DEF Capacity, WorkspaceBound, Shrinks
<1> QED
  BY <1>1, <1>2 DEF Capacity

LEMMA ClaimCountCapacity ==
  ASSUME Capacity, Typed', NEW r \in Runners, ClaimCount(r)
  PROVE  Capacity'
<1>1. Running' = Running
  BY DEF ClaimCount, Running, rows
<1>2. Cardinality(Running) < GlobalMax
  BY DEF ClaimCount, BelowGlobalMax
<1>3. Cardinality(Counted') <= Cardinality(Runners)
  BY Sizes DEF Counted
<1>4. Cardinality(Running) \in Nat /\ Cardinality(Counted') \in Nat
  BY Sizes DEF Running, Counted
<1>5. RunningBounded'
  BY <1>1, <1>2, <1>3, <1>4, Bounds DEF RunningBounded, Counted
<1>6. \A w \in Workspaces : RunningOf(w)' \subseteq RunningOf(w) /\ Admitted(w)' \subseteq Admitted(w)
  BY DEF ClaimCount, RunningOf, Running, Admitted, rows, Capacity, Typed, TypeOK
<1>7. WorkspaceBound'
  BY <1>6, ShrinkingKeepsBound, Subsets, Bounds DEF Capacity, WorkspaceBound
<1> QED
  BY <1>5, <1>7 DEF Capacity

LEMMA ClaimListCapacity ==
  ASSUME Capacity, Typed', NEW r \in Runners, ClaimList(r)
  PROVE  Capacity'
<1>1. Running' = Running /\ Counted' \subseteq Counted /\ \A w : RunningOf(w)' = RunningOf(w)
  BY DEF ClaimList, Running, RunningOf, Counted, rows, Capacity, Typed, TypeOK
<1>2. RunningBounded'
  BY <1>1, ShrinkingKeepsBound, Subsets, Bounds DEF Capacity, RunningBounded, Counted
<1>3. ASSUME NEW w \in Workspaces
      PROVE  Cardinality(RunningOf(w)') + Cardinality(Admitted(w)') <= WsCap + Cardinality(Runners) - 1
  <2>1. \A q \in Runners \ {r} : q \in Admitted(w)' <=> q \in Admitted(w)
    BY DEF ClaimList, Admitted, Capacity, Typed, TypeOK
  <2>2. CASE r \in Admitted(w)'
    <3>1. Cardinality(RunningOf(w)) < WsCap
      BY <2>2 DEF ClaimList, Admitted, RunningOf, Capacity, Typed, TypeOK
    <3>2. Cardinality(Admitted(w)') <= Cardinality(Runners)
      BY Sizes DEF Admitted
    <3>3. Cardinality(RunningOf(w)) \in Nat /\ Cardinality(Admitted(w)') \in Nat
      BY Sizes DEF RunningOf, Running, Admitted
    <3> QED
      BY <1>1, <3>1, <3>2, <3>3, Bounds
  <2>3. CASE r \notin Admitted(w)'
    <3>1. Admitted(w)' \subseteq Admitted(w)
      BY <2>1, <2>3 DEF Admitted
    <3> QED
      BY <1>1, <3>1, ShrinkingKeepsBound, Subsets, Bounds DEF Capacity, WorkspaceBound
  <2> QED
    BY <2>2, <2>3
<1> QED
  BY <1>2, <1>3 DEF Capacity, WorkspaceBound

LEMMA ClaimWinCapacity ==
  ASSUME Capacity, Typed', NEW r \in Runners, NEW j \in Jobs, ClaimWin(r, j)
  PROVE  Capacity'
<1>1. /\ Running' \subseteq Running \cup {j}
      /\ Counted' = Counted \ {r}
      /\ r \in Counted
  BY DEF ClaimWin, NextCandidate, Running, Counted, Capacity, Typed, TypeOK
<1>2. RunningBounded'
  <2>1. Cardinality(Running) + Cardinality(Counted) <= GlobalMax + Cardinality(Runners) - 1
    BY DEF Capacity, RunningBounded, Counted
  <2>2. Cardinality(Running') + Cardinality(Counted \ {r}) <= GlobalMax + Cardinality(Runners) - 1
    BY <1>1, <2>1, ClaimKeepsBound, Subsets, Bounds
  <2> QED
    BY <1>1, <2>2 DEF RunningBounded, Counted
<1>3. ASSUME NEW w \in Workspaces
      PROVE  Cardinality(RunningOf(w)') + Cardinality(Admitted(w)') <= WsCap + Cardinality(Runners) - 1
  <2>1. Admitted(w)' = Admitted(w) \ {r}
    BY DEF ClaimWin, NextCandidate, Admitted, Capacity, Typed, TypeOK
  <2>2. CASE WsOf[kind[j]] = w
    <3>1. r \in Admitted(w)
      <4>1. ~ (view[r].load[w] >= WsCap) /\ view[r].load[w] \in Nat
        BY <2>2 DEF ClaimWin, Blocked, LoadOf, Views, Capacity, Typed, TypeOK
      <4> QED
        BY <4>1, Bounds DEF ClaimWin, NextCandidate, Admitted
    <3>2. RunningOf(w)' \subseteq RunningOf(w) \cup {j}
      BY DEF ClaimWin, RunningOf, Running, Capacity, Typed, TypeOK
    <3>3. Cardinality(RunningOf(w)) + Cardinality(Admitted(w)) <= WsCap + Cardinality(Runners) - 1
      BY DEF Capacity, WorkspaceBound
    <3>4. Cardinality(RunningOf(w)') + Cardinality(Admitted(w) \ {r}) <= WsCap + Cardinality(Runners) - 1
      BY <3>1, <3>2, <3>3, ClaimKeepsBound, Subsets, Bounds
    <3> QED
      BY <2>1, <3>4
  <2>3. CASE WsOf[kind[j]] # w
    <3>1. RunningOf(w)' \subseteq RunningOf(w) /\ Admitted(w)' \subseteq Admitted(w)
      BY <2>1, <2>3 DEF ClaimWin, RunningOf, Running, Capacity, Typed, TypeOK
    <3> QED
      BY <3>1, ShrinkingKeepsBound, Subsets, Bounds DEF Capacity, WorkspaceBound
  <2> QED
    BY <2>2, <2>3
<1> QED
  BY <1>2, <1>3 DEF Capacity, WorkspaceBound

LEMMA NextCapacity == Capacity /\ [Next]_vars => Capacity'
<1> SUFFICES ASSUME Capacity, [Next]_vars PROVE Capacity'
  OBVIOUS
<1>a. Typed /\ Typed'
  BY NextTyped DEF Capacity
<1>b. Shrinks => Capacity'
  BY <1>a, ShrinksCapacity
<1> USE <1>a DEF Typed, TypeOK, Running, RunningOf, Counted, Admitted, rows, control, runner
<1>1. ASSUME NEW c \in Clients, NEW k \in Kinds, EnqueueFind(c, k) PROVE Shrinks
  BY <1>1 DEF EnqueueFind, Shrinks
<1>2. ASSUME NEW c \in Clients, NEW j \in Jobs, EnqueueCreate(c, j) PROVE Shrinks
  BY <1>2 DEF EnqueueCreate, Shrinks
<1>3. ASSUME NEW r \in Runners, ClaimCount(r) PROVE Capacity'
  BY <1>3, <1>a, ClaimCountCapacity
<1>4. ASSUME NEW r \in Runners, ClaimList(r) PROVE Capacity'
  BY <1>4, <1>a, ClaimListCapacity
<1>5. ASSUME NEW r \in Runners, NEW j \in Jobs, ClaimWin(r, j) PROVE Capacity'
  BY <1>5, <1>a, ClaimWinCapacity
<1>6. ASSUME NEW r \in Runners, NEW j \in Jobs, ClaimSkip(r, j) PROVE Shrinks
  <2>1. /\ Running' = Running /\ Counted' \subseteq Counted
        /\ \A w \in Workspaces : RunningOf(w)' = RunningOf(w)
    BY <1>6 DEF ClaimSkip
  <2>2. \A q \in Runners, w \in Workspaces : pc'[q] = "ready" =>
          pc[q] = "ready" /\ view'[q].load[w] = view[q].load[w]
    <3>1. pc \in [Runners -> {"idle", "counted", "ready"} \cup HoldingPcs] /\ view \in [Runners -> Views]
      OBVIOUS
    <3>2. CASE view[r].cands = {j}
      <4>1. /\ pc' = [pc EXCEPT ![r] = "idle"]
            /\ view' = [view EXCEPT ![r] = Blank]
        BY <1>6, <3>2 DEF ClaimSkip
      <4> HIDE DEF Typed, TypeOK
      <4> QED
        BY <3>1, <4>1
    <3>3. CASE view[r].cands # {j}
      <4>1. /\ pc' = pc
            /\ view' = [view EXCEPT ![r].cands = @ \ {j}]
        BY <1>6, <3>3 DEF ClaimSkip
      <4> HIDE DEF Typed, TypeOK
      <4>2. \A q \in Runners : view'[q].load = view[q].load
        BY <3>1, <4>1 DEF Views
      <4> QED
        BY <4>1, <4>2
    <3> QED
      BY <3>2, <3>3
  <2>3. \A w \in Workspaces : Admitted(w)' \subseteq Admitted(w)
    BY <2>2
  <2> QED
    BY <2>1, <2>3 DEF Shrinks
<1>7. ASSUME NEW r \in Runners, ClaimReadBack(r) PROVE Shrinks
  BY <1>7 DEF ClaimReadBack, Shrinks
<1>8. ASSUME NEW r \in Runners, Complete(r) PROVE Shrinks
  BY <1>8 DEF Complete, Shrinks, Release, GoIdle
<1>9. ASSUME NEW r \in Runners, CompleteAckLost(r) PROVE Shrinks
  BY <1>9 DEF CompleteAckLost, AckLost, Shrinks, Release
<1>32. ASSUME NEW r \in Runners, NEW category \in Categories, FailAckLost(r, category) PROVE Shrinks
  BY <1>32, DecisionStatus DEF FailAckLost, AckLost, Shrinks, Release
<1>33. ASSUME NEW r \in Runners, RescheduleAckLost(r) PROVE Shrinks
  BY <1>33 DEF RescheduleAckLost, AckLost, Shrinks, Release
<1>10. ASSUME NEW r \in Runners, Throw(r) PROVE Shrinks
  BY <1>10 DEF Throw, Shrinks
<1>11. ASSUME NEW r \in Runners, Forget(r) PROVE Shrinks
  BY <1>11 DEF Forget, Shrinks, GoIdle
<1>12. ASSUME NEW r \in Runners, NEW category \in Categories, Fail(r, category) PROVE Shrinks
  BY <1>12, DecisionStatus DEF Fail, Shrinks, Release, GoIdle
<1>13. ASSUME NEW r \in Runners, NEW category \in Categories, FailRefused(r, category) PROVE Shrinks
  BY <1>13 DEF FailRefused, Shrinks, GoIdle
<1>14. ASSUME NEW r \in Runners, Reschedule(r) PROVE Shrinks
  BY <1>14 DEF Reschedule, Shrinks, Release, GoIdle
<1>15. ASSUME NEW r \in Runners, Heartbeat(r) PROVE Shrinks
  BY <1>15 DEF Heartbeat, Shrinks
<1>16. ASSUME NEW j \in Jobs, Lapse(j) PROVE Shrinks
  BY <1>16 DEF Lapse, Shrinks
<1>17. ASSUME NEW w \in Workers, Crash(w) PROVE Shrinks
  BY <1>17 DEF Crash, Shrinks
<1>18. ASSUME NEW w \in Workers, RefreshCache(w) PROVE Shrinks
  BY <1>18 DEF RefreshCache, Shrinks
<1>19. ASSUME RecoverStalled PROVE Shrinks
  BY <1>19 DEF RecoverStalled, Shrinks
<1>20. ASSUME NEW j \in Jobs, BecomeDue(j) PROVE Shrinks
  BY <1>20 DEF BecomeDue, Shrinks
<1>21. ASSUME NEW c \in Clients, NEW j \in Jobs, CancelRead(c, j) PROVE Shrinks
  BY <1>21 DEF CancelRead, Shrinks
<1>22. ASSUME NEW c \in Clients, CancelWrite(c) PROVE Shrinks
  BY <1>22 DEF CancelWrite, Shrinks, Release
<1>23. ASSUME NEW j \in Jobs, Retry(j) PROVE Shrinks
  BY <1>23 DEF Retry, Shrinks, BackToQueue
<1>24. ASSUME NEW c \in Clients, NEW j \in Jobs, RequeueRead(c, j) PROVE Shrinks
  BY <1>24 DEF RequeueRead, Shrinks
<1>25. ASSUME NEW c \in Clients, RequeueWrite(c) PROVE Shrinks
  BY <1>25 DEF RequeueWrite, Shrinks, BackToQueue
<1>26. ASSUME NEW W \in SUBSET Workspaces, RetryFailed(W) PROVE Shrinks
  BY <1>26 DEF RetryFailed, Shrinks, BackToQueue
<1>27. ASSUME NEW s \in Scopes, NEW on \in BOOLEAN, SetPaused(s, on) PROVE Shrinks
  BY <1>27 DEF SetPaused, Shrinks
<1>28. ASSUME NEW c \in Clients, NEW y \in Years, PauseYear(c, y) PROVE Shrinks
  BY <1>28 DEF PauseYear, Shrinks
<1>29. ASSUME NEW c \in Clients, ClearYear(c) PROVE Shrinks
  BY <1>29 DEF ClearYear, Shrinks
<1>30. ASSUME NEW w \in Workspaces, BreakerFlips(w) PROVE Shrinks
  BY <1>30 DEF BreakerFlips, Shrinks
<1>31. ASSUME UNCHANGED vars PROVE Shrinks
  BY <1>31 DEF vars, Shrinks
<1> HIDE DEF Typed, TypeOK, Running, RunningOf, Counted, Admitted, rows, control, runner
<1> QED
  BY <1>b, <1>1, <1>2, <1>3, <1>4, <1>5, <1>6, <1>7, <1>8, <1>9, <1>10, <1>11, <1>12, <1>13, <1>14, <1>15, <1>16, <1>17, <1>18, <1>19, <1>20, <1>21, <1>22, <1>23, <1>24, <1>25, <1>26, <1>27, <1>28, <1>29, <1>30, <1>31, <1>32, <1>33
     DEF Next, RunnerStep, Claim, Finish, ClientStep, OperatorStep, EnvironmentStep

\* The global ceiling is passed by fewer rows than there are runners, whatever
\* crashes, sweeps and operators do in between (claimNext counts before it claims).
THEOREM GlobalCeiling == Spec => []RunningBounded
<1>1. Capacity => RunningBounded
  BY DEF Capacity
<1> QED
  BY <1>1, InitCapacity, NextCapacity, PTL DEF Spec

\* The same for the concurrency of each workspace.
THEOREM WorkspaceCeiling == Spec => []WorkspaceLoadBounded
<1>1. Capacity => WorkspaceLoadBounded
  <2> SUFFICES ASSUME Capacity, NEW w \in Workspaces
               PROVE  Cardinality(RunningOf(w)) <= WsCap + Cardinality(Runners) - 1
    BY DEF WorkspaceLoadBounded
  <2>1. Cardinality(RunningOf(w)) \in Nat /\ Cardinality(Admitted(w)) \in Nat
    BY Sizes, Subsets
  <2> QED
    BY <2>1, Bounds DEF Capacity, WorkspaceBound
<1> QED
  BY <1>1, InitCapacity, NextCapacity, PTL DEF Spec

-----------------------------------------------------------------------------
(* Pauses.                                                                   *)

\* A row on a candidate list exists (nothing in Next deletes rows).
Listed == \A r \in Runners : pc[r] = "ready" => \A j \in view[r].cands : status[j] # "ABSENT"

\* The pause of s has reached everyone: the cache of every process has it, and no
\* claim under way was begun without it.
Heeded(s) ==
  /\ s \in paused
  /\ \A w \in Workers : s \in cached[w]
  /\ \A r \in Runners :
       /\ pc[r] = "counted" => s \in view[r].paused
       /\ pc[r] = "ready" => \A j \in view[r].cands : s \notin ScopesOf[kind[j]]

\* This step takes no row of scope s.
TakesNone(s) ==
  \A j \in Jobs : s \in ScopesOf[kind[j]]' /\ status'[j] = "RUNNING" => status[j] = "RUNNING"

\* Once heeded, a pause stays heeded until it is lifted, and none of its work starts.
PausesKept ==
  [][\A s \in Scopes : Heeded(s) /\ s \in paused' => Heeded(s)' /\ TakesNone(s)]_vars

\* What a step does if it neither begins a claim, lists candidates nor takes a row.
ClaimsNothing ==
  /\ \A j \in Jobs : status[j] # "ABSENT" => status'[j] # "ABSENT" /\ kind'[j] = kind[j]
  /\ \A j \in Jobs : status'[j] = "RUNNING" => status[j] = "RUNNING"
  /\ \A w \in Workers : cached'[w] \in {cached[w], paused'}
  /\ \A r \in Runners :
       /\ pc'[r] = "counted" => pc[r] = "counted" /\ view'[r].paused = view[r].paused
       /\ pc'[r] = "ready" => pc[r] = "ready" /\ view'[r].cands \subseteq view[r].cands

PauseStep == Listed' /\ \A s \in Scopes : Heeded(s) /\ s \in paused' => Heeded(s)' /\ TakesNone(s)

LEMMA ClaimsNothingKeepsPauses ==
  ASSUME Typed, Listed, ClaimsNothing
  PROVE  PauseStep
<1>1. \A r \in Runners : view[r].cands \subseteq Jobs
  BY DEF Typed, TypeOK, Views
<1>2. Listed'
  BY <1>1 DEF Listed, ClaimsNothing
<1>3. ASSUME NEW s \in Scopes, Heeded(s), s \in paused'
      PROVE  Heeded(s)' /\ TakesNone(s)
  <2>1. \A w \in Workers : s \in cached'[w]
    BY <1>3 DEF Heeded, ClaimsNothing
  <2>2. \A r \in Runners : pc'[r] = "counted" => s \in view'[r].paused
    BY <1>3 DEF Heeded, ClaimsNothing
  <2>3. \A r \in Runners : pc'[r] = "ready" => \A j \in view'[r].cands : s \notin ScopesOf[kind'[j]]
    BY <1>1, <1>3 DEF Heeded, ClaimsNothing, Listed
  <2>4. TakesNone(s)
    BY DEF TakesNone, ClaimsNothing
  <2> QED
    BY <1>3, <2>1, <2>2, <2>3, <2>4 DEF Heeded
<1> QED
  BY <1>2, <1>3 DEF PauseStep

\* A claim begins with what its process has cached.
LEMMA ClaimCountKeepsPauses ==
  ASSUME Typed, Listed, NEW r \in Runners, ClaimCount(r)
  PROVE  PauseStep
<1> USE DEF Typed, TypeOK, HoldingPcs, Views
<1>1. /\ \A q \in Runners \ {r} : pc'[q] = pc[q] /\ view'[q] = view[q]
      /\ pc'[r] = "counted" /\ view'[r].paused = cached[WorkerOf[r]]
      /\ UNCHANGED <<status, kind, cached>>
  BY DEF ClaimCount, rows, control
<1>2. Listed'
  BY <1>1 DEF Listed
<1>3. ASSUME NEW s \in Scopes, Heeded(s), s \in paused'
      PROVE  Heeded(s)' /\ TakesNone(s)
  <2>1. s \in view'[r].paused
    BY <1>1, <1>3, ConstantsAssumption DEF Heeded
  <2> QED
    BY <1>1, <1>3, <2>1 DEF Heeded, TakesNone
<1> QED
  BY <1>2, <1>3 DEF PauseStep

\* What it lists is not paused by what it has read.
LEMMA ClaimListKeepsPauses ==
  ASSUME Typed, Listed, NEW r \in Runners, ClaimList(r)
  PROVE  PauseStep
<1> USE DEF Typed, TypeOK, HoldingPcs
<1>1. /\ \A q \in Runners \ {r} : pc'[q] = pc[q] /\ view'[q] = view[q]
      /\ pc'[r] # "counted" /\ pc[r] = "counted"
      /\ UNCHANGED <<status, kind, cached>>
  BY DEF ClaimList, rows, control
<1>2. pc'[r] = "ready" => view'[r].cands = {j \in DueIn(Source) : Unpaused(r, j)}
  BY DEF ClaimList
<1>3. \A j \in DueIn(Source) : status[j] # "ABSENT"
  BY DEF DueIn, Source
<1>4. Listed'
  BY <1>1, <1>2, <1>3 DEF Listed
<1>5. ASSUME NEW s \in Scopes, Heeded(s), s \in paused'
      PROVE  Heeded(s)' /\ TakesNone(s)
  <2>1. pc'[r] = "ready" => \A j \in view'[r].cands : s \notin ScopesOf[kind[j]]
    BY <1>1, <1>2, <1>5 DEF Heeded, Unpaused
  <2> QED
    BY <1>1, <1>5, <2>1 DEF Heeded, TakesNone
<1> QED
  BY <1>4, <1>5 DEF PauseStep

\* And it takes what it has listed.
LEMMA ClaimWinKeepsPauses ==
  ASSUME Typed, Listed, NEW r \in Runners, NEW i \in Jobs, ClaimWin(r, i)
  PROVE  PauseStep
<1> USE DEF Typed, TypeOK, HoldingPcs
<1>1. /\ \A q \in Runners \ {r} : pc'[q] = pc[q] /\ view'[q] = view[q]
      /\ pc'[r] = "won" /\ pc[r] = "ready" /\ i \in view[r].cands
      /\ \A j \in Jobs \ {i} : status'[j] = status[j]
      /\ status'[i] = "RUNNING"
      /\ UNCHANGED <<kind, cached>>
  BY DEF ClaimWin, NextCandidate, control
<1>2. Listed'
  <2>1. \A j \in Jobs : status[j] # "ABSENT" => status'[j] # "ABSENT"
    BY <1>1
  <2>2. \A q \in Runners : view[q].cands \subseteq Jobs
    BY DEF Views
  <2> QED
    BY <1>1, <2>1, <2>2 DEF Listed
<1>3. ASSUME NEW s \in Scopes, Heeded(s), s \in paused'
      PROVE  Heeded(s)' /\ TakesNone(s)
  <2>1. s \notin ScopesOf[kind[i]]
    BY <1>1, <1>3 DEF Heeded
  <2> QED
    BY <1>1, <1>3, <2>1 DEF Heeded, TakesNone
<1> QED
  BY <1>2, <1>3 DEF PauseStep

LEMMA NextPauses == Typed /\ Listed /\ [Next]_vars => PauseStep
<1> SUFFICES ASSUME Typed, Listed, [Next]_vars PROVE PauseStep
  OBVIOUS
<1>a. Typed
  OBVIOUS
<1>b. ClaimsNothing => PauseStep
  BY ClaimsNothingKeepsPauses
<1> USE DEF Typed, TypeOK, HoldersHoldJobs, HoldingPcs, rows, control, runner
<1>1. ASSUME NEW c \in Clients, NEW k \in Kinds, EnqueueFind(c, k) PROVE ClaimsNothing
  BY <1>1 DEF EnqueueFind, ClaimsNothing
<1>2. ASSUME NEW c \in Clients, NEW j \in Jobs, EnqueueCreate(c, j) PROVE ClaimsNothing
  BY <1>2 DEF EnqueueCreate, ClaimsNothing
<1>3. ASSUME NEW r \in Runners, ClaimCount(r) PROVE PauseStep
  BY <1>3, <1>a, ClaimCountKeepsPauses
<1>4. ASSUME NEW r \in Runners, ClaimList(r) PROVE PauseStep
  BY <1>4, <1>a, ClaimListKeepsPauses
<1>5. ASSUME NEW r \in Runners, NEW j \in Jobs, ClaimWin(r, j) PROVE PauseStep
  BY <1>5, <1>a, ClaimWinKeepsPauses
<1>6. ASSUME NEW r \in Runners, NEW j \in Jobs, ClaimSkip(r, j) PROVE ClaimsNothing
  <2>1. \A q \in Runners \ {r} : pc'[q] = pc[q] /\ view'[q] = view[q]
    BY <1>6 DEF ClaimSkip
  <2>2. pc'[r] = "idle" \/ (pc'[r] = pc[r] /\ view'[r] = [view[r] EXCEPT !.cands = @ \ {j}])
    BY <1>6 DEF ClaimSkip
  <2>3. pc'[r] # "counted" /\ (pc'[r] = "ready" => pc[r] = "ready" /\ view'[r].cands \subseteq view[r].cands)
    <3>1. pc[r] = "ready" /\ view[r] \in Views
      BY <1>6 DEF ClaimSkip, NextCandidate
    <3>2. PICK v : v = [view[r] EXCEPT !.cands = @ \ {j}]
      OBVIOUS
    <3>3. v.cands = view[r].cands \ {j}
      BY <3>1, <3>2 DEF Views
    <3> QED
      BY <2>2, <3>1, <3>2, <3>3
  <2>4. UNCHANGED <<status, kind, cached>>
    BY <1>6 DEF ClaimSkip
  <2> QED
    BY <2>1, <2>3, <2>4 DEF ClaimsNothing
<1>7. ASSUME NEW r \in Runners, ClaimReadBack(r) PROVE ClaimsNothing
  BY <1>7 DEF ClaimReadBack, ClaimsNothing
<1>8. ASSUME NEW r \in Runners, Complete(r) PROVE ClaimsNothing
  BY <1>8 DEF Complete, ClaimsNothing, Release, GoIdle
<1>9. ASSUME NEW r \in Runners, CompleteAckLost(r) PROVE ClaimsNothing
  BY <1>9 DEF CompleteAckLost, AckLost, ClaimsNothing, Release
<1>32. ASSUME NEW r \in Runners, NEW category \in Categories, FailAckLost(r, category) PROVE ClaimsNothing
  BY <1>32, DecisionStatus DEF FailAckLost, AckLost, ClaimsNothing, Release
<1>33. ASSUME NEW r \in Runners, RescheduleAckLost(r) PROVE ClaimsNothing
  BY <1>33 DEF RescheduleAckLost, AckLost, ClaimsNothing, Release
<1>10. ASSUME NEW r \in Runners, Throw(r) PROVE ClaimsNothing
  BY <1>10 DEF Throw, ClaimsNothing
<1>11. ASSUME NEW r \in Runners, Forget(r) PROVE ClaimsNothing
  BY <1>11 DEF Forget, ClaimsNothing, GoIdle
<1>12. ASSUME NEW r \in Runners, NEW category \in Categories, Fail(r, category) PROVE ClaimsNothing
  BY <1>12, DecisionStatus DEF Fail, ClaimsNothing, Release, GoIdle
<1>13. ASSUME NEW r \in Runners, NEW category \in Categories, FailRefused(r, category) PROVE ClaimsNothing
  BY <1>13 DEF FailRefused, ClaimsNothing, GoIdle
<1>14. ASSUME NEW r \in Runners, Reschedule(r) PROVE ClaimsNothing
  BY <1>14 DEF Reschedule, ClaimsNothing, Release, GoIdle
<1>15. ASSUME NEW r \in Runners, Heartbeat(r) PROVE ClaimsNothing
  BY <1>15 DEF Heartbeat, ClaimsNothing
<1>16. ASSUME NEW j \in Jobs, Lapse(j) PROVE ClaimsNothing
  BY <1>16 DEF Lapse, ClaimsNothing
<1>17. ASSUME NEW w \in Workers, Crash(w) PROVE ClaimsNothing
  BY <1>17 DEF Crash, ClaimsNothing
<1>18. ASSUME NEW w \in Workers, RefreshCache(w) PROVE ClaimsNothing
  BY <1>18 DEF RefreshCache, ClaimsNothing
<1>19. ASSUME RecoverStalled PROVE ClaimsNothing
  BY <1>19 DEF RecoverStalled, ClaimsNothing
<1>20. ASSUME NEW j \in Jobs, BecomeDue(j) PROVE ClaimsNothing
  BY <1>20 DEF BecomeDue, ClaimsNothing
<1>21. ASSUME NEW c \in Clients, NEW j \in Jobs, CancelRead(c, j) PROVE ClaimsNothing
  BY <1>21 DEF CancelRead, ClaimsNothing
<1>22. ASSUME NEW c \in Clients, CancelWrite(c) PROVE ClaimsNothing
  BY <1>22 DEF CancelWrite, ClaimsNothing, Release
<1>23. ASSUME NEW j \in Jobs, Retry(j) PROVE ClaimsNothing
  BY <1>23 DEF Retry, ClaimsNothing, BackToQueue
<1>24. ASSUME NEW c \in Clients, NEW j \in Jobs, RequeueRead(c, j) PROVE ClaimsNothing
  BY <1>24 DEF RequeueRead, ClaimsNothing
<1>25. ASSUME NEW c \in Clients, RequeueWrite(c) PROVE ClaimsNothing
  BY <1>25 DEF RequeueWrite, ClaimsNothing, BackToQueue
<1>26. ASSUME NEW W \in SUBSET Workspaces, RetryFailed(W) PROVE ClaimsNothing
  BY <1>26 DEF RetryFailed, ClaimsNothing, BackToQueue
<1>27. ASSUME NEW s \in Scopes, NEW on \in BOOLEAN, SetPaused(s, on) PROVE ClaimsNothing
  BY <1>27 DEF SetPaused, ClaimsNothing
<1>28. ASSUME NEW c \in Clients, NEW y \in Years, PauseYear(c, y) PROVE ClaimsNothing
  BY <1>28 DEF PauseYear, ClaimsNothing
<1>29. ASSUME NEW c \in Clients, ClearYear(c) PROVE ClaimsNothing
  BY <1>29 DEF ClearYear, ClaimsNothing
<1>30. ASSUME NEW w \in Workspaces, BreakerFlips(w) PROVE ClaimsNothing
  BY <1>30 DEF BreakerFlips, ClaimsNothing
<1>31. ASSUME UNCHANGED vars PROVE ClaimsNothing
  BY <1>31 DEF vars, ClaimsNothing
<1> HIDE DEF Typed, TypeOK, HoldersHoldJobs, HoldingPcs, rows, control, runner
<1> QED
  BY <1>b, <1>1, <1>2, <1>3, <1>4, <1>5, <1>6, <1>7, <1>8, <1>9, <1>10, <1>11, <1>12, <1>13, <1>14, <1>15, <1>16, <1>17, <1>18, <1>19, <1>20, <1>21, <1>22, <1>23, <1>24, <1>25, <1>26, <1>27, <1>28, <1>29, <1>30, <1>31, <1>32, <1>33
     DEF Next, RunnerStep, Claim, Finish, ClientStep, OperatorStep, EnvironmentStep

\* Once every process has read a pause and the claims begun before it are over, no
\* step of anyone (claim, sweep, crash, retry, requeue) starts work of that scope
\* until the pause is lifted: the safety half of PauseDrains.
THEOREM PausesAreKept == Spec => PausesKept
<1>1. Init => Listed
  BY DEF Init, Listed
<1>2. Typed /\ Listed /\ [Next]_vars => Listed'
  BY NextPauses DEF PauseStep
<1>3. Typed /\ Listed /\ [Next]_vars
        => [\A s \in Scopes : Heeded(s) /\ s \in paused' => Heeded(s)' /\ TakesNone(s)]_vars
  BY NextPauses DEF PauseStep
<1> QED
  BY <1>1, <1>2, <1>3, TypedAlways, PTL DEF Spec, PausesKept

=============================================================================

----------------------- MODULE JobQueueLifecycleProofs -----------------------
(***************************************************************************)
(* What JobQueue promises while the fleet is healthy (JobQueueProofs,      *)
(* HealthyFleet), for any number of rows, runners, requests and processes: *)
(* few live rows of one key, settled rows that stay settled, the budget of *)
(* attempts, and the lifecycle of JobLifecycle.                            *)
(***************************************************************************)
EXTENDS JobQueueProofs

-----------------------------------------------------------------------------
(* Keys.  enqueue looks and then inserts, and nothing but the number of     *)
(* requests that overlap limits how many of them have found a key free.     *)

\* The requests about to insert a row of key k.
Creating(k) == {c \in Clients : request[c].op = "create" /\ request[c].kind = k}

\* The live rows of a key and those on their way.
Keyed ==
  \A k \in Kinds : Cardinality(ActiveOf(k)) + Cardinality(Creating(k)) <= Cardinality(Clients)

LEMMA KeySizes ==
  /\ \A S \in SUBSET Jobs : IsFiniteSet(S) /\ Cardinality(S) \in Nat
  /\ \A C \in SUBSET Clients : /\ IsFiniteSet(C) /\ Cardinality(C) \in Nat
                               /\ Cardinality(C) <= Cardinality(Clients)
BY ConstantsAssumption, FS_Subset, FS_CardinalityType

\* But for submissions only live rows change: in a healthy fleet whoever writes a
\* row's status holds it or finds it RUNNING or waiting.
LEMMA NoRowRevives ==
  ASSUME HealthyFleet, Undisturbed, [Next]_vars,
         ~ \E c \in Clients, j \in Jobs : EnqueueCreate(c, j)
  PROVE  kind' = kind /\ \A j \in Jobs : status'[j] # status[j] => status[j] \in Active
<1> DEFINE Goal == kind' = kind /\ \A j \in Jobs : status'[j] # status[j] => status[j] \in Active
           Same == UNCHANGED <<kind, status>>
<1>a. Typed
  BY DEF Undisturbed, Ownership
<1>b. \A r \in Runners, j \in Jobs : Holds(r, j) => status[j] \in Active
  BY DEF Undisturbed, Ownership, UnrevokedClaimOwnsJob, Active
<1>c. \A r \in Runners : pc[r] \in HoldingPcs => status[held[r]] \in Active
  BY <1>a, <1>b DEF Typed, HoldersHoldJobs, Holds
<1> USE <1>a DEF rows, control, runner
<1>1. ASSUME NEW c \in Clients, NEW k \in Kinds, EnqueueFind(c, k) PROVE Same
  BY <1>1 DEF EnqueueFind
<1>3. ASSUME NEW r \in Runners, ClaimCount(r) PROVE Same
  BY <1>3 DEF ClaimCount
<1>4. ASSUME NEW r \in Runners, ClaimList(r) PROVE Same
  BY <1>4 DEF ClaimList
<1>5. ASSUME NEW r \in Runners, NEW j \in Jobs, ClaimWin(r, j) PROVE Goal
  <2>1. status[j] \in Active
    BY <1>5 DEF ClaimWin, Claimable, NextCandidate, Typed, TypeOK, Views, Active
  <2> QED
    BY <1>5, <2>1 DEF ClaimWin, Typed, TypeOK
<1>6. ASSUME NEW r \in Runners, NEW j \in Jobs, ClaimSkip(r, j) PROVE Same
  BY <1>6 DEF ClaimSkip
<1>7. ASSUME NEW r \in Runners, ClaimReadBack(r) PROVE Same
  BY <1>7 DEF ClaimReadBack
<1>8. ASSUME NEW r \in Runners, Complete(r) PROVE Goal
  BY <1>8, <1>c DEF Complete, Release, HoldingPcs, Typed, TypeOK
<1>9. ASSUME NEW r \in Runners, CompleteAckLost(r) PROVE FALSE
  BY <1>9, HealthyFleet DEF CompleteAckLost, AckLost, HealthyFleet
<1>32. ASSUME NEW r \in Runners, NEW category \in Categories, FailAckLost(r, category) PROVE FALSE
  BY <1>32, HealthyFleet DEF FailAckLost, AckLost, HealthyFleet
<1>33. ASSUME NEW r \in Runners, RescheduleAckLost(r) PROVE FALSE
  BY <1>33, HealthyFleet DEF RescheduleAckLost, AckLost, HealthyFleet
<1>10. ASSUME NEW r \in Runners, Throw(r) PROVE Same
  BY <1>10 DEF Throw
<1>11. ASSUME NEW r \in Runners, Forget(r) PROVE Same
  BY <1>11 DEF Forget
<1>12. ASSUME NEW r \in Runners, NEW category \in Categories, Fail(r, category) PROVE Goal
  BY <1>12, <1>c DEF Fail, FailCategories, Release, HoldingPcs, Typed, TypeOK
<1>13. ASSUME NEW r \in Runners, NEW category \in Categories, FailRefused(r, category) PROVE Same
  BY <1>13 DEF FailRefused
<1>14. ASSUME NEW r \in Runners, Reschedule(r) PROVE Goal
  BY <1>14, <1>c DEF Reschedule, Release, HoldingPcs, Typed, TypeOK
<1>15. ASSUME NEW r \in Runners, Heartbeat(r) PROVE Same
  BY <1>15 DEF Heartbeat
<1>16. ASSUME NEW j \in Jobs, Lapse(j) \/ BecomeDue(j) PROVE Same
  BY <1>16 DEF Lapse, BecomeDue
<1>17. ASSUME NEW w \in Workers, Crash(w) \/ RefreshCache(w) PROVE Same
  BY <1>17 DEF Crash, RefreshCache
<1>19. ASSUME RecoverStalled PROVE Goal
  BY <1>19 DEF RecoverStalled, Stalled, Running, Active, Typed, TypeOK
<1>21. ASSUME NEW c \in Clients, NEW j \in Jobs, CancelRead(c, j) \/ RequeueRead(c, j) PROVE Same
  BY <1>21 DEF CancelRead, RequeueRead
<1>22. ASSUME NEW c \in Clients, CancelWrite(c) \/ RequeueWrite(c) PROVE FALSE
  BY <1>22 DEF CancelWrite, RequeueWrite, Undisturbed
<1>23. ASSUME NEW j \in Jobs, Retry(j) PROVE FALSE
  BY <1>23, HealthyFleet DEF Retry, HealthyFleet
<1>26. ASSUME NEW W \in SUBSET Workspaces, RetryFailed(W) PROVE FALSE
  BY <1>26, HealthyFleet DEF RetryFailed, HealthyFleet
<1>27. ASSUME NEW s \in Scopes, NEW on \in BOOLEAN, SetPaused(s, on) PROVE Same
  BY <1>27 DEF SetPaused
<1>28. ASSUME NEW c \in Clients, NEW y \in Years, PauseYear(c, y) PROVE Same
  BY <1>28 DEF PauseYear
<1>29. ASSUME NEW c \in Clients, ClearYear(c) PROVE Goal
  BY <1>29 DEF ClearYear, Active, Typed, TypeOK
<1>30. ASSUME NEW w \in Workspaces, BreakerFlips(w) PROVE Same
  BY <1>30 DEF BreakerFlips
<1>31. ASSUME UNCHANGED vars PROVE Same
  BY <1>31 DEF vars
<1>d. Same => Goal
  OBVIOUS
<1> HIDE DEF Same, Goal
<1>e. Goal
  BY <1>d, <1>1, <1>3, <1>4, <1>5, <1>6, <1>7, <1>8, <1>9, <1>10, <1>11, <1>12, <1>13, <1>14, <1>15,
     <1>16, <1>17, <1>19, <1>21, <1>22, <1>23, <1>26, <1>27, <1>28, <1>29, <1>30, <1>31, <1>32, <1>33
     DEF Next, RunnerStep, Claim, Finish, ClientStep, OperatorStep, EnvironmentStep
<1> QED
  BY <1>e DEF Goal

\* Submissions begin with the look.
LEMMA SubmissionsBegin ==
  ASSUME Typed, [Next]_vars, NEW c \in Clients, request'[c].op = "create",
         ~ \E d \in Clients, j \in Jobs : EnqueueCreate(d, j),
         ~ \E d \in Clients, k \in Kinds : EnqueueFind(d, k)
  PROVE  request'[c] = request[c]
<1> USE DEF Typed, TypeOK, Idle
<1>1. ASSUME NEW d \in Clients, NEW j \in Jobs, CancelRead(d, j) \/ RequeueRead(d, j)
      PROVE  request'[c] = request[c]
  BY <1>1 DEF CancelRead, RequeueRead
<1>2. ASSUME NEW d \in Clients, CancelWrite(d) \/ RequeueWrite(d) \/ ClearYear(d)
      PROVE  request'[c] = request[c]
  BY <1>2 DEF CancelWrite, RequeueWrite, ClearYear
<1>3. ASSUME NEW d \in Clients, NEW y \in Years, PauseYear(d, y)
      PROVE  request'[c] = request[c]
  BY <1>3 DEF PauseYear
<1>4. ASSUME NEW r \in Runners, RunnerStep(r) PROVE request' = request
  BY <1>4 DEF RunnerStep, Claim, Finish, ClaimCount, ClaimList, ClaimWin, ClaimSkip, ClaimReadBack,
       Complete, CompleteAckLost, FailAckLost, RescheduleAckLost, AckLost, Throw, Forget, Fail, FailRefused, Reschedule, Heartbeat
<1>5. CASE RecoverStalled \/ OperatorStep \/ EnvironmentStep
  BY <1>5 DEF RecoverStalled, OperatorStep, EnvironmentStep, Retry, RetryFailed, SetPaused,
       Lapse, BecomeDue, Crash, RefreshCache, BreakerFlips
<1>6. CASE UNCHANGED vars
  BY <1>6 DEF vars
<1> QED
  BY <1>1, <1>2, <1>3, <1>4, <1>5, <1>6 DEF Next, ClientStep

LEMMA InitKeyed == Init => Keyed
<1> SUFFICES ASSUME Init, NEW k \in Kinds
             PROVE  Cardinality(ActiveOf(k)) + Cardinality(Creating(k)) <= Cardinality(Clients)
  BY DEF Keyed
<1>1. ActiveOf(k) = {} /\ Creating(k) \in SUBSET Clients
  BY DEF Init, ActiveOf, Active, Creating
<1> QED
  BY <1>1, KeySizes, FS_EmptySet

\* Rows and requests of a key that only become fewer.
LEMMA FewerOfKey ==
  ASSUME NEW k \in Kinds, ActiveOf(k)' \subseteq ActiveOf(k), Creating(k)' \subseteq Creating(k),
         Cardinality(ActiveOf(k)) + Cardinality(Creating(k)) <= Cardinality(Clients)
  PROVE  Cardinality(ActiveOf(k)') + Cardinality(Creating(k)') <= Cardinality(Clients)
<1>1. ActiveOf(k) \in SUBSET Jobs /\ Creating(k) \in SUBSET Clients
  BY DEF ActiveOf, Creating
<1>2. /\ Cardinality(ActiveOf(k)') <= Cardinality(ActiveOf(k))
      /\ Cardinality(Creating(k)') <= Cardinality(Creating(k))
  BY <1>1, KeySizes, FS_Subset
<1>3. /\ Cardinality(ActiveOf(k)') \in Nat /\ Cardinality(Creating(k)') \in Nat
      /\ Cardinality(ActiveOf(k)) \in Nat /\ Cardinality(Creating(k)) \in Nat
      /\ Cardinality(Clients) \in Nat
  BY <1>1, KeySizes
<1> QED
  BY <1>2, <1>3

\* An insert trades a request for a row; a look that finds none can at worst find
\* every other request about to insert as well.
LEMMA NextKeyed ==
  ASSUME HealthyFleet, Undisturbed, Keyed, [Next]_vars
  PROVE  Keyed'
<1>a. Typed
  BY DEF Undisturbed, Ownership
<1> SUFFICES ASSUME NEW k \in Kinds
             PROVE  Cardinality(ActiveOf(k)') + Cardinality(Creating(k)') <= Cardinality(Clients)
  BY DEF Keyed
<1>b. Cardinality(ActiveOf(k)) + Cardinality(Creating(k)) <= Cardinality(Clients)
  BY DEF Keyed
<1>1. CASE \E c \in Clients, j \in Jobs : EnqueueCreate(c, j)
  <2>1. PICK c \in Clients, j \in Jobs : EnqueueCreate(c, j)
    BY <1>1
  <2> USE <1>a DEF Typed, TypeOK
  <2>2. CASE request[c].kind = k
    <3>1. c \in Creating(k) /\ Creating(k)' = Creating(k) \ {c}
      BY <2>1, <2>2 DEF EnqueueCreate, Creating, Idle
    <3>2. j \notin ActiveOf(k) /\ ActiveOf(k)' = ActiveOf(k) \cup {j}
      BY <2>1, <2>2 DEF EnqueueCreate, ActiveOf, Active
    <3>3. ActiveOf(k) \in SUBSET Jobs /\ Creating(k) \in SUBSET Clients
      BY DEF ActiveOf, Creating
    <3>4. Cardinality(Creating(k)') = Cardinality(Creating(k)) - 1
      BY <3>1, <3>3, KeySizes, FS_RemoveElement
    <3>5. Cardinality(ActiveOf(k)') = Cardinality(ActiveOf(k)) + 1
      BY <3>2, <3>3, KeySizes, FS_AddElement
    <3>6. Cardinality(ActiveOf(k)) \in Nat /\ Cardinality(Creating(k)) \in Nat
      BY <3>3, KeySizes
    <3> QED
      BY <3>4, <3>5, <3>6, <1>b
  <2>3. CASE request[c].kind # k
    <3>1. Creating(k)' \subseteq Creating(k)
      BY <2>1, <2>3 DEF EnqueueCreate, Creating, Idle
    <3>2. ActiveOf(k)' \subseteq ActiveOf(k)
      BY <2>1, <2>3 DEF EnqueueCreate, ActiveOf, Active
    <3> QED
      BY <3>1, <3>2, <1>b, FewerOfKey
  <2> QED
    BY <2>2, <2>3
<1>2. CASE ~ \E c \in Clients, j \in Jobs : EnqueueCreate(c, j)
  <2>1. ActiveOf(k)' \subseteq ActiveOf(k)
    <3>1. kind' = kind /\ \A j \in Jobs : status'[j] # status[j] => status[j] \in Active
      BY <1>2, HealthyFleet, NoRowRevives
    <3> QED
      BY <3>1 DEF ActiveOf
  <2>2. CASE \E d \in Clients, i \in Kinds : EnqueueFind(d, i)
    <3>1. PICK d \in Clients, i \in Kinds : EnqueueFind(d, i)
      BY <2>2
    <3>2. CASE i = k
      <4>1. ActiveOf(k)' = {} /\ Creating(k)' \in SUBSET Clients
        BY <3>1, <3>2, <2>1 DEF EnqueueFind, Creating
      <4> QED
        BY <4>1, KeySizes, FS_EmptySet
    <3>3. CASE i # k
      <4>1. Creating(k)' \subseteq Creating(k)
        BY <3>1, <3>3, <1>a DEF EnqueueFind, Creating, Idle, Typed, TypeOK
      <4> QED
        BY <4>1, <2>1, <1>b, FewerOfKey
    <3> QED
      BY <3>2, <3>3
  <2>3. CASE ~ \E d \in Clients, i \in Kinds : EnqueueFind(d, i)
    <3>1. \A c \in Clients : request'[c].op = "create" => request'[c] = request[c]
      BY <2>3, <1>2, <1>a, SubmissionsBegin
    <3>2. Creating(k)' \subseteq Creating(k)
      BY <3>1 DEF Creating
    <3> QED
      BY <3>2, <2>1, <1>b, FewerOfKey
  <2> QED
    BY <2>2, <2>3
<1> QED
  BY <1>1, <1>2

LEMMA KeyedAlways ==
  ASSUME HealthyFleet
  PROVE  Spec => []Keyed
<1>1. Undisturbed /\ [Next]_vars => Undisturbed'
  BY HealthyFleet, NextUndisturbed
<1>2. Undisturbed /\ Keyed /\ [Next]_vars => Keyed'
  BY HealthyFleet, NextKeyed
<1> QED
  BY <1>1, <1>2, InitUndisturbed, InitKeyed, PTL DEF Spec

\* In a healthy fleet duplicates do not breed: one dedupe key never has more rows
\* queued, running or waiting than requests may overlap (enqueue, queue.service.ts,
\* looks and inserts without a unique key), whatever crashes, retries, sweeps and
\* pauses do to the rows.  Where requests never overlap it has one.
THEOREM DuplicatesAreBounded ==
  ASSUME HealthyFleet
  PROVE  Spec => []DuplicatesBounded
<1>1. Keyed => DuplicatesBounded
  <2> SUFFICES ASSUME Keyed, NEW k \in Kinds
               PROVE  Cardinality(LiveRows(k)) <= Cardinality(Clients)
    BY DEF DuplicatesBounded
  <2>1. LiveRows(k) = ActiveOf(k)
    BY DEF LiveRows, ActiveOf, Active
  <2>2. ActiveOf(k) \in SUBSET Jobs /\ Creating(k) \in SUBSET Clients
    BY DEF ActiveOf, Creating
  <2>3. /\ Cardinality(ActiveOf(k)) \in Nat /\ Cardinality(Creating(k)) \in Nat
        /\ Cardinality(Clients) \in Nat
    BY <2>2, KeySizes
  <2>4. Cardinality(ActiveOf(k)) + Cardinality(Creating(k)) <= Cardinality(Clients)
    BY DEF Keyed
  <2> QED
    BY <2>1, <2>3, <2>4
<1>2. Spec => []Keyed
  BY HealthyFleet, KeyedAlways
<1> QED
  BY <1>1, <1>2, PTL

\* In a healthy fleet a settled row stays as it is: a runner that could overwrite it
\* still holds it, and nothing settles a row under its holder (completeJob and
\* failJob, queue.service.ts, write by id alone; a fleet with hangs breaks this, run
\* queue_zombie).
THEOREM SettledStaysSettled ==
  ASSUME HealthyFleet
  PROVE  Spec => TerminalIsFinal
<1>1. ASSUME Undisturbed, [Next]_vars, NEW j \in Jobs, status[j] \in Terminal
      PROVE  status'[j] = status[j]
  <2>1. status[j] \notin Active /\ status[j] # "ABSENT"
    BY <1>1 DEF Active, Terminal
  <2>2. CASE \E c \in Clients, i \in Jobs : EnqueueCreate(c, i)
    BY <2>1, <2>2, <1>1 DEF EnqueueCreate, Undisturbed, Ownership, Typed, TypeOK
  <2>3. CASE ~ \E c \in Clients, i \in Jobs : EnqueueCreate(c, i)
    BY <2>1, <2>3, <1>1, HealthyFleet, NoRowRevives
  <2> QED
    BY <2>2, <2>3
<1>2. Undisturbed /\ [Next]_vars => [\A j \in Jobs : status[j] \in Terminal => status'[j] = status[j]]_vars
  BY <1>1
<1>3. Undisturbed /\ [Next]_vars => Undisturbed'
  BY HealthyFleet, NextUndisturbed
<1> QED
  BY <1>2, <1>3, InitUndisturbed, PTL DEF Spec, TerminalIsFinal

-----------------------------------------------------------------------------
(* The budget of attempts.  Where nothing throws, what a runner has read of *)
(* its row's count is still true when it decides about a retry, and a row    *)
(* without a holder was left by a crash, which pays for its attempt.         *)

NothingThrown == "throw" \notin Faults

\* A row that waits, or was left RUNNING by a crash, has an attempt to spare.
Spare(j) ==
  status[j] \in {"QUEUED", "RETRY_SCHEDULED"} \/ (status[j] = "RUNNING" /\ \A r \in Runners : ~ Holds(r, j))
    => attempts[j] < MaxAttempts + crashes

Accounts ==
  /\ RetryBudget
  /\ \A j \in Jobs : /\ status[j] = "ABSENT" => attempts[j] = 0
                     /\ Spare(j)
  /\ \A r \in Runners : /\ pc[r] # "failing"
                        /\ pc[r] \in HoldingPcs => attempts[held[r]] >= 1
                        /\ pc[r] = "running" => snap[r] = attempts[held[r]]

LEMMA InitAccounts == Init => Accounts
BY ConstantsAssumption DEF Init, Accounts, RetryBudget, Spare, Holds, HoldingPcs

\* decideRetry retries below the maximum only.
LEMMA DecisionRetries ==
  ASSUME NEW category, NEW n \in Int, Decision(category, n) = "RETRY_SCHEDULED"
  PROVE  n < MaxAttempts
BY ConstantsAssumption DEF Decision

\* The end of an attempt: r's row gets status s and count n.
LEMMA AttemptEnds ==
  ASSUME HealthyFleet, NothingThrown, Undisturbed, Typed', Accounts,
         NEW r \in Runners, pc[r] = "running", NEW s, NEW n \in Int,
         status' = [status EXCEPT ![held[r]] = s],
         attempts' = [attempts EXCEPT ![held[r]] = n],
         n \in 0 .. attempts[held[r]], s # "RUNNING", s # "ABSENT",
         s \in {"QUEUED", "RETRY_SCHEDULED"} => n < MaxAttempts + crashes,
         GoIdle(r), crashes' = crashes
  PROVE  Accounts'
<1>a. Typed /\ held[r] \in Jobs /\ Holds(r, held[r])
  BY DEF Undisturbed, Ownership, Typed, HoldersHoldJobs, HoldingPcs, Holds
<1>b. \A q \in Runners : q # r => held[q] # held[r] \/ pc[q] \notin HoldingPcs
  BY <1>a, SoleHolder DEF Holders, Holds
<1> USE DEF Typed, TypeOK, GoIdle
<1>1. RetryBudget'
  BY <1>a, ConstantsAssumption DEF Accounts, RetryBudget
<1>2. ASSUME NEW j \in Jobs PROVE (status'[j] = "ABSENT" => attempts'[j] = 0) /\ Spare(j)'
  <2>1. CASE j = held[r]
    BY <2>1, <1>a DEF Spare
  <2>2. CASE j # held[r]
    BY <2>2, <1>a DEF Accounts, Spare, Holds, HoldingPcs
  <2> QED
    BY <2>1, <2>2
<1>3. ASSUME NEW q \in Runners
      PROVE  /\ pc'[q] # "failing"
             /\ pc'[q] \in HoldingPcs => attempts'[held'[q]] >= 1
             /\ pc'[q] = "running" => snap'[q] = attempts'[held'[q]]
  <2>1. CASE q = r
    BY <2>1, <1>a DEF HoldingPcs
  <2>2. CASE q # r
    BY <2>2, <1>a, <1>b DEF Accounts, HoldingPcs, HoldersHoldJobs
  <2> QED
    BY <2>1, <2>2
<1> QED
  BY <1>1, <1>2, <1>3 DEF Accounts

LEMMA NextAccounts ==
  ASSUME HealthyFleet, NothingThrown, Undisturbed, Accounts, [Next]_vars
  PROVE  Accounts'
<1> DEFINE Same == UNCHANGED <<status, attempts, pc, held, snap, crashes>>
<1>a. Typed /\ Typed'
  BY NextTyped DEF Undisturbed, Ownership
<1>b. Same => Accounts'
  BY DEF Accounts, RetryBudget, Spare, Holds
<1>c. \A r \in Runners : pc[r] # "failing"
  BY DEF Accounts
<1>d. \A r \in Runners : pc[r] = "running" =>
        /\ held[r] \in Jobs /\ snap[r] = attempts[held[r]] /\ attempts[held[r]] \in Int
        /\ attempts[held[r]] >= 1 /\ attempts[held[r]] <= MaxAttempts + crashes
  BY <1>a, ConstantsAssumption DEF Accounts, HoldingPcs, RetryBudget, Typed, TypeOK, HoldersHoldJobs
<1> USE DEF rows, control, runner
<1>1. ASSUME NEW c \in Clients, NEW k \in Kinds, EnqueueFind(c, k) PROVE Same
  BY <1>1 DEF EnqueueFind
<1>2. ASSUME NEW c \in Clients, NEW j \in Jobs, EnqueueCreate(c, j) PROVE Accounts'
  <2>1. /\ attempts' = attempts /\ pc' = pc /\ held' = held /\ snap' = snap /\ crashes' = crashes
        /\ status[j] = "ABSENT" /\ status' = [status EXCEPT ![j] = "QUEUED"]
    BY <1>2 DEF EnqueueCreate
  <2> QED
    BY <2>1, <1>a, ConstantsAssumption DEF Accounts, RetryBudget, Spare, Holds, Typed, TypeOK
<1>3. ASSUME NEW r \in Runners, ClaimCount(r) PROVE Accounts'
  BY <1>3, <1>a DEF ClaimCount, Accounts, RetryBudget, Spare, Holds, HoldingPcs, Typed, TypeOK
<1>4. ASSUME NEW r \in Runners, ClaimList(r) PROVE Accounts'
  BY <1>4, <1>a DEF ClaimList, Accounts, RetryBudget, Spare, Holds, HoldingPcs, Typed, TypeOK
<1>5. ASSUME NEW r \in Runners, NEW j \in Jobs, ClaimWin(r, j) PROVE Accounts'
  <2>1. /\ status[j] \in {"QUEUED", "RETRY_SCHEDULED"} /\ pc[r] = "ready"
        /\ status' = [status EXCEPT ![j] = "RUNNING"]
        /\ attempts' = [attempts EXCEPT ![j] = @ + 1]
        /\ pc' = [pc EXCEPT ![r] = "won"] /\ held' = [held EXCEPT ![r] = j]
        /\ snap' = snap /\ crashes' = crashes
    BY <1>5, <1>a DEF ClaimWin, Claimable, NextCandidate, Typed, TypeOK, Views
  <2>2. \A q \in Runners : ~ Holds(q, j)
    BY <2>1 DEF Undisturbed, Ownership, UnrevokedClaimOwnsJob
  <2>3. attempts[j] \in 0 .. MaxAttempts + crashes - 1
    BY <2>1, <1>a, ConstantsAssumption DEF Accounts, RetryBudget, Spare, Typed, TypeOK
  <2>4. RetryBudget'
    BY <2>1, <2>3, <1>a, ConstantsAssumption DEF Accounts, RetryBudget, Typed, TypeOK
  <2>5. ASSUME NEW i \in Jobs PROVE (status'[i] = "ABSENT" => attempts'[i] = 0) /\ Spare(i)'
    <3>1. CASE i = j
      BY <3>1, <2>1, <1>a DEF Spare, Holds, HoldingPcs, Typed, TypeOK
    <3>2. CASE i # j
      BY <3>2, <2>1, <1>a DEF Accounts, Spare, Holds, HoldingPcs, Typed, TypeOK
    <3> QED
      BY <3>1, <3>2
  <2>6. ASSUME NEW q \in Runners
        PROVE  /\ pc'[q] # "failing"
               /\ pc'[q] \in HoldingPcs => attempts'[held'[q]] >= 1
               /\ pc'[q] = "running" => snap'[q] = attempts'[held'[q]]
    <3>1. CASE q = r
      BY <3>1, <2>1, <2>3, <1>a DEF HoldingPcs, Typed, TypeOK
    <3>2. CASE q # r
      BY <3>2, <2>1, <2>2, <1>a DEF Accounts, Holds, HoldingPcs, Typed, TypeOK, HoldersHoldJobs
    <3> QED
      BY <3>1, <3>2
  <2> QED
    BY <2>4, <2>5, <2>6 DEF Accounts
<1>6. ASSUME NEW r \in Runners, NEW j \in Jobs, ClaimSkip(r, j) PROVE Accounts'
  BY <1>6, <1>a DEF ClaimSkip, NextCandidate, Accounts, RetryBudget, Spare, Holds, HoldingPcs, Typed, TypeOK
<1>7. ASSUME NEW r \in Runners, ClaimReadBack(r) PROVE Accounts'
  BY <1>7, <1>a DEF ClaimReadBack, Accounts, RetryBudget, Spare, Holds, HoldingPcs, Typed, TypeOK
<1>8. ASSUME NEW r \in Runners, Complete(r) PROVE Accounts'
  <2>1. attempts' = [attempts EXCEPT ![held[r]] = attempts[held[r]]]
    BY <1>8, <1>a DEF Complete, Typed, TypeOK
  <2>2. pc[r] = "running" /\ status' = [status EXCEPT ![held[r]] = "DONE"]
        /\ GoIdle(r) /\ crashes' = crashes
    BY <1>8 DEF Complete, Release
  <2>3. attempts[held[r]] \in Int /\ attempts[held[r]] \in 0 .. attempts[held[r]]
    BY <2>2, <1>a, <1>d DEF Typed, TypeOK
  <2> QED
    BY <2>1, <2>2, <2>3, <1>a, AttemptEnds, HealthyFleet, NothingThrown
<1>9. ASSUME NEW r \in Runners, CompleteAckLost(r) PROVE FALSE
  BY <1>9, HealthyFleet DEF CompleteAckLost, AckLost, HealthyFleet
<1>32. ASSUME NEW r \in Runners, NEW category \in Categories, FailAckLost(r, category) PROVE FALSE
  BY <1>32, HealthyFleet DEF FailAckLost, AckLost, HealthyFleet
<1>33. ASSUME NEW r \in Runners, RescheduleAckLost(r) PROVE FALSE
  BY <1>33, HealthyFleet DEF RescheduleAckLost, AckLost, HealthyFleet
<1>10. ASSUME NEW r \in Runners, Throw(r) \/ Forget(r) PROVE FALSE
  BY <1>10, NothingThrown DEF Throw, Forget, NothingThrown
<1>12. ASSUME NEW r \in Runners, NEW category \in Categories, Fail(r, category) PROVE Accounts'
  <2> DEFINE s == Decision(category, snap[r])
  <2>1. pc[r] = "running"
    BY <1>12, <1>c DEF Fail, FailCategories
  <2>2. attempts' = [attempts EXCEPT ![held[r]] = attempts[held[r]]]
    BY <1>12, <1>a DEF Fail, Typed, TypeOK
  <2>3. s \notin {"RUNNING", "QUEUED", "ABSENT"}
    BY DecisionStatus
  <2>4. s = "RETRY_SCHEDULED" => attempts[held[r]] < MaxAttempts + crashes
    <3>1. s = "RETRY_SCHEDULED" => snap[r] < MaxAttempts
      BY <2>1, <1>d, DecisionRetries
    <3> QED
      BY <3>1, <2>1, <1>d, <1>a, ConstantsAssumption DEF Typed, TypeOK
  <2>5. status' = [status EXCEPT ![held[r]] = s] /\ GoIdle(r) /\ crashes' = crashes
    BY <1>12 DEF Fail, Release
  <2>6. attempts[held[r]] \in Int /\ attempts[held[r]] \in 0 .. attempts[held[r]]
    BY <2>1, <1>a, <1>d DEF Typed, TypeOK
  <2> HIDE DEF s
  <2> QED
    BY <2>1, <2>2, <2>3, <2>4, <2>5, <2>6, <1>a, AttemptEnds, HealthyFleet, NothingThrown
<1>13. ASSUME NEW r \in Runners, NEW category \in Categories, FailRefused(r, category) PROVE FALSE
  BY <1>13, <1>c, <1>d DEF FailRefused, FailCategories, NoBackoff
<1>14. ASSUME NEW r \in Runners, Reschedule(r) PROVE Accounts'
  <2>1. attempts' = [attempts EXCEPT ![held[r]] = attempts[held[r]] - 1]
    BY <1>14, <1>a DEF Reschedule, Typed, TypeOK
  <2>2. pc[r] = "running" /\ status' = [status EXCEPT ![held[r]] = "RETRY_SCHEDULED"]
        /\ GoIdle(r) /\ crashes' = crashes
    BY <1>14 DEF Reschedule, Release
  <2>3. /\ attempts[held[r]] - 1 \in Int
        /\ attempts[held[r]] - 1 \in 0 .. attempts[held[r]]
        /\ attempts[held[r]] - 1 < MaxAttempts + crashes
    BY <2>2, <1>a, <1>d, ConstantsAssumption DEF Typed, TypeOK
  <2> QED
    BY <2>1, <2>2, <2>3, <1>a, AttemptEnds, HealthyFleet, NothingThrown
<1>15. ASSUME NEW r \in Runners, Heartbeat(r) PROVE Same
  BY <1>15 DEF Heartbeat
<1>16. ASSUME NEW j \in Jobs, Lapse(j) \/ BecomeDue(j) PROVE Same
  BY <1>16 DEF Lapse, BecomeDue
<1>17. ASSUME NEW w \in Workers, Crash(w) PROVE Accounts'
  <2>1. /\ status' = status /\ attempts' = attempts /\ crashes' = crashes + 1
        /\ \A q \in Runners : pc'[q] = "idle" \/ (pc'[q] = pc[q] /\ held'[q] = held[q] /\ snap'[q] = snap[q])
    BY <1>17 DEF Crash
  <2>2. \A j \in Jobs : attempts[j] \in 0 .. MaxAttempts + crashes
    BY DEF Accounts, RetryBudget
  <2>3. crashes \in Nat /\ attempts \in [Jobs -> Int]
    BY <1>a DEF Typed, TypeOK
  <2>4. RetryBudget' /\ \A j \in Jobs : Spare(j)'
    BY <2>1, <2>2, <2>3, ConstantsAssumption DEF RetryBudget, Spare
  <2> QED
    BY <2>1, <2>4 DEF Accounts, HoldingPcs
<1>18. ASSUME NEW w \in Workers, RefreshCache(w) PROVE Same
  BY <1>18 DEF RefreshCache
<1>19. ASSUME RecoverStalled PROVE Accounts'
  <2>1. \A j \in Stalled : status[j] = "RUNNING" /\ \A r \in Runners : ~ Holds(r, j)
    BY DEF Stalled, Running, Undisturbed, Holders
  <2>2. /\ status' = [j \in Jobs |-> IF j \in Stalled THEN "RETRY_SCHEDULED" ELSE status[j]]
        /\ attempts' = attempts /\ pc' = pc /\ held' = held /\ snap' = snap /\ crashes' = crashes
    BY <1>19 DEF RecoverStalled
  <2> QED
    BY <2>1, <2>2 DEF Accounts, RetryBudget, Spare, Holds
<1>21. ASSUME NEW c \in Clients, NEW j \in Jobs, CancelRead(c, j) \/ RequeueRead(c, j) PROVE Same
  BY <1>21 DEF CancelRead, RequeueRead
<1>22. ASSUME NEW c \in Clients, CancelWrite(c) \/ RequeueWrite(c) PROVE FALSE
  BY <1>22 DEF CancelWrite, RequeueWrite, Undisturbed
<1>23. ASSUME NEW j \in Jobs, Retry(j) PROVE FALSE
  BY <1>23, HealthyFleet DEF Retry, HealthyFleet
<1>26. ASSUME NEW W \in SUBSET Workspaces, RetryFailed(W) PROVE FALSE
  BY <1>26, HealthyFleet DEF RetryFailed, HealthyFleet
<1>27. ASSUME NEW s \in Scopes, NEW on \in BOOLEAN, SetPaused(s, on) PROVE Same
  BY <1>27 DEF SetPaused
<1>28. ASSUME NEW c \in Clients, NEW y \in Years, PauseYear(c, y) PROVE Same
  BY <1>28 DEF PauseYear
<1>29. ASSUME NEW c \in Clients, ClearYear(c) PROVE Accounts'
  <2>1. /\ \A j \in Jobs : status'[j] \in {status[j], "CANCELLED"}
        /\ attempts' = attempts /\ pc' = pc /\ held' = held /\ snap' = snap /\ crashes' = crashes
    BY <1>29 DEF ClearYear
  <2> QED
    BY <2>1 DEF Accounts, RetryBudget, Spare, Holds
<1>30. ASSUME NEW w \in Workspaces, BreakerFlips(w) PROVE Same
  BY <1>30 DEF BreakerFlips
<1>31. ASSUME UNCHANGED vars PROVE Same
  BY <1>31 DEF vars
<1> HIDE DEF Same
<1> QED
  BY <1>b, <1>1, <1>2, <1>3, <1>4, <1>5, <1>6, <1>7, <1>8, <1>9, <1>10, <1>12, <1>13, <1>14, <1>15,
     <1>16, <1>17, <1>18, <1>19, <1>21, <1>22, <1>23, <1>26, <1>27, <1>28, <1>29, <1>30, <1>31, <1>32, <1>33
     DEF Next, RunnerStep, Claim, Finish, ClientStep, OperatorStep, EnvironmentStep

\* In a healthy fleet where nothing is thrown a job is attempted at most MaxAttempts
\* times and once more for every crash, and giving attempts back never takes the count
\* below zero (decideRetry, retry.ts, and attemptCount in queue.service.ts).
THEOREM AttemptsAreBudgeted ==
  ASSUME HealthyFleet, NothingThrown
  PROVE  Spec => []RetryBudget
<1>1. Undisturbed /\ [Next]_vars => Undisturbed'
  BY HealthyFleet, NextUndisturbed
<1>2. Undisturbed /\ Accounts /\ [Next]_vars => Accounts'
  BY HealthyFleet, NothingThrown, NextAccounts
<1>3. Accounts => RetryBudget
  BY DEF Accounts
<1> QED
  BY <1>1, <1>2, <1>3, InitUndisturbed, InitAccounts, PTL DEF Spec

-----------------------------------------------------------------------------
(* The lifecycle.  In a healthy fleet the owner of a job is the one runner   *)
(* that holds it, so every write of the queue is a step of JobLifecycle.     *)

LEMMA PhaseOfStatus ==
  ASSUME NEW s \in Statuses
  PROVE  /\ Phase(s) = "absent"  <=> s = "ABSENT"
         /\ Phase(s) = "waiting" <=> s \in {"QUEUED", "RETRY_SCHEDULED"}
         /\ Phase(s) = "working" <=> s = "RUNNING"
         /\ Phase(s) = "settled" <=> s \in Terminal
<1>1. CASE s = "ABSENT"
  BY <1>1 DEF Phase, Terminal
<1>2. CASE s \in {"QUEUED", "RETRY_SCHEDULED"}
  BY <1>2 DEF Phase, Terminal
<1>3. CASE s = "RUNNING"
  BY <1>3 DEF Phase, Terminal
<1>4. CASE s \in Terminal
  BY <1>4 DEF Phase, Terminal
<1> QED
  BY <1>1, <1>2, <1>3, <1>4 DEF Statuses, Active

LEMMA PhaseConstants ==
  /\ Phase("ABSENT") = "absent" /\ Phase("RUNNING") = "working" /\ Phase("CANCELLED") = "settled"
  /\ Phase("QUEUED") = "waiting" /\ Phase("RETRY_SCHEDULED") = "waiting"
BY PhaseOfStatus DEF Statuses, Active, Terminal

\* The owner of a job is its holder.
HoldersOwn ==
  \A j \in Jobs : /\ OwnerBar[j] \in Runners \cup {NoWorker}
                  /\ \A r \in Runners : OwnerBar[j] = r <=> Holds(r, j)

LEMMA UndisturbedOwners == Undisturbed => HoldersOwn
<1> SUFFICES ASSUME Undisturbed, NEW j \in Jobs
             PROVE  /\ OwnerBar[j] \in Runners \cup {NoWorker}
                    /\ \A r \in Runners : OwnerBar[j] = r <=> Holds(r, j)
  BY DEF HoldersOwn
<1>1. Owners(j) = Holders(j)
  BY DEF Owners, Undisturbed
<1>2. CASE Holders(j) = {}
  BY <1>1, <1>2, ConstantsAssumption DEF OwnerBar, Holders
<1>3. CASE Holders(j) # {}
  <2>1. PICK r \in Runners : Holds(r, j)
    BY <1>3 DEF Holders
  <2>2. Holders(j) = {r}
    BY <2>1, SoleHolder
  <2>3. OwnerBar[j] = r
    BY <1>1, <2>2 DEF OwnerBar
  <2> QED
    BY <2>1, <2>2, <2>3 DEF Holders
<1> QED
  BY <1>2, <1>3

LEMMA UndisturbedOwnersNext == Undisturbed' => HoldersOwn'
BY UndisturbedOwners, PTL

\* A write that leaves statuses and holders alone is not seen.
LEMMA Unseen ==
  ASSUME HoldersOwn, HoldersOwn', status' = status, kind' = kind,
         \A r \in Runners, j \in Jobs : Holds(r, j)' <=> Holds(r, j)
  PROVE  UNCHANGED Lifecycle!vars
<1>1. PhaseBar' = PhaseBar
  BY DEF PhaseBar
<1>2. \A j \in Jobs : OwnerBar'[j] = OwnerBar[j]
  BY DEF HoldersOwn
<1>3. OwnerBar' = OwnerBar
  BY <1>2 DEF OwnerBar
<1> QED
  BY <1>1, <1>3 DEF Lifecycle!vars

\* A holder's last write settles the job or gives it back.
LEMMA HolderEnds ==
  ASSUME Typed, HoldersOwn, HoldersOwn', NEW r \in Runners, NEW i \in Jobs, Holds(r, i),
         NEW s \in Terminal \cup {"RETRY_SCHEDULED"},
         status' = [status EXCEPT ![i] = s], kind' = kind,
         \A q \in Runners, j \in Jobs : Holds(q, j)' <=> Holds(q, j) /\ q # r
  PROVE  Lifecycle!Next
<1>1. \A q \in Runners : Holds(q, i) <=> q = r
  BY DEF HoldersOwn
<1>2. \A j \in Jobs : OwnerBar'[j] = IF j = i THEN NoWorker ELSE OwnerBar[j]
  BY <1>1 DEF HoldersOwn, Holds
<1>3. OwnerBar' = [OwnerBar EXCEPT ![i] = NoWorker]
  BY <1>2 DEF OwnerBar
<1>4. PhaseBar' = [PhaseBar EXCEPT ![i] = Phase(s)]
  BY DEF PhaseBar, Typed, TypeOK
<1>5. OwnerBar[i] # NoWorker
  BY ConstantsAssumption DEF HoldersOwn
<1>6. Phase(s) \in {"settled", "waiting"}
  BY PhaseOfStatus DEF Statuses, Active
<1>7. Lifecycle!Settle(i) \/ Lifecycle!GiveBack(i)
  BY <1>3, <1>4, <1>5, <1>6 DEF Lifecycle!Settle, Lifecycle!GiveBack
<1> QED
  BY <1>7 DEF Lifecycle!Next

\* Runners that go are lost with what they hold.
LEMMA HoldersLost ==
  ASSUME HoldersOwn, HoldersOwn', NEW R \in SUBSET Runners, status' = status, kind' = kind,
         \A q \in Runners, j \in Jobs : Holds(q, j)' <=> Holds(q, j) /\ q \notin R
  PROVE  [Lifecycle!Next]_(Lifecycle!vars)
<1>1. CASE \A q \in R, j \in Jobs : ~ Holds(q, j)
  BY <1>1, Unseen
<1>2. CASE \E q \in R, j \in Jobs : Holds(q, j)
  <2>1. \E q \in R : Lifecycle!Owned(q) # {}
    BY <1>2 DEF HoldersOwn, Lifecycle!Owned
  <2>2. \A j \in Jobs : OwnerBar'[j] = IF OwnerBar[j] \in R THEN NoWorker ELSE OwnerBar[j]
    BY DEF HoldersOwn
  <2>3. OwnerBar' = [j \in Jobs |-> IF OwnerBar[j] \in R THEN NoWorker ELSE OwnerBar[j]]
    BY <2>2 DEF OwnerBar
  <2>4. PhaseBar' = PhaseBar
    BY DEF PhaseBar
  <2>5. Lifecycle!Abandon(R)
    BY <2>1, <2>3, <2>4 DEF Lifecycle!Abandon
  <2> QED
    BY <2>5 DEF Lifecycle!Next
<1> QED
  BY <1>1, <1>2

LEMMA InitLifecycle == Init => Lifecycle!Init
<1> SUFFICES ASSUME Init PROVE Lifecycle!Init
  OBVIOUS
<1>1. Undisturbed /\ Typed
  BY InitUndisturbed DEF Undisturbed, Ownership
<1>2. PhaseBar = [j \in Jobs |-> "absent"]
  BY PhaseConstants DEF Init, PhaseBar
<1>3. \A r \in Runners, j \in Jobs : ~ Holds(r, j)
  BY DEF Init, Holds, HoldingPcs
<1>4. OwnerBar = [j \in Jobs |-> NoWorker]
  BY <1>3 DEF OwnerBar, Owners, Holders
<1>5. kind \in [Jobs -> Kinds]
  BY <1>1 DEF Typed, TypeOK
<1> QED
  BY <1>2, <1>4, <1>5 DEF Lifecycle!Init

\* The insert: one of the requests that may overlap, so its key has fewer live rows
\* than those.
LEMMA SubmitsJob ==
  ASSUME Typed, HoldersOwn, HoldersOwn', Keyed,
         NEW c \in Clients, NEW j \in Jobs, EnqueueCreate(c, j)
  PROVE  Lifecycle!Next
<1> DEFINE k == request[c].kind
<1>1. k \in Kinds /\ c \in Creating(k)
  BY RequestFields DEF EnqueueCreate, Creating, Typed
<1>2. Phase(status[j]) = "absent"
  BY PhaseConstants DEF EnqueueCreate
<1> DEFINE S == {j} \cup {i \in Jobs : Lifecycle!Live(i) /\ kind[i] = k}
<1>3. S \in SUBSET Jobs /\ Cardinality(S) <= Cardinality(Clients)
  <2>1. \A i \in Jobs : Phase(status[i]) \in {"waiting", "working"} <=> status[i] \in Active
    BY PhaseOfStatus DEF Typed, TypeOK, Active
  <2>2. {i \in Jobs : Lifecycle!Live(i) /\ kind[i] = k} = ActiveOf(k)
    BY <2>1 DEF ActiveOf, Lifecycle!Live, PhaseBar
  <2>3. /\ ActiveOf(k) \in SUBSET Jobs /\ Creating(k) \in SUBSET Clients
        /\ j \notin ActiveOf(k) /\ S = ActiveOf(k) \cup {j}
    BY <2>2 DEF ActiveOf, Creating, EnqueueCreate, Active
  <2>4. /\ Cardinality(ActiveOf(k)) \in Nat /\ Cardinality(Creating(k)) \in Nat
        /\ Cardinality(Clients) \in Nat
    BY <2>3, KeySizes
  <2>5. Cardinality(Creating(k)) # 0
    BY <2>3, <1>1, KeySizes, FS_EmptySet
  <2>6. Cardinality(ActiveOf(k)) + Cardinality(Creating(k)) <= Cardinality(Clients)
    BY <1>1 DEF Keyed
  <2>7. Cardinality(S) = Cardinality(ActiveOf(k)) + 1
    BY <2>3, KeySizes, FS_AddElement
  <2> HIDE DEF S
  <2> QED
    BY <2>3, <2>4, <2>5, <2>6, <2>7
<1>4. PhaseBar' = [PhaseBar EXCEPT ![j] = "waiting"]
  BY PhaseConstants DEF EnqueueCreate, PhaseBar, Typed, TypeOK
<1>5. OwnerBar' = OwnerBar
  <2>1. \A i \in Jobs : OwnerBar'[i] = OwnerBar[i]
    BY DEF HoldersOwn, EnqueueCreate, runner, Holds
  <2> QED
    BY <2>1 DEF OwnerBar
<1>6. kind' = [kind EXCEPT ![j] = k]
  BY DEF EnqueueCreate
<1> HIDE DEF k
<1>7. Lifecycle!Submit(j, k)
  BY <1>2, <1>3, <1>4, <1>5, <1>6 DEF Lifecycle!Submit, PhaseBar
<1> QED
  BY <1>1, <1>7 DEF Lifecycle!Next

LEMMA TakesJob ==
  ASSUME Typed, HoldersOwn, HoldersOwn', NEW r \in Runners, NEW j \in Jobs, ClaimWin(r, j)
  PROVE  Lifecycle!Next
<1>1. /\ status[j] \in {"QUEUED", "RETRY_SCHEDULED"} /\ pc[r] = "ready"
      /\ status' = [status EXCEPT ![j] = "RUNNING"] /\ kind' = kind
      /\ pc' = [pc EXCEPT ![r] = "won"] /\ held' = [held EXCEPT ![r] = j]
  BY DEF ClaimWin, Claimable, NextCandidate, Typed, TypeOK, Views
<1>2. Phase(status[j]) = "waiting" /\ Phase("RUNNING") = "working"
  BY <1>1, PhaseConstants
<1>3. PhaseBar' = [PhaseBar EXCEPT ![j] = "working"]
  BY <1>1, <1>2 DEF PhaseBar, Typed, TypeOK
<1>4. Lifecycle!Owned(r) = {}
  BY <1>1 DEF HoldersOwn, Lifecycle!Owned, Holds, HoldingPcs
<1>5. \A i \in Jobs : OwnerBar'[i] = IF i = j THEN r ELSE OwnerBar[i]
  <2>1. Holds(r, j)'
    BY <1>1 DEF Holds, HoldingPcs, Typed, TypeOK
  <2>2. \A q \in Runners, i \in Jobs : i # j => (Holds(q, i)' <=> Holds(q, i))
    BY <1>1 DEF Holds, HoldingPcs, Typed, TypeOK
  <2> QED
    BY <2>1, <2>2 DEF HoldersOwn
<1>6. OwnerBar' = [OwnerBar EXCEPT ![j] = r]
  BY <1>5 DEF OwnerBar
<1>7. Lifecycle!Take(r, j)
  BY <1>1, <1>2, <1>3, <1>4, <1>6 DEF Lifecycle!Take, PhaseBar
<1> QED
  BY <1>7 DEF Lifecycle!Next

\* The sweep finds rows whose holders are gone; switching a year off, waiting rows.
LEMMA ReclaimsJobs ==
  ASSUME Undisturbed, HoldersOwn, HoldersOwn', RecoverStalled
  PROVE  Lifecycle!Next
<1>1. \A j \in Stalled : j \in Jobs /\ Phase(status[j]) = "working" /\ OwnerBar[j] = NoWorker
  BY PhaseConstants DEF Stalled, Running, Undisturbed, Holders, HoldersOwn
<1>3. PhaseBar' = [j \in Jobs |-> IF j \in Stalled THEN "waiting" ELSE PhaseBar[j]]
  BY PhaseConstants DEF RecoverStalled, PhaseBar
<1>4. OwnerBar' = OwnerBar
  <2>1. \A i \in Jobs : OwnerBar'[i] = OwnerBar[i]
    BY DEF HoldersOwn, RecoverStalled, Holds
  <2> QED
    BY <2>1 DEF OwnerBar
<1>5. Lifecycle!Reclaim(Stalled)
  BY <1>1, <1>3, <1>4 DEF Lifecycle!Reclaim, RecoverStalled, PhaseBar
<1> QED
  BY <1>1, <1>5 DEF Lifecycle!Next

LEMMA WithdrawsJobs ==
  ASSUME Typed, HoldersOwn, HoldersOwn', NEW c \in Clients, ClearYear(c)
  PROVE  Lifecycle!Next
<1> DEFINE S == {j \in Jobs : /\ status[j] \in {"QUEUED", "RETRY_SCHEDULED"}
                              /\ request[c].scope \in ScopesOf[kind[j]]}
<1>1. \A j \in S : j \in Jobs /\ Phase(status[j]) = "waiting"
  BY PhaseConstants
<1>3. status' = [j \in Jobs |-> IF j \in S THEN "CANCELLED" ELSE status[j]]
  BY DEF ClearYear
<1>4. OwnerBar' = OwnerBar
  <2>1. \A i \in Jobs : OwnerBar'[i] = OwnerBar[i]
    BY DEF HoldersOwn, ClearYear, runner, Holds
  <2> QED
    BY <2>1 DEF OwnerBar
<1>5. kind' = kind
  BY DEF ClearYear
<1> HIDE DEF S
<1>6. PhaseBar' = [j \in Jobs |-> IF j \in S THEN "settled" ELSE PhaseBar[j]]
  BY <1>3, PhaseConstants DEF PhaseBar
<1>7. Lifecycle!Withdraw(S)
  BY <1>1, <1>4, <1>5, <1>6 DEF Lifecycle!Withdraw, PhaseBar
<1> QED
  BY <1>1, <1>7 DEF Lifecycle!Next

LEMMA NextLifecycle ==
  ASSUME HealthyFleet, Undisturbed, Undisturbed', Keyed, [Next]_vars
  PROVE  [Lifecycle!Next]_(Lifecycle!vars)
<1> DEFINE Goal == [Lifecycle!Next]_(Lifecycle!vars)
           Same == /\ UNCHANGED <<status, kind>>
                   /\ \A r \in Runners, j \in Jobs : Holds(r, j)' <=> Holds(r, j)
           Lost(R) == /\ UNCHANGED <<status, kind>>
                      /\ \A q \in Runners, j \in Jobs : Holds(q, j)' <=> Holds(q, j) /\ q \notin R
           Ended(r, s) == /\ Holds(r, held[r])
                          /\ status' = [status EXCEPT ![held[r]] = s] /\ kind' = kind
                          /\ \A q \in Runners, j \in Jobs : Holds(q, j)' <=> Holds(q, j) /\ q # r
<1>a. Typed /\ HoldersOwn /\ HoldersOwn'
  BY UndisturbedOwners, UndisturbedOwnersNext DEF Undisturbed, Ownership
<1>b. Same => Goal
  BY <1>a, Unseen
<1>c. ASSUME NEW R \in SUBSET Runners, Lost(R) PROVE Goal
  BY <1>a, <1>c, HoldersLost
<1>d. ASSUME NEW r \in Runners, NEW s \in Terminal \cup {"RETRY_SCHEDULED"}, Ended(r, s) PROVE Goal
  <2>1. held[r] \in Jobs
    BY <1>a, <1>d DEF Holds, Typed, HoldersHoldJobs
  <2> QED
    BY <2>1, <1>a, <1>d, HolderEnds
<1> USE <1>a DEF Typed, TypeOK, HoldingPcs, Holds, rows, control, runner
<1>1. ASSUME NEW c \in Clients, NEW k \in Kinds, EnqueueFind(c, k) PROVE Same
  BY <1>1 DEF EnqueueFind
<1>2. ASSUME NEW c \in Clients, NEW j \in Jobs, EnqueueCreate(c, j) PROVE Goal
  BY <1>2, SubmitsJob
<1>3. ASSUME NEW r \in Runners, ClaimCount(r) PROVE Same
  BY <1>3 DEF ClaimCount
<1>4. ASSUME NEW r \in Runners, ClaimList(r) PROVE Same
  BY <1>4 DEF ClaimList
<1>5. ASSUME NEW r \in Runners, NEW j \in Jobs, ClaimWin(r, j) PROVE Goal
  BY <1>5, TakesJob
<1>6. ASSUME NEW r \in Runners, NEW j \in Jobs, ClaimSkip(r, j) PROVE Same
  BY <1>6 DEF ClaimSkip, NextCandidate
<1>7. ASSUME NEW r \in Runners, ClaimReadBack(r) PROVE Same
  BY <1>7 DEF ClaimReadBack
<1>8. ASSUME NEW r \in Runners, Complete(r) PROVE Goal
  <2>1. Ended(r, "DONE")
    BY <1>8 DEF Complete, Release, GoIdle
  <2> QED
    BY <2>1, <1>d DEF Terminal
<1>9. ASSUME NEW r \in Runners, CompleteAckLost(r) PROVE FALSE
  BY <1>9, HealthyFleet DEF CompleteAckLost, AckLost, HealthyFleet
<1>32. ASSUME NEW r \in Runners, NEW category \in Categories, FailAckLost(r, category) PROVE FALSE
  BY <1>32, HealthyFleet DEF FailAckLost, AckLost, HealthyFleet
<1>33. ASSUME NEW r \in Runners, RescheduleAckLost(r) PROVE FALSE
  BY <1>33, HealthyFleet DEF RescheduleAckLost, AckLost, HealthyFleet
<1>10. ASSUME NEW r \in Runners, Throw(r) PROVE Same
  BY <1>10 DEF Throw
<1>11. ASSUME NEW r \in Runners, Forget(r) PROVE Goal
  <2>1. Lost({r})
    BY <1>11 DEF Forget, GoIdle
  <2> QED
    BY <2>1, <1>c
<1>12. ASSUME NEW r \in Runners, NEW category \in Categories, Fail(r, category) PROVE Goal
  <2> DEFINE s == Decision(category, snap[r])
  <2>1. s \in Terminal \cup {"RETRY_SCHEDULED"}
    BY DecisionStatus DEF Statuses, Active
  <2>2. Ended(r, s)
    BY <1>12 DEF Fail, FailCategories, Release, GoIdle
  <2> HIDE DEF s
  <2> QED
    BY <2>1, <2>2, <1>d
<1>13. ASSUME NEW r \in Runners, NEW category \in Categories, FailRefused(r, category) PROVE Goal
  <2>1. Same \/ Lost({r})
    BY <1>13 DEF FailRefused, FailCategories, GoIdle
  <2> QED
    BY <2>1, <1>b, <1>c
<1>14. ASSUME NEW r \in Runners, Reschedule(r) PROVE Goal
  <2>1. Ended(r, "RETRY_SCHEDULED")
    BY <1>14 DEF Reschedule, Release, GoIdle
  <2> QED
    BY <2>1, <1>d
<1>15. ASSUME NEW r \in Runners, Heartbeat(r) PROVE Same
  BY <1>15 DEF Heartbeat
<1>16. ASSUME NEW j \in Jobs, Lapse(j) \/ BecomeDue(j) PROVE Same
  BY <1>16 DEF Lapse, BecomeDue
<1>17. ASSUME NEW w \in Workers, Crash(w) PROVE Goal
  <2> DEFINE lost == {r \in Runners : WorkerOf[r] = w}
  <2>1. Lost(lost)
    BY <1>17 DEF Crash
  <2> QED
    BY <2>1, <1>c
<1>18. ASSUME NEW w \in Workers, RefreshCache(w) PROVE Same
  BY <1>18 DEF RefreshCache
<1>19. ASSUME RecoverStalled PROVE Goal
  BY <1>19, ReclaimsJobs
<1>21. ASSUME NEW c \in Clients, NEW j \in Jobs, CancelRead(c, j) \/ RequeueRead(c, j) PROVE Same
  BY <1>21 DEF CancelRead, RequeueRead
<1>22. ASSUME NEW c \in Clients, CancelWrite(c) \/ RequeueWrite(c) PROVE FALSE
  BY <1>22 DEF CancelWrite, RequeueWrite, Undisturbed
<1>23. ASSUME NEW j \in Jobs, Retry(j) PROVE FALSE
  BY <1>23, HealthyFleet DEF Retry, HealthyFleet
<1>26. ASSUME NEW W \in SUBSET Workspaces, RetryFailed(W) PROVE FALSE
  BY <1>26, HealthyFleet DEF RetryFailed, HealthyFleet
<1>27. ASSUME NEW s \in Scopes, NEW on \in BOOLEAN, SetPaused(s, on) PROVE Same
  BY <1>27 DEF SetPaused
<1>28. ASSUME NEW c \in Clients, NEW y \in Years, PauseYear(c, y) PROVE Same
  BY <1>28 DEF PauseYear
<1>29. ASSUME NEW c \in Clients, ClearYear(c) PROVE Goal
  BY <1>29, WithdrawsJobs
<1>30. ASSUME NEW w \in Workspaces, BreakerFlips(w) PROVE Same
  BY <1>30 DEF BreakerFlips
<1>31. ASSUME UNCHANGED vars PROVE Same
  BY <1>31 DEF vars
<1> HIDE DEF Typed, TypeOK, HoldingPcs, Holds, rows, control, runner, Same, Goal, Lost, Ended
<1>e. Goal
  BY <1>b, <1>1, <1>2, <1>3, <1>4, <1>5, <1>6, <1>7, <1>8, <1>9, <1>10, <1>11, <1>12, <1>13, <1>14, <1>15,
     <1>16, <1>17, <1>18, <1>19, <1>21, <1>22, <1>23, <1>26, <1>27, <1>28, <1>29, <1>30, <1>31, <1>32, <1>33
     DEF Next, RunnerStep, Claim, Finish, ClientStep, OperatorStep, EnvironmentStep
<1> QED
  BY <1>e DEF Goal

\* In a healthy fleet the queue implements JobLifecycle: one runner per job, no way
\* back from a settled job, no take-over from a live owner, no more live jobs of one
\* key than requests that may overlap (SyncJob's status and lock columns, claimNext,
\* completeJob, failJob, rescheduleJob and recoverStalled of queue.service.ts).
THEOREM QueueImplementsLifecycle ==
  ASSUME HealthyFleet
  PROVE  Spec => ImplementsLifecycle
<1>1. Undisturbed /\ [Next]_vars => Undisturbed'
  BY HealthyFleet, NextUndisturbed
<1>2. Undisturbed /\ Undisturbed' /\ Keyed /\ [Next]_vars => [Lifecycle!Next]_(Lifecycle!vars)
  BY HealthyFleet, NextLifecycle
<1>3. Spec => []Keyed
  BY HealthyFleet, KeyedAlways
<1> QED
  BY <1>1, <1>2, <1>3, InitUndisturbed, InitLifecycle, PTL DEF Spec, ImplementsLifecycle, Lifecycle!Spec
=============================================================================

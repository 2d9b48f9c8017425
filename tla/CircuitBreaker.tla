--------------------------- MODULE CircuitBreaker ---------------------------
(***************************************************************************)
(* The circuit breaker of one workspace: the shared row that decides       *)
(* whether claimNext may take the workspace's jobs (canRequest), and that  *)
(* the handlers of all processes update when a FastTest call has ended     *)
(* (recordSuccess, recordFailure).                                         *)
(*                                                                         *)
(* Every operation reads the row, awaits, and writes what it computed from *)
(* that copy, without a guard: each is two steps here, with what it read   *)
(* in `copyOf'. Creating the missing row is idempotent (INSERT IGNORE), so the *)
(* row exists from the start.                                              *)
(***************************************************************************)
EXTENDS Integers

CONSTANTS
  Reporters,   \* runners: each asks canRequest and records how its call ended
  FailureThreshold, TimeoutThreshold, AuthThreshold, \* CIRCUIT_*_THRESHOLD
  HalfOpenProbes                                     \* CIRCUIT_HALFOPEN_PROBES

ASSUME BreakerAssumption ==
  /\ FailureThreshold \in Nat \ {0}
  /\ TimeoutThreshold \in Nat \ {0}
  /\ AuthThreshold \in Nat \ {0}
  /\ HalfOpenProbes \in Nat \ {0}

VARIABLES
  state,     \* CLOSED, OPEN or HALF_OPEN
  failures,  \* failureCount, saturated at FailureThreshold
  successes, \* successCount
  probeAt,   \* nextProbeAt: null, still ahead, or reached
  up,        \* whether FastTest answers this workspace's calls
  stage,        \* where each runner is
  copyOf       \* the copy of the row its operation works on

breakerRow  == <<state, failures, successes, probeAt>>
breakerVars == <<state, failures, successes, probeAt, up, stage, copyOf>>

States     == {"CLOSED", "OPEN", "HALF_OPEN"}
\* OTHER stands for rate limits, network and server errors; the infrastructure
\* and single-registration categories are ignored (DataError).
Categories == {"TIMEOUT", "AUTHENTICATION", "OTHER"}
RowCopies     == [state : States, failures : Nat, successes : Nat]

Copy == [state |-> state, failures |-> failures, successes |-> successes]

BreakerTypeOK ==
  /\ state \in States
  /\ failures \in Nat
  /\ successes \in Nat
  /\ probeAt \in {"null", "ahead", "reached"}
  /\ up \in BOOLEAN
  /\ stage \in [Reporters -> {"idle", "probing", "calling", "succeeded", "failed"}]
  /\ copyOf \in [Reporters -> RowCopies]

BreakerInit ==
  /\ state = "CLOSED" /\ failures = 0 /\ successes = 0 /\ probeAt = "null"
  /\ up = TRUE
  /\ stage = [r \in Reporters |-> "idle"]
  /\ copyOf = [r \in Reporters |-> Copy]

Enters(r, where) == stage' = [stage EXCEPT ![r] = where]
\* The copy is of no use once an operation has ended.
Forget(r) == copyOf' = [copyOf EXCEPT ![r] = [state |-> "CLOSED", failures |-> 0, successes |-> 0]]

-----------------------------------------------------------------------------
(* canRequest.                                                              *)

\* CLOSED and HALF_OPEN let the call through; OPEN does once nextProbeAt is
\* reached, after one more write.
Check(r) ==
  /\ stage[r] = "idle"
  /\ \/ state # "OPEN" /\ Enters(r, "calling")
     \/ state = "OPEN" /\ probeAt = "reached" /\ Enters(r, "probing")
  /\ UNCHANGED <<breakerRow, up, copyOf>>

\* The write that allows a probe, whatever the row says by now.
HalfOpen(r) ==
  /\ stage[r] = "probing"
  /\ state' = "HALF_OPEN"
  /\ successes' = 0
  /\ Enters(r, "calling")
  /\ UNCHANGED <<failures, probeAt, up, copyOf>>

-----------------------------------------------------------------------------
(* The end of a call.                                                       *)

CallSucceeds(r) ==
  /\ stage[r] = "calling"
  /\ up
  /\ Enters(r, "succeeded")
  /\ copyOf' = [copyOf EXCEPT ![r] = Copy]
  /\ UNCHANGED <<breakerRow, up>>

CallUnanswered(r) ==
  /\ stage[r] = "calling"
  /\ ~ up
  /\ Enters(r, "failed")
  /\ copyOf' = [copyOf EXCEPT ![r] = Copy]
  /\ UNCHANGED <<breakerRow, up>>

\* A category that says nothing about FastTest, a job that another runner won,
\* a crash: no outcome is recorded.
NoOutcome(r) ==
  /\ stage[r] # "idle"
  /\ Enters(r, "idle")
  /\ Forget(r)
  /\ UNCHANGED <<breakerRow, up>>

\* Mutant: a probe that succeeds is not added.
ProbesUncounted(r) == copyOf[r].successes

ProbesCounted(r) == copyOf[r].successes + 1

ClosesAt(count) == count >= HalfOpenProbes

\* recordSuccess.
SuccessWrite(r) ==
  LET count == ProbesCounted(r)
  IN  /\ stage[r] = "succeeded"
      /\ \/ /\ copyOf[r].state = "CLOSED"
            /\ failures' = IF copyOf[r].failures > 0 THEN 0 ELSE failures
            /\ UNCHANGED <<state, successes, probeAt>>
         \/ /\ copyOf[r].state = "OPEN"
            /\ UNCHANGED breakerRow
         \/ /\ copyOf[r].state = "HALF_OPEN"
            /\ ClosesAt(count)
            /\ state' = "CLOSED"
            /\ failures' = 0
            /\ successes' = 0
            /\ probeAt' = "null"
         \/ /\ copyOf[r].state = "HALF_OPEN"
            /\ ~ ClosesAt(count)
            /\ successes' = count
            /\ UNCHANGED <<state, failures, probeAt>>
      /\ Enters(r, "idle")
      /\ Forget(r)
      /\ UNCHANGED <<up>>

Saturated(n) == IF n < FailureThreshold THEN n ELSE FailureThreshold

\* Mutant: every category is held against its own threshold only.
TripsByCategory(c, n) ==
  \/ c = "AUTHENTICATION" /\ n >= AuthThreshold
  \/ c = "TIMEOUT" /\ n >= TimeoutThreshold

Trips(c, n) ==
  \/ c = "AUTHENTICATION" /\ n >= AuthThreshold
  \/ c = "TIMEOUT" /\ n >= TimeoutThreshold
  \/ n >= FailureThreshold

\* Mutant: the probe time is left to the caller.
OpenWithoutProbe ==
  /\ state' = "OPEN"
  /\ UNCHANGED <<failures, successes, probeAt>>

Opens ==
  /\ state' = "OPEN"
  /\ probeAt' = "ahead"
  /\ UNCHANGED <<failures, successes>>

\* recordFailure, for a call that failed with category c.
FailureWrite(r, c) ==
  LET count == Saturated(copyOf[r].failures + 1)
      trip  == \/ copyOf[r].state = "HALF_OPEN"
               \/ copyOf[r].state = "CLOSED" /\ Trips(c, count)
  IN  /\ stage[r] = "failed"
      /\ \/ trip /\ Opens
         \/ ~ trip /\ failures' = count /\ UNCHANGED <<state, successes, probeAt>>
      /\ Enters(r, "idle")
      /\ Forget(r)
      /\ UNCHANGED up

-----------------------------------------------------------------------------

\* CIRCUIT_OPEN_MS have passed.
ProbeTime ==
  /\ probeAt = "ahead"
  /\ probeAt' = "reached"
  /\ UNCHANGED <<state, failures, successes, up, stage, copyOf>>

\* FastTest goes away or comes back.
FastTestChanges ==
  /\ up' = ~ up
  /\ UNCHANGED <<breakerRow, stage, copyOf>>

Outcome(r) == SuccessWrite(r) \/ \E c \in Categories : FailureWrite(r, c)

BreakerNext ==
  \/ \E r \in Reporters :
       \/ Check(r)
       \/ HalfOpen(r)
       \/ CallSucceeds(r)
       \/ CallUnanswered(r)
       \/ NoOutcome(r)
       \/ Outcome(r)
  \/ ProbeTime
  \/ FastTestChanges

BreakerSpec == BreakerInit /\ [][BreakerNext]_breakerVars

\* Jobs of the workspace keep coming, so its breaker is asked again and again, an
\* operation that has read the row writes it, and time passes.  Not every call ends
\* without a verdict, nor every operation in a crash: strong fairness, and of the
\* runners together, since nothing says that one of them in particular goes on.
BreakerFairness ==
  /\ WF_breakerVars(\E r \in Reporters : Check(r))
  /\ SF_breakerVars(\E r \in Reporters : HalfOpen(r))
  /\ SF_breakerVars(\E r \in Reporters : CallSucceeds(r))
  /\ SF_breakerVars(\E r \in Reporters : CallUnanswered(r))
  /\ SF_breakerVars(\E r \in Reporters : Outcome(r))
  /\ WF_breakerVars(ProbeTime)

FairBreakerSpec == BreakerSpec /\ BreakerFairness

-----------------------------------------------------------------------------

\* An open circuit always has a probe time: an OPEN row whose nextProbeAt is null
\* would refuse every call of the workspace for ever, and a late write of another
\* runner (closing clears nextProbeAt) must not leave one behind.
OpenHasProbeTime == state = "OPEN" => probeAt # "null"

\* The count of probe successes stays below the number that closes the circuit,
\* whichever copy it was computed from: the row cannot skip past its closing.
ProbesBelowClosing == successes < HalfOpenProbes

\* Once FastTest answers and goes on answering, the circuit closes for good, through
\* stale copies, lost counts and a half-open write that comes after the closing.
ClosesOnceUp == <>[]up => <>[](state = "CLOSED")

\* While FastTest does not answer, the circuit opens again and again, however many
\* increments of the failure count the runners overwrite for each other.
TripsWhileDown == <>[](~ up) => []<>(state = "OPEN")
=============================================================================

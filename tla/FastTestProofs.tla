--------------------------- MODULE FastTestProofs ---------------------------
(***************************************************************************)
(* CircuitBreaker for every number of runners and every threshold, and     *)
(* TokenRefresh for any calls, processes and faults.                       *)
(*                                                                         *)
(* TokenRefresh: Flights ties the three copies of "who refreshes" to each  *)
(* other: where the refreshing call is, the map of its process, and the    *)
(* promises others hold.  Leases ties the row of the lock to the calls     *)
(* inside it.                                                              *)
(*                                                                         *)
(* What fairness leads to is kept: a mended circuit (MendedCircuitStays),  *)
(* a client without traces of a failure (CleanStaysClean), and the silence *)
(* of a process that knows of the master switch (FreezeIsKept).            *)
(***************************************************************************)
EXTENDS TokenRefresh, CircuitBreaker, TLAPS

-----------------------------------------------------------------------------
(* CircuitBreaker.                                                          *)

Breaker == BreakerTypeOK /\ OpenHasProbeTime /\ ProbesBelowClosing

LEMMA InitBreaker == BreakerInit => Breaker
BY BreakerAssumption
   DEF BreakerInit, Breaker, BreakerTypeOK, OpenHasProbeTime, ProbesBelowClosing, Copy, RowCopies, States

\* A saturated count is a count.
LEMMA SaturatedIsNat ==
  ASSUME NEW n \in Nat
  PROVE  Saturated(n) \in Nat
BY BreakerAssumption DEF Saturated

LEMMA NextBreaker == Breaker /\ [BreakerNext]_breakerVars => Breaker'
<1> SUFFICES ASSUME Breaker, [BreakerNext]_breakerVars PROVE Breaker'
  OBVIOUS
<1> USE BreakerAssumption DEF Breaker, BreakerTypeOK, OpenHasProbeTime, ProbesBelowClosing, breakerRow
<1>1. ASSUME NEW r \in Reporters, Check(r) PROVE Breaker'
  BY <1>1 DEF Check, Enters, States
<1>2. ASSUME NEW r \in Reporters, HalfOpen(r) PROVE Breaker'
  BY <1>2 DEF HalfOpen, Enters, States
<1>3. ASSUME NEW r \in Reporters, CallSucceeds(r) PROVE Breaker'
  BY <1>3 DEF CallSucceeds, Enters, Copy, RowCopies, States
<1>4. ASSUME NEW r \in Reporters, CallUnanswered(r) PROVE Breaker'
  BY <1>4 DEF CallUnanswered, Enters, Copy, RowCopies, States
<1>5. ASSUME NEW r \in Reporters, NoOutcome(r) PROVE Breaker'
  BY <1>5 DEF NoOutcome, Enters, Forget, RowCopies, States
<1>6. ASSUME NEW r \in Reporters, SuccessWrite(r) PROVE Breaker'
  <2>1. copyOf[r].successes \in Nat
    BY DEF RowCopies
  <2>2. stage' \in [Reporters -> {"idle", "probing", "calling", "succeeded", "failed"}] /\ copyOf' \in [Reporters -> RowCopies]
    BY <1>6 DEF SuccessWrite, Enters, Forget, RowCopies, States
  <2> QED
    BY <1>6, <2>1, <2>2 DEF SuccessWrite, ProbesCounted, ClosesAt, States
<1>7. ASSUME NEW r \in Reporters, NEW c \in Categories, FailureWrite(r, c) PROVE Breaker'
  <2>1. Saturated(copyOf[r].failures + 1) \in Nat
    BY SaturatedIsNat DEF RowCopies
  <2>2. stage' \in [Reporters -> {"idle", "probing", "calling", "succeeded", "failed"}] /\ copyOf' \in [Reporters -> RowCopies]
    BY <1>7 DEF FailureWrite, Enters, Forget, RowCopies, States
  <2>3. Opens \/ (failures' = Saturated(copyOf[r].failures + 1) /\ UNCHANGED <<state, successes, probeAt>>)
    BY <1>7 DEF FailureWrite
  <2>4. UNCHANGED up
    BY <1>7 DEF FailureWrite
  <2> QED
    BY <2>1, <2>2, <2>3, <2>4 DEF Opens, States
<1>8. CASE ProbeTime
  BY <1>8 DEF ProbeTime
<1>9. CASE FastTestChanges
  BY <1>9 DEF FastTestChanges
<1>10. CASE UNCHANGED breakerVars
  BY <1>10 DEF breakerVars
<1> HIDE DEF Breaker
<1> QED
  BY <1>1, <1>2, <1>3, <1>4, <1>5, <1>6, <1>7, <1>8, <1>9, <1>10 DEF BreakerNext, Outcome

LEMMA BreakerAlways == BreakerSpec => []Breaker
<1> QED
  BY InitBreaker, NextBreaker, PTL DEF BreakerSpec

\* Every variable of the breaker has its type in every reachable state.
THEOREM BreakerTypeCorrect == BreakerSpec => []BreakerTypeOK
<1>1. Breaker => BreakerTypeOK
  BY DEF Breaker
<1> QED
  BY <1>1, BreakerAlways, PTL

\* No order of the unguarded writes leaves a circuit open without a probe time,
\* which canRequest would refuse for ever.
THEOREM OpenIsNeverForever == BreakerSpec => []OpenHasProbeTime
<1>1. Breaker => OpenHasProbeTime
  BY DEF Breaker
<1> QED
  BY <1>1, BreakerAlways, PTL

\* No order of the unguarded writes takes the probe count to the closing number
\* without closing the circuit.
THEOREM ProbesNeverPassClosing == BreakerSpec => []ProbesBelowClosing
<1>1. Breaker => ProbesBelowClosing
  BY DEF Breaker
<1> QED
  BY <1>1, BreakerAlways, PTL

\* The circuit is closed, and no write that would open it is under way.
Mended == state = "CLOSED" /\ \A r \in Reporters : stage[r] \notin {"probing", "failed"}

MendedStays == [][Mended /\ up => Mended']_breakerVars

\* While FastTest answers, a mended circuit stays mended: no late success, whatever copy
\* of the row it was computed from, opens it again (the safety half of ClosesOnceUp).
THEOREM MendedCircuitStays == BreakerSpec => MendedStays
<1>1. BreakerTypeOK /\ [BreakerNext]_breakerVars => [Mended /\ up => Mended']_breakerVars
  <2> SUFFICES ASSUME BreakerTypeOK, [BreakerNext]_breakerVars, Mended, up PROVE Mended'
    OBVIOUS
  <2> USE DEF Mended, BreakerTypeOK, breakerRow, Enters
  <2>1. ASSUME NEW r \in Reporters, Check(r) PROVE Mended'
    BY <2>1 DEF Check
  <2>2. ASSUME NEW r \in Reporters, HalfOpen(r) PROVE Mended'
    BY <2>2 DEF HalfOpen
  <2>3. ASSUME NEW r \in Reporters, CallSucceeds(r) PROVE Mended'
    BY <2>3 DEF CallSucceeds
  <2>4. ASSUME NEW r \in Reporters, CallUnanswered(r) PROVE Mended'
    BY <2>4 DEF CallUnanswered
  <2>5. ASSUME NEW r \in Reporters, NoOutcome(r) PROVE Mended'
    BY <2>5 DEF NoOutcome
  <2>6. ASSUME NEW r \in Reporters, SuccessWrite(r) PROVE Mended'
    <3>1. state' = "CLOSED"
      BY <2>6 DEF SuccessWrite
    <3>2. \A q \in Reporters : stage'[q] \in {stage[q], "idle"}
      BY <2>6 DEF SuccessWrite
    <3> QED
      BY <3>1, <3>2
  <2>7. ASSUME NEW r \in Reporters, NEW c \in Categories, FailureWrite(r, c) PROVE Mended'
    BY <2>7 DEF FailureWrite
  <2>8. CASE ProbeTime
    BY <2>8 DEF ProbeTime
  <2>9. CASE FastTestChanges
    BY <2>9 DEF FastTestChanges
  <2>10. CASE UNCHANGED breakerVars
    BY <2>10 DEF breakerVars
  <2> QED
    BY <2>1, <2>2, <2>3, <2>4, <2>5, <2>6, <2>7, <2>8, <2>9, <2>10 DEF BreakerNext, Outcome
<1> QED
  BY <1>1, BreakerTypeCorrect, PTL DEF BreakerSpec, MendedStays

-----------------------------------------------------------------------------
(* TokenRefresh.                                                            *)

Flights ==
  /\ \A c \in Calls : pc[c] \in RefreshPcs => inflight[ProcessOf[c]] = c /\ promise[c] = c
  /\ \A p \in Processes : inflight[p] # NoCall =>
       inflight[p] \in CallsOf(p) /\ pc[inflight[p]] \in RefreshPcs
  /\ \A c \in Calls : pc[c] = "waiting" =>
       promise[c] \in CallsOf(ProcessOf[c]) /\ pc[promise[c]] \in RefreshPcs
  /\ \A c \in Calls : pc[c] \notin RefreshPcs \cup {"waiting"} => promise[c] = NoCall

Leases ==
  /\ \A c \in Calls : pc[c] \in LockedPcs /\ c \notin lapsed => lock = c
  /\ lock \in Calls => leased \/ lock \in lapsed

\* What a refresh that ends leaves behind.
LEMMA SettleFlights ==
  ASSUME TokenTypeOK, Flights, NEW c \in Calls, pc[c] \in RefreshPcs,
         NEW t \in Tokens, SettlePromise(c, t)
  PROVE  /\ Flights'
         /\ pc' \in [Calls -> Pcs] /\ token' \in [Calls -> Tokens]
         /\ promise' \in [Calls -> Calls \cup {NoCall}]
         /\ inflight' \in [Processes -> Calls \cup {NoCall}]
         /\ \A d \in Calls : pc'[d] \in RefreshPcs => pc[d] = pc'[d] /\ d # c
<1>1. inflight[ProcessOf[c]] = c /\ promise[c] = c /\ ProcessOf[c] \in Processes
  BY TokenAssumption DEF Flights
<1>2. \A d \in Calls : pc[d] \in RefreshPcs /\ d # c => promise[d] # c
  BY DEF Flights
<1>3. \A d \in Calls : promise[d] = c => d = c \/ (pc[d] = "waiting" /\ ProcessOf[d] = ProcessOf[c])
  BY TokenAssumption, <1>2 DEF Flights, CallsOf
<1>4. /\ pc' \in [Calls -> Pcs] /\ token' \in [Calls -> Tokens]
      /\ promise' \in [Calls -> Calls \cup {NoCall}]
      /\ inflight' \in [Processes -> Calls \cup {NoCall}]
  BY DEF SettlePromise, TokenTypeOK, Pcs
<1>5. \A d \in Calls : /\ promise[d] = c => pc'[d] \in {"failed", "call"} /\ promise'[d] = NoCall
                       /\ promise[d] # c => pc'[d] = pc[d] /\ promise'[d] = promise[d]
  BY DEF SettlePromise, Woken
<1>6. \A p \in Processes : inflight'[p] = IF p = ProcessOf[c] THEN NoCall ELSE inflight[p]
  BY DEF SettlePromise, TokenTypeOK
<1>7. \A d \in Calls : pc'[d] \in RefreshPcs => pc[d] = pc'[d] /\ d # c
  BY <1>1, <1>5 DEF RefreshPcs, LockedPcs
<1>8. ASSUME NEW d \in Calls, pc'[d] \in RefreshPcs
      PROVE  inflight'[ProcessOf[d]] = d /\ promise'[d] = d
  <2>1. pc[d] \in RefreshPcs /\ d # c
    BY <1>7, <1>8
  <2>2. inflight[ProcessOf[d]] = d /\ promise[d] = d /\ ProcessOf[d] \in Processes
    BY <2>1, TokenAssumption DEF Flights
  <2> QED
    BY <1>1, <1>5, <1>6, <2>1, <2>2
<1>9. ASSUME NEW p \in Processes, inflight'[p] # NoCall
      PROVE  inflight'[p] \in CallsOf(p) /\ pc'[inflight'[p]] \in RefreshPcs
  <2>1. p # ProcessOf[c] /\ inflight'[p] = inflight[p]
    BY <1>6, <1>9
  <2>2. inflight[p] \in CallsOf(p) /\ pc[inflight[p]] \in RefreshPcs
    BY <1>9, <2>1 DEF Flights
  <2>3. inflight[p] \in Calls /\ inflight[p] # c
    BY <2>1, <2>2 DEF CallsOf
  <2> QED
    BY <1>2, <1>5, <2>1, <2>2, <2>3
<1>10. ASSUME NEW d \in Calls, pc'[d] = "waiting"
       PROVE  promise'[d] \in CallsOf(ProcessOf[d]) /\ pc'[promise'[d]] \in RefreshPcs
  <2>1. promise[d] # c /\ pc[d] = "waiting" /\ promise'[d] = promise[d]
    BY <1>5, <1>10
  <2>2. promise[d] \in CallsOf(ProcessOf[d]) /\ pc[promise[d]] \in RefreshPcs
    BY <2>1 DEF Flights
  <2>3. promise[d] \in Calls
    BY <2>2 DEF CallsOf
  <2> QED
    BY <1>2, <1>5, <2>1, <2>2, <2>3
<1>11. ASSUME NEW d \in Calls, pc'[d] \notin RefreshPcs \cup {"waiting"}
       PROVE  promise'[d] = NoCall
  BY <1>5, <1>11 DEF Flights
<1> QED
  BY <1>4, <1>7, <1>8, <1>9, <1>10, <1>11 DEF Flights, CallsOf

\* What getToken leaves behind; the cache it looked at does not matter.
LEMMA GetTokenFlights ==
  ASSUME TokenTypeOK, Flights, NEW c \in Calls, pc[c] \in {"get", "call"},
         NEW t \in Tokens, GetToken(c, t)
  PROVE  /\ Flights'
         /\ pc' \in [Calls -> Pcs] /\ token' \in [Calls -> Tokens]
         /\ promise' \in [Calls -> Calls \cup {NoCall}]
         /\ inflight' \in [Processes -> Calls \cup {NoCall}]
         /\ \A d \in Calls : pc'[d] \in LockedPcs => pc[d] = pc'[d]
<1>0. pc[c] \notin RefreshPcs /\ pc[c] # "waiting"
  BY DEF RefreshPcs, LockedPcs
<1>1. /\ ProcessOf[c] \in Processes /\ NoCall \notin Calls
      /\ promise[c] = NoCall
      /\ \A d \in Calls : promise[d] # c
  BY <1>0, TokenAssumption DEF Flights
<1>2. \A p \in Processes : inflight[p] # c
  BY <1>1 DEF Flights, RefreshPcs, LockedPcs
<1>3. CASE t # "none" /\ Goto(c, "call") /\ UNCHANGED <<promise, inflight>>
           /\ token' = [token EXCEPT ![c] = t]
  BY <1>1, <1>2, <1>3 DEF Flights, TokenTypeOK, Goto, Pcs, RefreshPcs, LockedPcs, CallsOf
<1>4. CASE /\ Goto(c, "waiting")
           /\ inflight[ProcessOf[c]] # NoCall
           /\ promise' = [promise EXCEPT ![c] = inflight[ProcessOf[c]]]
           /\ token' = [token EXCEPT ![c] = "none"]
           /\ UNCHANGED inflight
  <2>1. inflight[ProcessOf[c]] \in CallsOf(ProcessOf[c]) /\ pc[inflight[ProcessOf[c]]] \in RefreshPcs
    BY <1>1, <1>4 DEF Flights
  <2> QED
    BY <1>1, <1>2, <1>4, <2>1 DEF Flights, TokenTypeOK, Goto, Pcs, RefreshPcs, LockedPcs, CallsOf, Tokens
<1>5. CASE /\ Goto(c, "locking")
           /\ inflight[ProcessOf[c]] = NoCall
           /\ promise' = [promise EXCEPT ![c] = c]
           /\ inflight' = [inflight EXCEPT ![ProcessOf[c]] = c]
           /\ token' = [token EXCEPT ![c] = "none"]
  <2>1. /\ pc' \in [Calls -> Pcs] /\ token' \in [Calls -> Tokens]
        /\ promise' \in [Calls -> Calls \cup {NoCall}]
        /\ inflight' \in [Processes -> Calls \cup {NoCall}]
    BY <1>5 DEF TokenTypeOK, Goto, Pcs, RefreshPcs, Tokens
  <2>2. \A d \in Calls : pc'[d] \in RefreshPcs => inflight'[ProcessOf[d]] = d /\ promise'[d] = d
    <3>1. \A d \in Calls : d # c /\ pc[d] \in RefreshPcs => ProcessOf[d] # ProcessOf[c]
      BY <1>1, <1>5 DEF Flights
    <3> QED
      BY <1>1, <1>5, <3>1 DEF Flights, TokenTypeOK, Goto
  <2>3. \A p \in Processes : inflight'[p] # NoCall =>
          inflight'[p] \in CallsOf(p) /\ pc'[inflight'[p]] \in RefreshPcs
    BY <1>1, <1>2, <1>5 DEF Flights, TokenTypeOK, Goto, CallsOf, RefreshPcs
  <2>4. \A d \in Calls : pc'[d] = "waiting" =>
          promise'[d] \in CallsOf(ProcessOf[d]) /\ pc'[promise'[d]] \in RefreshPcs
    BY <1>1, <1>5 DEF Flights, TokenTypeOK, Goto, CallsOf, RefreshPcs
  <2>5. \A d \in Calls : pc'[d] \notin RefreshPcs \cup {"waiting"} => promise'[d] = NoCall
    BY <1>1, <1>5 DEF Flights, TokenTypeOK, Goto, RefreshPcs
  <2> QED
    BY <1>5, <2>1, <2>2, <2>3, <2>4, <2>5 DEF Flights, Goto, TokenTypeOK, LockedPcs, CallsOf
<1> QED
  BY <1>3, <1>4, <1>5 DEF GetToken, Joins

\* A step of one call that moves it within the refresh, or within the rest.
LEMMA MoveFlights ==
  ASSUME TokenTypeOK, Flights, NEW c \in Calls, NEW where \in Pcs, Goto(c, where),
         pc[c] # "waiting", where # "waiting",
         pc[c] \in RefreshPcs <=> where \in RefreshPcs,
         UNCHANGED <<promise, inflight>>
  PROVE  Flights' /\ pc' \in [Calls -> Pcs]
  BY DEF Flights, TokenTypeOK, Goto, CallsOf

\* A crash ends every call of the process, waiting ones and refreshing ones alike.
LEMMA CrashFlights ==
  ASSUME TokenTypeOK, Flights, NEW p \in Processes, Crash(p)
  PROVE  Flights'
<1>1. \A d \in Calls : /\ ProcessOf[d] = p => pc'[d] = "idle" /\ promise'[d] = NoCall
                       /\ ProcessOf[d] # p => pc'[d] = pc[d] /\ promise'[d] = promise[d]
  BY DEF Crash, CallsOf
<1>2. \A q \in Processes : inflight'[q] = IF q = p THEN NoCall ELSE inflight[q]
  BY DEF Crash, TokenTypeOK
<1> QED
  BY <1>1, <1>2, TokenAssumption DEF Flights, CallsOf, RefreshPcs, LockedPcs

LEMMA SameFlights ==
  ASSUME Flights, UNCHANGED <<pc, promise, inflight>>
  PROVE  Flights'
  BY DEF Flights, CallsOf

Typed == TokenTypeOK /\ Flights

LEMMA InitTyped == TokenInit => Typed
<1> SUFFICES ASSUME TokenInit PROVE Typed
  OBVIOUS
<1>1. TokenTypeOK
  BY DEF TokenInit, TokenTypeOK, Tokens, Pcs
<1>2. \A c \in Calls : pc[c] = "idle" /\ promise[c] = NoCall
  BY DEF TokenInit
<1>3. \A p \in Processes : inflight[p] = NoCall
  BY DEF TokenInit
<1>4. "idle" \notin RefreshPcs
  BY DEF RefreshPcs, LockedPcs
<1> QED
  BY <1>1, <1>2, <1>3, <1>4 DEF Typed, Flights

\* Every step of a call under way.
LEMMA ProceedsTyped ==
  ASSUME Typed, NEW c \in Calls, Proceeds(c)
  PROVE  Typed'
<1> USE DEF Typed
<1>p. ProcessOf[c] \in Processes /\ cache[ProcessOf[c]] \in Tokens /\ token[c] \in Tokens
  BY TokenAssumption DEF TokenTypeOK
<1>1. CASE First(c)
  BY <1>p, <1>1, GetTokenFlights DEF First, TokenTypeOK, lease, world
<1>2. CASE Acquire(c) \/ TakeOver(c)
  <2>1. PICK where \in {"locked", "takeover", "verify", "backoff"} : Goto(c, where)
    BY <1>2 DEF Acquire, TakeOver
  <2>2. pc[c] \in {"locking", "takeover"} /\ UNCHANGED <<token, promise, retried, local, world>>
    BY <1>2 DEF Acquire, TakeOver
  <2>3. Flights' /\ pc' \in [Calls -> Pcs]
    BY <2>1, <2>2, MoveFlights DEF local, Pcs, RefreshPcs, LockedPcs
  <2>4. Owned(c) \/ Unowned \/ UNCHANGED lease
    BY <1>2 DEF Acquire, TakeOver
  <2> QED
    BY <2>2, <2>3, <2>4 DEF Owned, Unowned, TokenTypeOK, local, lease, world
<1>3. CASE Verify(c)
  <2>1. PICK where \in {"locked", "backoff"} : Goto(c, where)
    BY <1>3 DEF Verify
  <2>2. Flights' /\ pc' \in [Calls -> Pcs]
    BY <1>3, <2>1, MoveFlights DEF Verify, local, Pcs, RefreshPcs, LockedPcs
  <2> QED
    BY <1>3, <2>2 DEF Verify, TokenTypeOK, local, lease, world
<1>4. CASE LockFails(c)
  <2>1. pc[c] \in RefreshPcs /\ "none" \in Tokens
    BY <1>4 DEF LockFails, RefreshPcs, Tokens
  <2> QED
    BY <1>4, <2>1, SettleFlights DEF LockFails, Unowned, TokenTypeOK, world
<1>5. CASE AuthenticateLocked(c)
  <2>1. PICK where \in {"authLocked", "releasing"} : Goto(c, where)
    BY <1>5 DEF AuthenticateLocked
  <2>2. Flights' /\ pc' \in [Calls -> Pcs]
    BY <1>5, <2>1, MoveFlights DEF AuthenticateLocked, local, Pcs, RefreshPcs, LockedPcs
  <2> QED
    BY <1>5, <1>p, <2>2 DEF AuthenticateLocked, TokenTypeOK, local, lease, world
<1>6. CASE AuthenticateFree(c)
  <2>1. pc[c] = "backoff" /\ UNCHANGED <<retried, cache, connecting, lease, world>>
    BY <1>6 DEF AuthenticateFree
  <2>2. CASE Goto(c, "authFree") /\ UNCHANGED <<token, promise, inflight>>
    <3>1. Flights' /\ pc' \in [Calls -> Pcs]
      BY <2>1, <2>2, MoveFlights DEF Pcs, RefreshPcs
    <3> QED
      BY <2>1, <2>2, <3>1 DEF TokenTypeOK, lease, world
  <2>3. CASE SettlePromise(c, cache[ProcessOf[c]])
    <3>1. pc[c] \in RefreshPcs
      BY <2>1 DEF RefreshPcs
    <3> QED
      BY <1>p, <2>1, <2>3, <3>1, SettleFlights DEF TokenTypeOK, lease, world
  <2> QED
    BY <1>6, <2>2, <2>3 DEF AuthenticateFree
<1>7. CASE Authenticated(c) \/ AuthenticationFails(c)
  <2>1. PICK t \in Tokens : HasAnswered(c, t)
    BY <1>7 DEF Authenticated, AuthenticationFails, Tokens
  <2>2. PICK where \in {"releasing", "recording"} : Goto(c, where)
    BY <2>1 DEF HasAnswered
  <2>3. Flights' /\ pc' \in [Calls -> Pcs]
    BY <2>1, <2>2, MoveFlights DEF HasAnswered, Pcs, RefreshPcs, LockedPcs
  <2>4. cache' \in [Processes -> Tokens]
    BY <1>7 DEF Authenticated, AuthenticationFails, TokenTypeOK, Tokens
  <2> QED
    BY <2>1, <2>3, <2>4 DEF HasAnswered, TokenTypeOK, lease, world
<1>8. CASE Recorded(c)
  <2>1. pc[c] \in RefreshPcs
    BY <1>8 DEF Recorded, RefreshPcs
  <2> QED
    BY <1>p, <1>8, <2>1, SettleFlights DEF Recorded, TokenTypeOK, lease, world
<1>9. CASE Release(c)
  <2>1. pc[c] \in RefreshPcs
    BY <1>9 DEF Release, RefreshPcs, LockedPcs
  <2>2. lock' \in Calls \cup {NoCall, Orphan} /\ leased' \in BOOLEAN /\ lapsed' \in SUBSET Calls
    BY <1>9 DEF Release, TokenTypeOK
  <2> QED
    BY <1>p, <1>9, <2>1, <2>2, SettleFlights DEF Release, TokenTypeOK, world
<1>10. CASE Unauthorized(c)
  <2>1. /\ pc[c] = "call" /\ cache' \in [Processes -> Tokens] /\ retried' \in [Calls -> BOOLEAN]
        /\ Invalidated(c)[ProcessOf[c]] \in Tokens /\ UNCHANGED <<lease, world>>
    BY <1>10, <1>p DEF Unauthorized, Invalidated, TokenTypeOK, Tokens
  <2> QED
    BY <1>10, <2>1, GetTokenFlights DEF Unauthorized, TokenTypeOK, lease, world
<1>11. CASE CallAnswered(c) \/ UnauthorizedTwice(c) \/ CallFails(c) \/ Throws(c)
  <2>1. PICK where \in {"idle", "failed"} : End(c, where)
    BY <1>11 DEF CallAnswered, UnauthorizedTwice, CallFails, Throws
  <2>2. pc[c] \in {"call", "failed"} /\ UNCHANGED <<promise, local, lease, world>>
    BY <1>11 DEF CallAnswered, UnauthorizedTwice, CallFails, Throws
  <2>3. Flights' /\ pc' \in [Calls -> Pcs]
    BY <2>1, <2>2, MoveFlights DEF End, local, Pcs, RefreshPcs, LockedPcs
  <2> QED
    BY <2>1, <2>2, <2>3 DEF End, TokenTypeOK, Tokens, local, lease, world
<1> QED
  BY <1>1, <1>2, <1>3, <1>4, <1>5, <1>6, <1>7, <1>8, <1>9, <1>10, <1>11 DEF Proceeds

LEMMA NextTyped == Typed /\ [TokenNext]_tokenVars => Typed'
<1> SUFFICES ASSUME Typed, [TokenNext]_tokenVars PROVE Typed'
  OBVIOUS
<1> USE DEF Typed
<1>1. ASSUME NEW c \in Calls, Begin(c) PROVE Typed'
  <2>1. Flights' /\ pc' \in [Calls -> Pcs]
    BY <1>1, MoveFlights DEF Begin, local, Pcs, RefreshPcs, LockedPcs
  <2> QED
    BY <1>1, <2>1 DEF Begin, TokenTypeOK, local, lease, world
<1>2. ASSUME NEW c \in Calls, Proceeds(c) PROVE Typed'
  BY <1>2, ProceedsTyped
<1>3. ASSUME NEW c \in Calls, Renew(c) PROVE Typed'
  BY <1>3, SameFlights DEF Renew, TokenTypeOK, calls, local, world
<1>4. ASSUME NEW p \in Processes, Connect(p) PROVE Typed'
  BY <1>4, SameFlights DEF Connect, TokenTypeOK, Tokens, calls, lease, world
<1>14. ASSUME NEW p \in Processes, Connected(p) PROVE Typed'
  BY <1>14, SameFlights DEF Connected, TokenTypeOK, Tokens, calls, lease, world
<1>5. ASSUME NEW p \in Processes, TokenAges(p) PROVE Typed'
  BY <1>5, SameFlights DEF TokenAges, TokenTypeOK, Tokens, calls, lease, world
<1>6. ASSUME NEW p \in Processes, Revoke(p) PROVE Typed'
  BY <1>6, SameFlights DEF Revoke, TokenTypeOK, Tokens, lease, world
<1>7. ASSUME NEW p \in Processes, Crash(p) PROVE Typed'
  BY <1>7, CrashFlights DEF Crash, TokenTypeOK, Tokens, Pcs
<1>8. ASSUME NEW p \in Processes, RefreshSwitch(p) PROVE Typed'
  BY <1>8, SameFlights DEF RefreshSwitch, TokenTypeOK, calls, local, lease
<1>9. ASSUME NEW p \in Processes, NEW on \in BOOLEAN, SetStopped(p, on) PROVE Typed'
  BY <1>9, SameFlights DEF SetStopped, TokenTypeOK, calls, local, lease
<1>10. CASE Lapse
  BY <1>10, SameFlights DEF Lapse, TokenTypeOK, calls, local, world
<1>11. CASE Reap
  BY <1>11, SameFlights DEF Reap, TokenTypeOK, calls, local, world
<1>12. CASE HealthChanges
  BY <1>12, SameFlights DEF HealthChanges, TokenTypeOK, calls, local, lease
<1>13. CASE UNCHANGED tokenVars
  BY <1>13, SameFlights DEF tokenVars, TokenTypeOK
<1> QED
  BY <1>1, <1>2, <1>3, <1>4, <1>5, <1>6, <1>7, <1>8, <1>9, <1>10, <1>11, <1>12, <1>13, <1>14
  DEF TokenNext

-----------------------------------------------------------------------------
(* The lock.                                                                *)

\* Where calls of other processes are does not matter to the lock, and a call comes
\* into it by Acquire and Verify alone (TakeOver only makes it the owner).
EntersNot == \A c \in Calls : pc'[c] \in LockedPcs => pc[c] \in LockedPcs

LEMMA OutsideLeases ==
  ASSUME Leases, EntersNot, UNCHANGED lease
  PROVE  Leases'
  BY DEF Leases, EntersNot, lease

LEMMA SettleLeaves ==
  ASSUME Typed, NEW c \in Calls, pc[c] \in RefreshPcs, NEW t \in Tokens, SettlePromise(c, t)
  PROVE  EntersNot /\ pc'[c] \notin LockedPcs
<1>1. \A d \in Calls : pc'[d] \in RefreshPcs => pc[d] = pc'[d] /\ d # c
  BY SettleFlights DEF Typed
<1> QED
  BY <1>1 DEF EntersNot, RefreshPcs

\* A row nobody knows of takes the place of none, or of one whose lease has run out.
LEMMA UnownedLeases ==
  ASSUME Leases, EntersNot, Unowned, lock = NoCall \/ Expired
  PROVE  Leases'
<1>1. \A d \in Calls : pc[d] \in LockedPcs => d \in lapsed
  BY TokenAssumption DEF Leases, Expired
<1> QED
  BY <1>1, TokenAssumption DEF Leases, EntersNot, Unowned

LEMMA ProceedsLeases ==
  ASSUME Typed, Leases, NEW c \in Calls, Proceeds(c)
  PROVE  Leases'
<1>p. ProcessOf[c] \in Processes /\ cache[ProcessOf[c]] \in Tokens /\ token[c] \in Tokens
  BY TokenAssumption DEF Typed, TokenTypeOK
<1>n. "none" \in Tokens /\ "good" \in Tokens
  BY DEF Tokens
<1>t. pc \in [Calls -> Pcs] /\ lapsed \in SUBSET Calls
  BY DEF Typed, TokenTypeOK
<1>1. CASE First(c)
  <2>1. pc[c] \in {"get", "call"} /\ GetToken(c, cache[ProcessOf[c]]) /\ UNCHANGED lease
    BY <1>1 DEF First
  <2>2. EntersNot
    BY <1>p, <2>1, GetTokenFlights DEF EntersNot, Typed
  <2> QED
    BY <2>1, <2>2, OutsideLeases
<1>2. CASE Acquire(c) \/ TakeOver(c)
  <2>1. CASE (lock = NoCall \/ Expired) /\ Owned(c)
    <3>1. \A d \in Calls : d # c => pc'[d] = pc[d]
      BY <1>2, <1>t DEF Acquire, TakeOver, Goto
    <3>2. \A d \in Calls : pc[d] \in LockedPcs => d \in lapsed
      BY <2>1, TokenAssumption DEF Leases, Expired
    <3> QED
      BY <2>1, <3>1, <3>2 DEF Leases, Owned
  <2>2. CASE (Goto(c, "takeover") \/ Goto(c, "backoff")) /\ UNCHANGED lease
    BY <1>t, <2>2, OutsideLeases DEF EntersNot, Goto, LockedPcs
  <2>3. CASE lock = NoCall /\ Goto(c, "takeover") /\ Unowned
    <3>1. EntersNot
      BY <1>t, <2>3 DEF EntersNot, Goto, LockedPcs
    <3> QED
      BY <2>3, <3>1, UnownedLeases
  <2> QED
    BY <1>2, <2>1, <2>2, <2>3 DEF Acquire, TakeOver
<1>3. CASE Verify(c)
  <2>1. \A d \in Calls : d # c => pc'[d] = pc[d]
    BY <1>3, <1>t DEF Verify, Goto
  <2>2. pc'[c] \in LockedPcs => lock = c
    BY <1>3, <1>t DEF Verify, Goto, LockedPcs
  <2> QED
    BY <1>3, <2>1, <2>2 DEF Verify, Leases, lease
<1>4. CASE LockFails(c)
  <2>1. EntersNot /\ pc'[c] \notin LockedPcs
    BY <1>4, <1>n, SettleLeaves DEF LockFails, RefreshPcs
  <2>2. CASE /\ lock' = IF lock = c THEN Orphan ELSE lock
             /\ lapsed' = lapsed \ {c} /\ leased' = leased
    BY <2>1, <2>2, TokenAssumption DEF Leases, EntersNot
  <2>3. CASE Expired /\ Unowned
    BY <2>1, <2>3, UnownedLeases
  <2> QED
    BY <1>4, <2>2, <2>3 DEF LockFails
<1>5. CASE AuthenticateLocked(c)
  BY <1>5, <1>t, OutsideLeases DEF AuthenticateLocked, EntersNot, Goto, LockedPcs
<1>6. CASE AuthenticateFree(c)
  <2>1. pc[c] = "backoff" /\ UNCHANGED lease
    BY <1>6 DEF AuthenticateFree
  <2>2. CASE Goto(c, "authFree")
    BY <1>t, <2>1, <2>2, OutsideLeases DEF EntersNot, Goto, LockedPcs
  <2>3. CASE SettlePromise(c, cache[ProcessOf[c]])
    BY <1>p, <2>1, <2>3, SettleLeaves, OutsideLeases DEF RefreshPcs
  <2> QED
    BY <1>6, <2>2, <2>3 DEF AuthenticateFree
<1>7. CASE Authenticated(c) \/ AuthenticationFails(c)
  <2>1. PICK t \in Tokens : HasAnswered(c, t)
    BY <1>n, <1>7 DEF Authenticated, AuthenticationFails
  <2> QED
    BY <1>t, <2>1, OutsideLeases DEF HasAnswered, EntersNot, Goto, LockedPcs
<1>11. CASE Recorded(c)
  <2>1. EntersNot
    BY <1>11, <1>p, SettleLeaves DEF Recorded, RefreshPcs
  <2> QED
    BY <1>11, <2>1, OutsideLeases DEF Recorded
<1>8. CASE Release(c)
  <2>1. EntersNot /\ pc'[c] \notin LockedPcs
    BY <1>8, <1>p, SettleLeaves DEF Release, RefreshPcs, LockedPcs
  <2>2. (lock' = lock /\ lock # c) \/ (lock = c /\ lock' \in {NoCall, Orphan})
    BY <1>8 DEF Release
  <2>a. lapsed' = lapsed \ {c} /\ (leased' <=> leased /\ lock' # NoCall)
    BY <1>8 DEF Release
  <2>3. \A d \in Calls : pc'[d] \in LockedPcs /\ d \notin lapsed' => lock' = d
    BY <2>1, <2>2, <2>a DEF Leases, EntersNot
  <2>4. lock' \in Calls => leased' \/ lock' \in lapsed'
    BY <2>2, <2>a, TokenAssumption DEF Leases
  <2> QED
    BY <2>3, <2>4 DEF Leases
<1>9. CASE Unauthorized(c)
  <2>1. pc[c] = "call" /\ GetToken(c, Invalidated(c)[ProcessOf[c]]) /\ UNCHANGED lease
    BY <1>9 DEF Unauthorized
  <2>2. Invalidated(c)[ProcessOf[c]] \in Tokens
    BY <1>p, <1>n DEF Invalidated, Typed, TokenTypeOK
  <2>3. EntersNot
    BY <2>1, <2>2, GetTokenFlights DEF EntersNot, Typed
  <2> QED
    BY <2>1, <2>3, OutsideLeases
<1>10. CASE CallAnswered(c) \/ UnauthorizedTwice(c) \/ CallFails(c) \/ Throws(c)
  <2>1. PICK where \in {"idle", "failed"} : Goto(c, where)
    BY <1>10 DEF CallAnswered, UnauthorizedTwice, CallFails, Throws, End
  <2>2. UNCHANGED lease
    BY <1>10 DEF CallAnswered, UnauthorizedTwice, CallFails, Throws
  <2> QED
    BY <1>t, <2>1, <2>2, OutsideLeases DEF EntersNot, Goto, LockedPcs
<1> QED
  BY <1>1, <1>2, <1>3, <1>4, <1>5, <1>6, <1>7, <1>8, <1>9, <1>10, <1>11 DEF Proceeds

LEMMA NextLeases == Typed /\ Leases /\ [TokenNext]_tokenVars => Leases'
<1> SUFFICES ASSUME Typed, Leases, [TokenNext]_tokenVars PROVE Leases'
  OBVIOUS
<1>t. pc \in [Calls -> Pcs] /\ lapsed \in SUBSET Calls
  BY DEF Typed, TokenTypeOK
<1>1. ASSUME NEW c \in Calls, Begin(c) PROVE Leases'
  BY <1>1, <1>t, OutsideLeases DEF Begin, EntersNot, Goto, LockedPcs
<1>2. ASSUME NEW c \in Calls, Proceeds(c) PROVE Leases'
  BY <1>2, ProceedsLeases
<1>3. ASSUME NEW c \in Calls, Renew(c) PROVE Leases'
  BY <1>3, <1>t DEF Renew, Leases, calls
<1>4. ASSUME NEW p \in Processes,
             Connect(p) \/ Connected(p) \/ TokenAges(p) \/ Revoke(p) \/ RefreshSwitch(p)
      PROVE  Leases'
  BY <1>4, OutsideLeases DEF Connect, Connected, TokenAges, Revoke, RefreshSwitch, EntersNot, calls
<1>5. ASSUME NEW p \in Processes, Crash(p) PROVE Leases'
  <2>1. \A c \in Calls : pc'[c] \in LockedPcs => c \notin CallsOf(p) /\ pc[c] = pc'[c]
    BY <1>5 DEF Crash, LockedPcs
  <2>2. /\ lock' = IF lock \in CallsOf(p) THEN Orphan ELSE lock
        /\ lapsed' = lapsed \ CallsOf(p) /\ leased' = leased
    BY <1>5 DEF Crash
  <2> QED
    BY <2>1, <2>2, TokenAssumption DEF Leases
<1>6. ASSUME NEW p \in Processes, NEW on \in BOOLEAN, SetStopped(p, on) PROVE Leases'
  BY <1>6, OutsideLeases DEF SetStopped, EntersNot, calls
<1>7. CASE Lapse
  BY <1>7, <1>t DEF Lapse, Leases, calls
<1>8. CASE Reap
  BY <1>8, <1>t, TokenAssumption DEF Reap, Expired, Leases, calls
<1>9. CASE HealthChanges
  BY <1>9, OutsideLeases DEF HealthChanges, EntersNot, calls
<1>10. CASE UNCHANGED tokenVars
  BY <1>10, OutsideLeases DEF tokenVars, EntersNot, lease
<1> QED
  BY <1>1, <1>2, <1>3, <1>4, <1>5, <1>6, <1>7, <1>8, <1>9, <1>10 DEF TokenNext

-----------------------------------------------------------------------------

\* Every variable keeps its type, whatever fails, hangs or crashes.
THEOREM TokenTypeCorrect == TokenSpec => []TokenTypeOK
<1>1. Typed => TokenTypeOK
  BY DEF Typed
<1> QED
  BY <1>1, InitTyped, NextTyped, PTL DEF TokenSpec

\* getToken's single flight: at no time do two calls of a process refresh.
THEOREM OneRefreshPerProcess == TokenSpec => []SingleFlight
<1>1. Typed => SingleFlight
  BY DEF Typed, Flights, SingleFlight
<1> QED
  BY <1>1, InitTyped, NextTyped, PTL DEF TokenSpec

\* A call that awaits a refresh awaits one that is under way, through failed
\* refreshes, 401s and crashes.
THEOREM NobodyWaitsInVain == TokenSpec => []WaitersAreServed
<1>1. Typed => WaitersAreServed
  BY DEF Typed, Flights, WaitersAreServed
<1> QED
  BY <1>1, InitTyped, NextTyped, PTL DEF TokenSpec

\* The distributed lock: two refreshes are inside it together only when one of them
\* has outlived its lease (insert, takeover with read-back, guarded renewal and
\* release, reaping).
THEOREM LockExcludes == TokenSpec => []LeaseHolderAlone
<1>1. TokenInit => Typed /\ Leases
  <2>1. TokenInit => Leases
    BY TokenAssumption DEF TokenInit, Leases, LockedPcs
  <2> QED
    BY <2>1, InitTyped
<1>2. Typed /\ Leases /\ [TokenNext]_tokenVars => (Typed /\ Leases)'
  BY NextTyped, NextLeases
<1>3. Typed /\ Leases => LeaseHolderAlone
  BY DEF Leases, LeaseHolderAlone
<1> QED
  BY <1>1, <1>2, <1>3, PTL DEF TokenSpec

\* Where no holder hangs past its lease, the lock is a lock: of all processes one refresh
\* at a time authenticates under it, through crashes, failed releases, takeovers of
\* abandoned locks and the reaping of expired ones.
THEOREM LockIsExclusive ==
  "hang" \notin TokenFaults =>
    (TokenSpec => [](\A c, d \in Calls : pc[c] \in LockedPcs /\ pc[d] \in LockedPcs => c = d))
<1> SUFFICES ASSUME "hang" \notin TokenFaults
             PROVE  TokenSpec => [](\A c, d \in Calls : pc[c] \in LockedPcs /\ pc[d] \in LockedPcs => c = d)
  OBVIOUS
<1> DEFINE Punctual == lapsed = {}
<1>1. TokenInit => Punctual
  BY DEF TokenInit
<1>2. TokenTypeOK /\ Punctual /\ [TokenNext]_tokenVars => Punctual'
  <2> SUFFICES ASSUME Punctual, [TokenNext]_tokenVars PROVE lapsed' = {}
    OBVIOUS
  <2> USE DEF lease
  <2>1. ASSUME NEW c \in Calls, Proceeds(c) PROVE lapsed' = {}
    BY <2>1
    DEF Proceeds, First, Acquire, TakeOver, Verify, LockFails, Owned, Unowned, AuthenticateLocked,
        AuthenticateFree, Authenticated, AuthenticationFails, HasAnswered, Recorded, Release, CallAnswered, Unauthorized,
        UnauthorizedTwice, CallFails, Throws
  <2>2. ASSUME NEW c \in Calls, Begin(c) \/ Renew(c) PROVE lapsed' = {}
    BY <2>2 DEF Begin, Renew
  <2>3. ASSUME NEW p \in Processes,
               \/ Connect(p) \/ Connected(p) \/ TokenAges(p) \/ Revoke(p) \/ Crash(p)
               \/ RefreshSwitch(p)
        PROVE  lapsed' = {}
    BY <2>3 DEF Connect, Connected, TokenAges, Revoke, Crash, RefreshSwitch
  <2>4. ASSUME NEW p \in Processes, NEW on \in BOOLEAN, SetStopped(p, on) PROVE lapsed' = {}
    BY <2>4 DEF SetStopped
  <2>5. CASE Lapse
    BY <2>5, TokenAssumption DEF Lapse
  <2>6. CASE Reap \/ HealthChanges \/ UNCHANGED tokenVars
    BY <2>6 DEF Reap, HealthChanges, tokenVars
  <2> QED
    BY <2>1, <2>2, <2>3, <2>4, <2>5, <2>6 DEF TokenNext
<1>3. Punctual /\ LeaseHolderAlone
        => \A c, d \in Calls : pc[c] \in LockedPcs /\ pc[d] \in LockedPcs => c = d
  BY DEF LeaseHolderAlone
<1> QED
  BY <1>1, <1>2, <1>3, TokenTypeCorrect, LockExcludes, PTL DEF TokenSpec

-----------------------------------------------------------------------------

\* Nothing is left of what went wrong: no refused token in a cache or a call, no
\* rejected refresh, and every process has seen that traffic is allowed.
Clean ==
  /\ healthy /\ \A p \in Processes : ~ seen[p] /\ cache[p] # "bad"
  /\ \A c \in Calls :
       /\ token[c] # "bad" /\ pc[c] # "failed"
       /\ pc[c] \in {"releasing", "recording"} => token[c] = "good"

CleanStays == [][Clean /\ ~ stopped /\ healthy' /\ ~ stopped' => Clean']_tokenVars

\* A settled promise with a good token wakes everyone with it.
LEMMA SettleClean ==
  ASSUME TokenTypeOK, Clean, NEW c \in Calls, SettlePromise(c, "good"),
         UNCHANGED <<healthy, seen, cache>>
  PROVE  Clean'
BY DEF TokenTypeOK, Clean, SettlePromise

\* From a clean cache a call gets a good token, or waits for one.
LEMMA GetTokenClean ==
  ASSUME TokenTypeOK, Clean, NEW c \in Calls, NEW t \in {"none", "good"}, GetToken(c, t),
         UNCHANGED <<healthy, seen, cache>>
  PROVE  Clean'
<1> PICK where : where \in {"call", "waiting", "locking"} /\ pc' = [pc EXCEPT ![c] = where]
  BY DEF GetToken, Goto
<1>1. \A d \in Calls \ {c} : pc'[d] = pc[d] /\ token'[d] = token[d]
  BY DEF GetToken, TokenTypeOK
<1>2. pc'[c] = where /\ token'[c] # "bad"
  BY DEF GetToken, TokenTypeOK
<1> QED
  BY <1>1, <1>2 DEF Clean

LEMMA ProceedsClean ==
  ASSUME TokenTypeOK, Clean, NEW c \in Calls, Proceeds(c)
  PROVE  Clean'
<1>a. ProcessOf[c] \in Processes
  BY TokenAssumption
<1>b. /\ cache[ProcessOf[c]] \in {"none", "good"} /\ ~ seen[ProcessOf[c]]
      /\ healthy /\ pc[c] # "failed" /\ token[c] # "bad"
      /\ pc[c] \in {"releasing", "recording"} => token[c] = "good"
  BY <1>a DEF Clean, TokenTypeOK, Tokens
<1> USE DEF local, lease, world
<1>1. CASE First(c)
  BY <1>1, <1>b, GetTokenClean DEF First
<1>2. CASE Acquire(c) \/ TakeOver(c) \/ Verify(c)
  BY <1>2 DEF Acquire, TakeOver, Verify, Goto, TokenTypeOK, Clean
<1>3. CASE AuthenticateLocked(c)
  BY <1>3, <1>b DEF AuthenticateLocked, Passes, Goto, TokenTypeOK, Clean
<1>4. CASE AuthenticateFree(c)
  <2>1. CASE cache[ProcessOf[c]] = "none"
    BY <1>4, <1>b, <2>1 DEF AuthenticateFree, Passes, Goto, TokenTypeOK, Clean
  <2>2. CASE cache[ProcessOf[c]] = "good"
    BY <1>4, <2>2, SettleClean DEF AuthenticateFree
  <2> QED
    BY <1>b, <2>1, <2>2
<1>5. CASE Authenticated(c)
  BY <1>5, <1>a DEF Authenticated, HasAnswered, Goto, TokenTypeOK, Clean
<1>6. CASE LockFails(c) \/ AuthenticationFails(c) \/ CallFails(c) \/ Throws(c)
           \/ Unauthorized(c) \/ UnauthorizedTwice(c)
  BY <1>6, <1>b DEF LockFails, AuthenticationFails, CallFails, Throws, Unauthorized, UnauthorizedTwice
<1>7. CASE Recorded(c)
  BY <1>7, <1>b, SettleClean DEF Recorded
<1>8. CASE Release(c)
  BY <1>8, <1>b, SettleClean DEF Release
<1>9. CASE CallAnswered(c)
  BY <1>9 DEF CallAnswered, End, Goto, TokenTypeOK, Clean
<1> QED
  BY <1>1, <1>2, <1>3, <1>4, <1>5, <1>6, <1>7, <1>8, <1>9 DEF Proceeds

\* Once the traces of a failure are gone and nothing new goes wrong, no call fails, in
\* whatever order calls, expiries, reaped locks and switches follow (the safety half of
\* RecoversOnceUp).
THEOREM CleanStaysClean == TokenSpec => CleanStays
<1>1. TokenTypeOK /\ [TokenNext]_tokenVars
        => [Clean /\ ~ stopped /\ healthy' /\ ~ stopped' => Clean']_tokenVars
  <2> SUFFICES ASSUME TokenTypeOK, [TokenNext]_tokenVars, Clean, ~ stopped, healthy', ~ stopped' PROVE Clean'
    OBVIOUS
  <2> USE DEF calls, local, lease, world
  <2>1. ASSUME NEW c \in Calls, Begin(c) PROVE Clean'
    BY <2>1 DEF Begin, Goto, TokenTypeOK, Clean
  <2>2. ASSUME NEW c \in Calls, Proceeds(c) PROVE Clean'
    BY <2>2, ProceedsClean
  <2>3. ASSUME NEW c \in Calls, Renew(c) PROVE Clean'
    BY <2>3 DEF Renew, Clean
  <2>4. ASSUME NEW p \in Processes, Connect(p) \/ Connected(p) \/ TokenAges(p) PROVE Clean'
    BY <2>4 DEF Connect, Connected, TokenAges, TokenTypeOK, Clean
  <2>5. ASSUME NEW p \in Processes, Revoke(p) \/ Crash(p) PROVE FALSE
    BY <2>5 DEF Revoke, Crash, Clean
  <2>6. ASSUME NEW p \in Processes, RefreshSwitch(p) PROVE Clean'
    BY <2>6 DEF RefreshSwitch, TokenTypeOK, Clean
  <2>7. ASSUME NEW p \in Processes, NEW on \in BOOLEAN, SetStopped(p, on) PROVE Clean'
    BY <2>7 DEF SetStopped, TokenTypeOK, Clean
  <2>8. CASE Lapse \/ Reap
    BY <2>8 DEF Lapse, Reap, Clean
  <2>9. CASE HealthChanges
    BY <2>9 DEF HealthChanges, Clean
  <2>10. CASE UNCHANGED tokenVars
    BY <2>10 DEF tokenVars, Clean
  <2> QED
    BY <2>1, <2>2, <2>3, <2>4, <2>5, <2>6, <2>7, <2>8, <2>9, <2>10 DEF TokenNext
<1> QED
  BY <1>1, TokenTypeCorrect, PTL DEF TokenSpec, CleanStays

-----------------------------------------------------------------------------

AuthPcs == {"authLocked", "authFree"}
OverPcs == {"idle", "failed"}

\* In a process that knows of the stop no call or connection test begins, no authentication
\* starts, a call that is over stays over and, once no authentication is under way, no
\* token arrives; and with the database well it goes on knowing until the switch is set
\* back.
FreezeKept ==
  [][\A p \in Processes : seen[p] =>
       /\ \A c \in CallsOf(p) :
            /\ pc[c] = "idle" => pc'[c] = "idle"
            /\ pc[c] \in OverPcs => pc'[c] \in OverPcs
            /\ pc[c] \notin AuthPcs => pc'[c] \notin AuthPcs
       /\ p \notin connecting => p \notin connecting'
       /\ cache[p] = "none" /\ p \notin connecting /\ (\A c \in CallsOf(p) : pc[c] \notin AuthPcs)
            => cache'[p] = "none"
       /\ stopped /\ healthy /\ stopped' => seen'[p]]_tokenVars

\* What a step does to a call of a process that knows of the stop.
CallKept(c) ==
  /\ pc[c] = "idle" => pc'[c] = "idle"
  /\ pc[c] \in OverPcs => pc'[c] \in OverPcs
  /\ pc[c] \notin AuthPcs => pc'[c] \notin AuthPcs

\* A settled promise wakes only those who await it.
LEMMA SettleKeeps ==
  ASSUME TokenTypeOK, Flights, NEW e \in Calls, NEW t, SettlePromise(e, t), NEW c \in Calls
  PROVE  CallKept(c)
<1>1. promise[c] = e => pc[c] \notin OverPcs
  BY TokenAssumption DEF Flights, OverPcs, RefreshPcs, LockedPcs
<1>2. pc'[c] = pc[c] \/ (promise[c] = e /\ pc'[c] \in {"failed", "call"})
  BY DEF SettlePromise, Woken
<1> QED
  BY <1>1, <1>2 DEF CallKept, OverPcs, AuthPcs

\* A call that goes on is neither over nor begins to authenticate.
LEMMA GotoKeeps ==
  ASSUME TokenTypeOK, NEW e \in Calls, NEW where, Goto(e, where), NEW c \in Calls,
         pc[e] = "idle" => where = "idle",
         pc[e] \in OverPcs => where \in OverPcs,
         pc[e] \notin AuthPcs => where \notin AuthPcs
  PROVE  CallKept(c)
<1>1. c = e => pc'[c] = where
  BY DEF TokenTypeOK, Goto
<1>2. c # e => pc'[c] = pc[c]
  BY DEF TokenTypeOK, Goto
<1> QED
  BY <1>1, <1>2 DEF CallKept

LEMMA ProceedsKeeps ==
  ASSUME TokenTypeOK, Flights, NEW e \in Calls, Proceeds(e), NEW c \in Calls, seen[ProcessOf[c]]
  PROVE  CallKept(c)
<1> USE DEF OverPcs, AuthPcs
<1>1. CASE First(e) \/ Unauthorized(e)
  <2>1. PICK t : GetToken(e, t) /\ pc[e] \in {"get", "call"}
    BY <1>1 DEF First, Unauthorized
  <2>2. PICK where \in {"call", "waiting", "locking"} : Goto(e, where)
    BY <2>1 DEF GetToken
  <2> QED
    BY <2>1, <2>2, GotoKeeps
<1>2. CASE Acquire(e)
  <2>1. PICK where \in {"locked", "takeover"} : Goto(e, where) /\ pc[e] = "locking"
    BY <1>2 DEF Acquire
  <2> QED
    BY <2>1, GotoKeeps
<1>3. CASE TakeOver(e)
  <2>1. PICK where \in {"verify", "backoff"} : Goto(e, where) /\ pc[e] = "takeover"
    BY <1>3 DEF TakeOver
  <2> QED
    BY <2>1, GotoKeeps
<1>4. CASE Verify(e)
  <2>1. PICK where \in {"locked", "backoff"} : Goto(e, where) /\ pc[e] = "verify"
    BY <1>4 DEF Verify
  <2> QED
    BY <2>1, GotoKeeps
<1>5. CASE AuthenticateLocked(e)
  <2>1. CASE c = e
    <3>1. Goto(e, "releasing") /\ pc[e] = "locked"
      BY <1>5, <2>1 DEF AuthenticateLocked, Passes
    <3> QED
      BY <3>1, GotoKeeps
  <2>2. CASE c # e
    BY <1>5, <2>2 DEF AuthenticateLocked, Goto, TokenTypeOK, CallKept
  <2> QED
    BY <2>1, <2>2
<1>6. CASE AuthenticateFree(e)
  <2>1. CASE SettlePromise(e, cache[ProcessOf[e]])
    BY <2>1, SettleKeeps
  <2>2. CASE Passes(e) /\ Goto(e, "authFree")
    <3>1. c # e
      BY <2>2 DEF Passes
    <3> QED
      BY <2>2, <3>1 DEF Goto, TokenTypeOK, CallKept
  <2> QED
    BY <1>6, <2>1, <2>2 DEF AuthenticateFree
<1>7. CASE Authenticated(e) \/ AuthenticationFails(e)
  <2>1. PICK where \in {"releasing", "recording"} : Goto(e, where) /\ pc[e] \in AuthPcs
    BY <1>7 DEF Authenticated, AuthenticationFails, HasAnswered
  <2> QED
    BY <2>1, GotoKeeps
<1>8. CASE Recorded(e) \/ Release(e) \/ LockFails(e)
  BY <1>8, SettleKeeps DEF Recorded, Release, LockFails
<1>9. CASE CallAnswered(e) \/ UnauthorizedTwice(e) \/ CallFails(e) \/ Throws(e)
  <2>1. PICK where \in OverPcs : Goto(e, where) /\ pc[e] \in {"call", "failed"}
    BY <1>9 DEF CallAnswered, UnauthorizedTwice, CallFails, Throws, End
  <2> QED
    BY <2>1, GotoKeeps
<1> QED
  BY <1>1, <1>2, <1>3, <1>4, <1>5, <1>6, <1>7, <1>8, <1>9 DEF Proceeds

\* What a call does to the cache of a process: only an authentication puts a token there.
LEMMA ProceedsCaches ==
  ASSUME TokenTypeOK, NEW e \in Calls, Proceeds(e), NEW p \in Processes
  PROVE  /\ seen' = seen /\ stopped' = stopped /\ connecting' = connecting
         /\ cache'[p] \in {cache[p], "none"} \/ (e \in CallsOf(p) /\ pc[e] \in AuthPcs)
<1>1. CASE Authenticated(e)
  BY <1>1 DEF Authenticated, HasAnswered, CallsOf, AuthPcs, TokenTypeOK, world
<1>2. CASE Unauthorized(e)
  BY <1>2 DEF Unauthorized, Invalidated, TokenTypeOK, world
<1>3. ASSUME ~ Authenticated(e), ~ Unauthorized(e)
      PROVE  UNCHANGED <<cache, seen, stopped, connecting>>
  BY <1>3
  DEF Proceeds, First, Acquire, TakeOver, Verify, LockFails, AuthenticateLocked, AuthenticateFree,
      AuthenticationFails, HasAnswered, Recorded, Release, CallAnswered, UnauthorizedTwice, CallFails, Throws,
      world, local
<1> QED
  BY <1>1, <1>2, <1>3

\* The master switch ends all traffic in every process that has seen it, through retries,
\* late waiters, refreshes under way and crashes: the safety half of FreezeDrains.
THEOREM FreezeIsKept == TokenSpec => FreezeKept
<1> DEFINE CacheKept(p) ==
             /\ p \notin connecting => p \notin connecting'
             /\ cache[p] = "none" /\ p \notin connecting
                /\ (\A c \in CallsOf(p) : pc[c] \notin AuthPcs) => cache'[p] = "none"
           StopKept(p)  == stopped /\ healthy /\ stopped' => seen'[p]
<1>1. ASSUME Typed, [TokenNext]_tokenVars, NEW p \in Processes, seen[p]
      PROVE  (\A c \in CallsOf(p) : CallKept(c)) /\ CacheKept(p) /\ StopKept(p)
  <2>a. TokenTypeOK /\ Flights /\ \A c \in CallsOf(p) : c \in Calls /\ ProcessOf[c] = p
    BY <1>1 DEF Typed, CallsOf
  <2>b. pc' = pc => \A c \in CallsOf(p) : CallKept(c)
    BY DEF CallKept
  <2> USE DEF calls, local, lease, world
  <2>1. ASSUME NEW e \in Calls, Begin(e)
        PROVE  (\A c \in CallsOf(p) : CallKept(c)) /\ UNCHANGED <<cache, connecting, seen>>
    <3>1. ProcessOf[e] # p
      BY <1>1, <2>1 DEF Begin, Passes
    <3> QED
      BY <2>a, <2>1, <3>1 DEF Begin, Goto, TokenTypeOK, CallKept
  <2>2. ASSUME NEW e \in Calls, Proceeds(e)
        PROVE  (\A c \in CallsOf(p) : CallKept(c)) /\ CacheKept(p) /\ StopKept(p)
    <3>1. \A c \in CallsOf(p) : CallKept(c)
      BY <1>1, <2>a, <2>2, ProceedsKeeps
    <3>2. CacheKept(p) /\ StopKept(p)
      BY <1>1, <2>a, <2>2, ProceedsCaches
    <3> QED
      BY <3>1, <3>2
  <2>3. ASSUME NEW e \in Calls, Renew(e) PROVE UNCHANGED <<pc, cache, connecting, seen>>
    BY <2>3 DEF Renew
  <2>4. ASSUME NEW q \in Processes, Connect(q) \/ Connected(q) \/ TokenAges(q) \/ Revoke(q)
        PROVE  UNCHANGED <<pc, seen>> /\ CacheKept(p)
    BY <1>1, <2>a, <2>4 DEF Connect, Connected, TokenAges, Revoke, TokenTypeOK
  <2>5. ASSUME NEW q \in Processes, Crash(q)
        PROVE  (\A c \in CallsOf(p) : CallKept(c)) /\ CacheKept(p) /\ StopKept(p)
    <3>1. \A c \in CallsOf(p) : pc'[c] \in {pc[c], "idle"}
      BY <2>a, <2>5 DEF Crash
    <3>2. \A c \in CallsOf(p) : CallKept(c)
      BY <3>1 DEF CallKept, OverPcs, AuthPcs
    <3>3. CacheKept(p) /\ StopKept(p)
      BY <1>1, <2>a, <2>5 DEF Crash, TokenTypeOK
    <3> QED
      BY <3>2, <3>3
  <2>6. ASSUME NEW q \in Processes, RefreshSwitch(q)
        PROVE  UNCHANGED <<pc, cache, connecting>> /\ StopKept(p)
    BY <1>1, <2>a, <2>6 DEF RefreshSwitch, TokenTypeOK
  <2>7. ASSUME NEW q \in Processes, NEW on \in BOOLEAN, SetStopped(q, on)
        PROVE  UNCHANGED <<pc, cache, connecting>> /\ StopKept(p)
    BY <1>1, <2>a, <2>7 DEF SetStopped, TokenTypeOK
  <2>8. CASE Lapse \/ Reap \/ HealthChanges \/ UNCHANGED tokenVars
    <3>1. UNCHANGED <<pc, cache, connecting, seen>>
      BY <2>8 DEF Lapse, Reap, HealthChanges, tokenVars
    <3> QED
      BY <1>1, <2>b, <3>1
  <2> QED
    BY <1>1, <2>b, <2>1, <2>2, <2>3, <2>4, <2>5, <2>6, <2>7, <2>8 DEF TokenNext
<1>2. Typed /\ [TokenNext]_tokenVars =>
        [\A p \in Processes : seen[p] =>
           (\A c \in CallsOf(p) : CallKept(c)) /\ CacheKept(p) /\ StopKept(p)]_tokenVars
  BY <1>1
<1>3. TokenSpec => []Typed
  BY InitTyped, NextTyped, PTL DEF TokenSpec
<1>4. Typed /\ [TokenNext]_tokenVars =>
        [\A p \in Processes : seen[p] =>
           /\ \A c \in CallsOf(p) :
                /\ pc[c] = "idle" => pc'[c] = "idle"
                /\ pc[c] \in OverPcs => pc'[c] \in OverPcs
                /\ pc[c] \notin AuthPcs => pc'[c] \notin AuthPcs
           /\ p \notin connecting => p \notin connecting'
           /\ cache[p] = "none" /\ p \notin connecting
              /\ (\A c \in CallsOf(p) : pc[c] \notin AuthPcs) => cache'[p] = "none"
           /\ stopped /\ healthy /\ stopped' => seen'[p]]_tokenVars
  BY <1>2 DEF CallKept
<1> QED
  BY <1>3, <1>4, PTL DEF TokenSpec, FreezeKept
=============================================================================

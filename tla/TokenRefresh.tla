---------------------------- MODULE TokenRefresh ----------------------------
(***************************************************************************)
(* How the calls to FastTest of one workspace share a token.  Each process *)
(* keeps the token in memory; a call that finds none joins the refresh its *)
(* process has in flight or starts one, which takes the distributed lock,  *)
(* authenticates and releases it.  A refresh that does not get the lock    *)
(* waits for a moment and authenticates all the same.  A call answered 401 *)
(* drops the token of its process and tries once more.                     *)
(*                                                                         *)
(* A token is reduced to whether FastTest still takes it.  Time is reduced *)
(* to its events: a token comes within the margin of its expiry, a lease   *)
(* runs out.  The lock's owner is the refresh that took it; ORPHAN stands  *)
(* for one that is gone without having released it.                        *)
(***************************************************************************)
CONSTANTS
  Processes,
  Calls,          \* callers of the client: runners, web requests
  ProcessOf,      \* [Calls -> Processes]
  NoCall, Orphan,
  TokenFaults,         \* hang (a holder outlives its lease), crash, revoke
  Switchable      \* whether operators use the master switch

ASSUME TokenAssumption ==
  /\ ProcessOf \in [Calls -> Processes]
  /\ NoCall \notin Calls /\ Orphan \notin Calls /\ NoCall # Orphan
  /\ TokenFaults \subseteq {"hang", "crash", "revoke"}
  /\ Switchable \in BOOLEAN

VARIABLES
  pc,        \* where each call is
  token,     \* [Calls -> Tokens]: the token it uses, or its refresh has got
  promise,   \* [Calls -> Calls \cup {NoCall}]: whose refresh it awaits
  retried,   \* [Calls -> BOOLEAN]: it has been answered 401 once
  cache,     \* [Processes -> Tokens]: the token cache
  inflight,  \* [Processes -> Calls \cup {NoCall}]: refreshInFlight
  connecting, \* processes with a connection test or an AUTHENTICATE job under way
  lock,      \* owner of the row of DistributedLock, or no row
  leased,    \* its expiresAt is ahead
  lapsed,    \* history: calls whose lease ran out while they had the lock
  stopped,   \* the setting fasttest.frozen
  seen,      \* [Processes -> BOOLEAN]: the copy of it each process keeps
  healthy    \* FastTest, the database and the processes work as they should:
             \* faults happen only while it is FALSE

calls == <<pc, token, promise, retried>>
local == <<cache, inflight, connecting>>
lease == <<lock, leased, lapsed>>
world == <<stopped, seen, healthy>>
tokenVars  == <<pc, token, promise, retried, cache, inflight, connecting, lock, leased,
               lapsed, stopped, seen, healthy>>

Tokens     == {"none", "good", "bad"}
LockedPcs  == {"locked", "authLocked", "releasing"}
RefreshPcs == {"locking", "takeover", "verify", "backoff", "authFree", "recording"} \cup LockedPcs
HttpPcs    == {"call", "authLocked", "authFree"}
Pcs        == {"idle", "get", "waiting", "call", "failed"} \cup RefreshPcs

TokenTypeOK ==
  /\ pc \in [Calls -> Pcs]
  /\ token \in [Calls -> Tokens]
  /\ promise \in [Calls -> Calls \cup {NoCall}]
  /\ retried \in [Calls -> BOOLEAN]
  /\ cache \in [Processes -> Tokens]
  /\ inflight \in [Processes -> Calls \cup {NoCall}]
  /\ connecting \in SUBSET Processes
  /\ lock \in Calls \cup {NoCall, Orphan}
  /\ leased \in BOOLEAN
  /\ lapsed \in SUBSET Calls
  /\ stopped \in BOOLEAN
  /\ seen \in [Processes -> BOOLEAN]
  /\ healthy \in BOOLEAN

TokenInit ==
  /\ pc = [c \in Calls |-> "idle"]
  /\ token = [c \in Calls |-> "none"]
  /\ promise = [c \in Calls |-> NoCall]
  /\ retried = [c \in Calls |-> FALSE]
  /\ cache = [p \in Processes |-> "none"]
  /\ inflight = [p \in Processes |-> NoCall] /\ connecting = {}
  /\ lock = NoCall /\ leased = FALSE /\ lapsed = {}
  /\ stopped = FALSE /\ seen = [p \in Processes |-> FALSE]
  /\ healthy = TRUE

Goto(c, where) == pc' = [pc EXCEPT ![c] = where]
CallsOf(p) == {c \in Calls : ProcessOf[c] = p}

\* Mutant: a lock can be taken while its lease is good, and never afterwards.
NotExpired == lock # NoCall /\ leased

\* acquireLock's and reapExpiredLocks' condition, expiresAt < now.
Expired == lock # NoCall /\ ~ leased

-----------------------------------------------------------------------------
(* getToken.  No await between its reads and its write.                     *)

\* Mutant: a refresh in flight is not joined.
JoinsNone(c) == FALSE

Joins(c) == inflight[ProcessOf[c]] # NoCall

\* From cache entry t: use it, or await the refresh in flight, or start one.
GetToken(c, t) ==
  LET p == ProcessOf[c]
  IN  \/ /\ t # "none"
         /\ Goto(c, "call")
         /\ token' = [token EXCEPT ![c] = t]
         /\ UNCHANGED <<promise, inflight>>
      \/ /\ t = "none" /\ Joins(c)
         /\ Goto(c, "waiting")
         /\ promise' = [promise EXCEPT ![c] = inflight[p]]
         /\ token' = [token EXCEPT ![c] = "none"]
         /\ UNCHANGED inflight
      \/ /\ t = "none" /\ ~ Joins(c)
         /\ Goto(c, "locking")
         /\ promise' = [promise EXCEPT ![c] = c]
         /\ inflight' = [inflight EXCEPT ![p] = c]
         /\ token' = [token EXCEPT ![c] = "none"]

\* Mutant: a call does not look at the master switch.
PassesAlways(c) == TRUE

\* assertFastTestNotFrozen, on the process's copy of the switch.
Passes(c) == ~ seen[ProcessOf[c]]

Begin(c) ==
  /\ pc[c] = "idle"
  /\ Passes(c)
  /\ Goto(c, "get")
  /\ UNCHANGED <<token, promise, retried, local, lease, world>>

First(c) ==
  /\ pc[c] = "get"
  /\ GetToken(c, cache[ProcessOf[c]])
  /\ UNCHANGED <<retried, cache, connecting, lease, world>>

-----------------------------------------------------------------------------
(* refreshToken, inside withLock.                                           *)

\* Mutant: only the call that has refreshed goes on.
WokenAlone(c) == {c}

Woken(c) == {d \in Calls : promise[d] = c}

\* The promise settles: it leaves refreshInFlight, and everyone who awaits it goes
\* on with token t or with its error.
SettlePromise(c, t) ==
  /\ pc' = [d \in Calls |-> IF d \notin Woken(c) THEN pc[d]
                            ELSE IF t = "none" THEN "failed" ELSE "call"]
  /\ token' = [d \in Calls |-> IF d \in Woken(c) THEN t ELSE token[d]]
  /\ promise' = [d \in Calls |-> IF d \in Woken(c) THEN NoCall ELSE promise[d]]
  /\ inflight' = [inflight EXCEPT ![ProcessOf[c]] = NoCall]

Owned(c) == lock' = c /\ leased' = TRUE /\ lapsed' = lapsed \ {c}
Unowned  == lock' = Orphan /\ leased' = TRUE /\ UNCHANGED lapsed

\* The row is inserted; whatever that fails with is taken to mean that there is one
\* already.  An insert that was made and not acknowledged leaves a row nobody knows of.
Acquire(c) ==
  /\ pc[c] = "locking"
  /\ \/ /\ lock = NoCall
        /\ Goto(c, "locked")
        /\ Owned(c)
     \/ /\ lock # NoCall \/ ~ healthy
        /\ Goto(c, "takeover")
        /\ UNCHANGED lease
     \/ /\ lock = NoCall /\ ~ healthy
        /\ Goto(c, "takeover")
        /\ Unowned
  /\ UNCHANGED <<token, promise, retried, local, world>>

\* That row is taken over if its lease has run out; it may be gone by now.
TakeOver(c) ==
  /\ pc[c] = "takeover"
  /\ \/ /\ Expired
        /\ Goto(c, "verify")
        /\ Owned(c)
     \/ /\ ~ Expired
        /\ Goto(c, "backoff")
        /\ UNCHANGED lease
  /\ UNCHANGED <<token, promise, retried, local, world>>

\* The owner is read back after a takeover.
Verify(c) ==
  /\ pc[c] = "verify"
  /\ \/ lock = c /\ Goto(c, "locked") /\ UNCHANGED lapsed
     \/ lock # c /\ Goto(c, "backoff") /\ lapsed' = lapsed \ {c}
  /\ UNCHANGED <<token, promise, retried, local, lock, leased, world>>

\* The cache is looked at again; if it is still empty the process authenticates,
\* unless the switch has been set.
AuthenticateLocked(c) ==
  LET t == cache[ProcessOf[c]]
  IN  /\ pc[c] = "locked"
      /\ Goto(c, IF t = "none" /\ Passes(c) THEN "authLocked" ELSE "releasing")
      /\ token' = [token EXCEPT ![c] = t]
      /\ UNCHANGED <<promise, retried, local, lease, world>>

\* The same 250 ms after the lock was refused.
AuthenticateFree(c) ==
  LET t == cache[ProcessOf[c]]
  IN  /\ pc[c] = "backoff"
      /\ \/ /\ t = "none" /\ Passes(c)
            /\ Goto(c, "authFree")
            /\ UNCHANGED <<token, promise, inflight>>
         \/ /\ t # "none" \/ ~ Passes(c)
            /\ SettlePromise(c, t)
      /\ UNCHANGED <<retried, cache, connecting, lease, world>>

\* FastTest has answered, with token t or none: the outcome is still to be recorded.
HasAnswered(c, t) ==
  /\ pc[c] \in {"authLocked", "authFree"}
  /\ Goto(c, IF pc[c] = "authLocked" THEN "releasing" ELSE "recording")
  /\ token' = [token EXCEPT ![c] = t]
  /\ UNCHANGED <<promise, retried, inflight, connecting, lease, world>>

\* A new token is cached before anything else.
Authenticated(c) ==
  /\ HasAnswered(c, "good")
  /\ cache' = [cache EXCEPT ![ProcessOf[c]] = "good"]

\* Refused, timed out, or no answer.
AuthenticationFails(c) ==
  /\ ~ healthy
  /\ HasAnswered(c, "none")
  /\ UNCHANGED cache

Recorded(c) ==
  /\ pc[c] = "recording"
  /\ SettlePromise(c, token[c])
  /\ UNCHANGED <<retried, cache, connecting, lease, world>>

\* releaseLock; when that fails the error is swallowed and the row stays.
Release(c) ==
  /\ pc[c] = "releasing"
  /\ SettlePromise(c, token[c])
  /\ \/ lock' = IF lock = c THEN NoCall ELSE lock
     \/ ~ healthy /\ lock' = IF lock = c THEN Orphan ELSE lock
  /\ leased' = (leased /\ lock' # NoCall)
  /\ lapsed' = lapsed \ {c}
  /\ UNCHANGED <<retried, cache, connecting, world>>

\* The takeover or the read after it fails: the refresh is rejected.  The takeover
\* may have been made all the same.
LockFails(c) ==
  /\ ~ healthy
  /\ pc[c] \in {"takeover", "verify"}
  /\ SettlePromise(c, "none")
  /\ \/ /\ lock' = IF lock = c THEN Orphan ELSE lock
        /\ lapsed' = lapsed \ {c}
        /\ UNCHANGED leased
     \/ pc[c] = "takeover" /\ Expired /\ Unowned
  /\ UNCHANGED <<retried, cache, connecting, world>>

Renew(c) ==
  /\ pc[c] \in LockedPcs
  /\ lock = c /\ ~ leased
  /\ leased' = TRUE /\ lapsed' = lapsed \ {c}
  /\ UNCHANGED <<calls, local, lock, world>>

-----------------------------------------------------------------------------
(* authedGetRaw: the call itself.                                           *)

End(c, where) ==
  /\ Goto(c, where)
  /\ token' = [token EXCEPT ![c] = "none"]
  /\ retried' = [retried EXCEPT ![c] = FALSE]

CallAnswered(c) ==
  /\ pc[c] = "call"
  /\ token[c] = "good"
  /\ End(c, "idle")
  /\ UNCHANGED <<promise, local, lease, world>>

\* Mutant: the cache keeps the token that was refused.
KeepsToken(c) == cache

\* invalidateToken drops the process's token, whichever it is by now.
Invalidated(c) == [cache EXCEPT ![ProcessOf[c]] = "none"]

\* 401, the first time: drop the token, get one, try again.
Unauthorized(c) ==
  /\ pc[c] = "call"
  /\ token[c] = "bad" /\ ~ retried[c]
  /\ cache' = Invalidated(c)
  /\ retried' = [retried EXCEPT ![c] = TRUE]
  /\ GetToken(c, Invalidated(c)[ProcessOf[c]])
  /\ UNCHANGED <<connecting, lease, world>>

\* 401 again.
UnauthorizedTwice(c) ==
  /\ pc[c] = "call"
  /\ token[c] = "bad" /\ retried[c]
  /\ End(c, "failed")
  /\ UNCHANGED <<promise, local, lease, world>>

\* Any other error.
CallFails(c) ==
  /\ ~ healthy
  /\ pc[c] = "call"
  /\ End(c, "failed")
  /\ UNCHANGED <<promise, local, lease, world>>

\* The error is thrown to the handler.
Throws(c) ==
  /\ pc[c] = "failed"
  /\ End(c, "idle")
  /\ UNCHANGED <<promise, local, lease, world>>

-----------------------------------------------------------------------------
(* Everything else that touches the token, the lock and the switch.         *)

\* A connection test or an AUTHENTICATE job looks at the switch and authenticates,
\* without the lock.  (Bound: one at a time in a process; all they do is cache a token.)
Connect(p) ==
  /\ p \notin connecting
  /\ ~ seen[p]
  /\ connecting' = connecting \cup {p}
  /\ UNCHANGED <<calls, cache, inflight, lease, world>>

\* The answer comes; by now the switch may be set.
Connected(p) ==
  /\ p \in connecting
  /\ connecting' = connecting \ {p}
  /\ \/ cache' = [cache EXCEPT ![p] = "good"]
     \/ ~ healthy /\ UNCHANGED cache
  /\ UNCHANGED <<calls, inflight, lease, world>>

\* The cached token comes within the margin of its expiry.
TokenAges(p) ==
  /\ cache' = [cache EXCEPT ![p] = "none"]
  /\ UNCHANGED <<calls, inflight, connecting, lease, world>>

\* FastTest stops taking the tokens a process has got so far.
Revoke(p) ==
  /\ ~ healthy /\ "revoke" \in TokenFaults
  /\ cache' = [cache EXCEPT ![p] = IF @ = "good" THEN "bad" ELSE @]
  /\ token' = [c \in Calls |-> IF ProcessOf[c] = p /\ token[c] = "good" THEN "bad" ELSE token[c]]
  /\ UNCHANGED <<pc, promise, retried, inflight, connecting, lease, world>>

\* The lease of a gone refresh runs out, or that of one that hangs.
Lapse ==
  /\ lock # NoCall /\ leased
  /\ lock = Orphan \/ (~ healthy /\ "hang" \in TokenFaults)
  /\ leased' = FALSE
  /\ lapsed' = lapsed \cup ({lock} \cap Calls)
  /\ UNCHANGED <<calls, local, lock, world>>

\* reapExpiredLocks, in every scheduler tick.
Reap ==
  /\ Expired
  /\ lock' = NoCall /\ leased' = FALSE
  /\ UNCHANGED <<calls, local, lapsed, world>>

Crash(p) ==
  LET gone == CallsOf(p)
  IN  /\ ~ healthy /\ "crash" \in TokenFaults
      /\ pc' = [c \in Calls |-> IF c \in gone THEN "idle" ELSE pc[c]]
      /\ token' = [c \in Calls |-> IF c \in gone THEN "none" ELSE token[c]]
      /\ promise' = [c \in Calls |-> IF c \in gone THEN NoCall ELSE promise[c]]
      /\ retried' = [c \in Calls |-> IF c \in gone THEN FALSE ELSE retried[c]]
      /\ cache' = [cache EXCEPT ![p] = "none"]
      /\ inflight' = [inflight EXCEPT ![p] = NoCall]
      /\ connecting' = connecting \ {p}
      /\ lock' = IF lock \in gone THEN Orphan ELSE lock
      /\ lapsed' = lapsed \ gone
      /\ seen' = [seen EXCEPT ![p] = stopped]
      /\ UNCHANGED <<leased, stopped, healthy>>

\* The process that serves the request sees the switch at once, the others when
\* their copy is four seconds old; a failed read counts as not stopped.
SetStopped(p, on) ==
  /\ Switchable
  /\ stopped' = on
  /\ seen' = [seen EXCEPT ![p] = on]
  /\ UNCHANGED <<calls, local, lease, healthy>>

RefreshSwitch(p) ==
  /\ \/ seen' = [seen EXCEPT ![p] = stopped]
     \/ ~ healthy /\ seen' = [seen EXCEPT ![p] = FALSE]
  /\ UNCHANGED <<calls, local, lease, stopped, healthy>>

HealthChanges ==
  /\ healthy' = ~ healthy
  /\ UNCHANGED <<calls, local, lease, stopped, seen>>

-----------------------------------------------------------------------------

\* What a call under way does next; each await of the code ends.
Proceeds(c) ==
  \/ First(c)
  \/ Acquire(c) \/ TakeOver(c) \/ Verify(c) \/ LockFails(c)
  \/ AuthenticateLocked(c) \/ AuthenticateFree(c)
  \/ Authenticated(c) \/ AuthenticationFails(c) \/ Recorded(c)
  \/ Release(c)
  \/ CallAnswered(c) \/ Unauthorized(c) \/ UnauthorizedTwice(c) \/ CallFails(c)
  \/ Throws(c)

TokenNext ==
  \/ \E c \in Calls : Begin(c) \/ Proceeds(c) \/ Renew(c)
  \/ \E p \in Processes :
       \/ Connect(p) \/ Connected(p) \/ TokenAges(p) \/ Revoke(p) \/ Crash(p)
       \/ RefreshSwitch(p)
  \/ \E p \in Processes, on \in BOOLEAN : SetStopped(p, on)
  \/ Lapse \/ Reap
  \/ HealthChanges

TokenSpec == TokenInit /\ [][TokenNext]_tokenVars

\* HTTP calls and queries end (requestTimeoutMs), leases run out, the tick reaps
\* what has expired, and copies of the switch get old.
TokenFairness ==
  /\ \A c \in Calls : WF_tokenVars(Proceeds(c))
  /\ \A p \in Processes : WF_tokenVars(RefreshSwitch(p)) /\ WF_tokenVars(Connected(p))
  /\ WF_tokenVars(Lapse /\ lock = Orphan) /\ WF_tokenVars(Reap)

FairTokenSpec == TokenSpec /\ TokenFairness

-----------------------------------------------------------------------------

\* "Concurrent callers in the same process share ONE authenticate": one refresh at a
\* time in each process, the one that getToken's map names.
SingleFlight ==
  \A c \in Calls : pc[c] \in RefreshPcs => inflight[ProcessOf[c]] = c

\* Whoever awaits a refresh awaits one that is under way in its own process: none
\* is left waiting for a promise that was settled or lost.
WaitersAreServed ==
  \A c \in Calls : pc[c] = "waiting" =>
    /\ promise[c] \in CallsOf(ProcessOf[c])
    /\ pc[promise[c]] \in RefreshPcs

\* Of two refreshes inside the lock at least one has let its lease run out.
LeaseHolderAlone ==
  \A c, d \in Calls :
    pc[c] \in LockedPcs /\ pc[d] \in LockedPcs /\ c # d => c \in lapsed \/ d \in lapsed

\* Once FastTest is back and nothing goes wrong any more, calls stop failing: no
\* refused token, rejected promise or abandoned lock stays behind.
RecoversOnceUp ==
  <>[](healthy /\ ~ stopped) => <>[](\A c \in Calls : pc[c] # "failed")

\* The master switch ends all traffic: calls and connection tests under way end and no
\* retry, refresh or late waiter starts another.
FreezeDrains ==
  <>[](healthy /\ stopped) =>
    <>[](connecting = {} /\ \A c \in Calls : pc[c] \notin HttpPcs)

\* "A crashed holder's lock is reclaimable after expiry": once the database answers
\* again (while it does not, unacknowledged takeovers can renew an abandoned lock for
\* ever) none stays behind.
AbandonedLockIsFreed == <>[]healthy => (lock = Orphan ~> lock # Orphan)
=============================================================================

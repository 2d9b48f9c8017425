------------------------------- MODULE Pacing -------------------------------
(***************************************************************************)
(* How fast one worker process may call FastTest: the bucket of a          *)
(* workspace (rate-limiter.service.ts, TokenBucket) under the throttle of  *)
(* adaptive.service.ts, and the operator's ceiling over all workspaces     *)
(* (queue.service.ts, globalRateAllows).  A behaviour follows one of the   *)
(* two gates.                                                              *)
(*                                                                         *)
(* Time goes by in ticks, Minute of them to a minute; the model keeps the  *)
(* time since each recorded instant, up to where it no longer matters.     *)
(* Tokens are counted in units of 1/Minute, throttles in per mille.        *)
(***************************************************************************)
EXTENDS Integers, FiniteSetsExt

CONSTANTS
  Minute,        \* ticks in a minute
  RateConfigs,   \* limits a workspace may have: rate (units per tick), rpm, delay, burst
  GlobalRpms,    \* ceilings the operator may set
  MinThrottle, ThrottleStep, \* ADAPTIVE_MIN_THROTTLE, and the step of recovery
  RecoverAfter   \* ADAPTIVE_RECOVER_MS, in ticks

VARIABLES
  gate,      \* "workspace" or "global"
  patient,   \* the caller comes back exactly after retryAfterMs
  rate,      \* the limits in force
  bucket,    \* TokenBucket or globalBucket
  adaptive,  \* throttle, time since it was lowered, and whether it is up to date
  stress,    \* FastTest pushes back
  recent,    \* recent[t]: calls granted within the last t ticks and in this one
  wait,      \* what is left of the caller's wait
  refusals   \* how often in a row it was refused under the same limits and throttle

paceVars == <<gate, patient, rate, bucket, adaptive, stress, recent, wait, refusals>>

Least(a, b)    == IF a < b THEN a ELSE b
Greatest(a, b) == IF a > b THEN a ELSE b
CeilDiv(a, b)  == (a + b - 1) \div b
Full           == 1000

TopBurst == Max({c.burst : c \in RateConfigs} \cup GlobalRpms)
TopRpm   == Max({c.rpm : c \in RateConfigs} \cup GlobalRpms)

\* What a config asks for between two calls: throttled, but never by more than ten.
SpacingOf(config, throttle) == CeilDiv(config.delay * Full, Greatest(throttle, Full \div 10))

\* An age at which the bucket is full and every delay over.
Horizon == Max({TopBurst * Minute} \cup {SpacingOf(c, MinThrottle) : c \in RateConfigs})
Ages    == 0 .. Horizon

Older(age) == Least(age + 1, Horizon)

\* The forms of the operator take no limit of 0 for a workspace (rateSchema), and
\* a global ceiling of 0 means that there is none (globalRpmSchema).
ASSUME PacingAssumption ==
  /\ Minute \in Nat \ {0} /\ ThrottleStep \in Nat /\ RecoverAfter \in Nat
  /\ MinThrottle \in Nat \ {0} /\ MinThrottle <= Full
  /\ RateConfigs # {} /\ IsFiniteSet(RateConfigs)
  /\ RateConfigs \subseteq [rate : Nat, rpm : Nat \ {0}, delay : Nat, burst : Nat \ {0}]
  /\ IsFiniteSet(GlobalRpms) /\ GlobalRpms \subseteq Nat \ {0}

-----------------------------------------------------------------------------
(* The throttle (currentThrottle).                                          *)

\* Halved under stress, raised by steps once the last halving is long enough ago.
Evaluate(a) ==
  [a EXCEPT !.throttle = IF stress THEN Greatest(MinThrottle, a.throttle \div 2)
                         ELSE IF a.calm > RecoverAfter THEN Least(Full, a.throttle + ThrottleStep)
                         ELSE @,
            !.calm     = IF stress THEN 0 ELSE @,
            !.fresh    = TRUE]

\* Recomputed at most once per tick; calls in between are served the stored value.
CurrentThrottle(a) == IF a.fresh THEN a ELSE Evaluate(a)

-----------------------------------------------------------------------------
(* The gates.  Each returns the bucket after the call and the wait, 0 when  *)
(* the call is granted.                                                     *)

Granted(b)    == [bucket |-> b, wait |-> 0]
Refused(b, w) == [bucket |-> b, wait |-> w]

\* The bucket with its tokens refilled, and the minute begun anew when it is over.
Refill(b, units, burst) ==
  [b EXCEPT !.tokens   = Least(burst * Minute, b.tokens + b.refilled * units),
            !.refilled = 0,
            !.window   = IF b.window >= Minute THEN 0 ELSE @,
            !.count    = IF b.window >= Minute THEN 0 ELSE @]

\* Mutant: the minute's count is not looked at.
NeverSpent(b, rpm) == FALSE

Spent(b, rpm) == b.count >= rpm

\* Mutant: a call refused for the minute is told to come back at the next tick.
NextTick(b) == 1

RestOfMinute(b) == Minute - b.window

\* Spacing first, then the count of the minute, then the tokens.
TryAcquire(b, throttle) ==
  LET units == Greatest(1, (rate.rate * throttle) \div Full)
      rpm   == Greatest(1, (rate.rpm * throttle) \div Full)
      delay == SpacingOf(rate, throttle)
      r     == Refill(b, units, rate.burst)
  IN  CASE r.granted < delay -> Refused(r, delay - r.granted)
        [] r.granted >= delay /\ Spent(r, rpm) -> Refused(r, RestOfMinute(r))
        [] r.granted >= delay /\ ~ Spent(r, rpm) /\ r.tokens < Minute ->
             Refused(r, CeilDiv(Minute - r.tokens, units))
        [] OTHER -> Granted([r EXCEPT !.tokens = @ - Minute, !.count = @ + 1, !.granted = 0])

\* One bucket that refills evenly and holds a minute's worth.  The runner only
\* idles when it is empty: it is told no time to wait.
GlobalRateAllows(b) ==
  LET r == [b EXCEPT !.tokens = Least(rate.rpm * Minute, b.tokens + b.refilled * rate.rpm),
                     !.refilled = 0]
  IN  IF r.tokens < Minute THEN Refused(r, 1) ELSE Granted([r EXCEPT !.tokens = @ - Minute])

-----------------------------------------------------------------------------

GlobalLimit(rpm) == [rate |-> rpm, rpm |-> rpm, delay |-> 0, burst |-> rpm]

Limits(g) == IF g = "workspace" THEN RateConfigs ELSE {GlobalLimit(n) : n \in GlobalRpms}

PacingTypeOK ==
  /\ gate \in {"workspace", "global"}
  /\ patient \in BOOLEAN /\ stress \in BOOLEAN
  /\ rate \in Limits(gate)
  /\ bucket \in [tokens : 0 .. TopBurst * Minute, refilled : Ages, window : 0 .. Minute,
                 count : 0 .. TopRpm, granted : Ages]
  /\ adaptive \in [throttle : MinThrottle .. Full, calm : 0 .. RecoverAfter + 1, fresh : BOOLEAN]
  /\ recent \in [0 .. Minute - 1 -> Nat]
  /\ wait \in Ages /\ refusals \in Nat

\* A new bucket is full; the global one is empty, but its last refill is in 1970.
PacingStart(g, p, r) ==
  /\ gate = g /\ patient = p /\ rate = r
  /\ bucket = [tokens |-> IF g = "workspace" THEN r.burst * Minute ELSE 0,
               refilled |-> IF g = "workspace" THEN 0 ELSE Horizon,
               window |-> 0, count |-> 0, granted |-> Horizon]
  /\ adaptive = [throttle |-> Full, calm |-> RecoverAfter + 1, fresh |-> FALSE]
  /\ stress = FALSE
  /\ recent = [t \in 0 .. Minute - 1 |-> 0]
  /\ wait = 0 /\ refusals = 0

PacingInit ==
  \E g \in {"workspace", "global"} :
    \E p \in (IF g = "workspace" THEN BOOLEAN ELSE {FALSE}), r \in Limits(g) : PacingStart(g, p, r)

Settle(reply, before) ==
  /\ bucket' = reply.bucket
  /\ recent' = IF reply.wait = 0 THEN [t \in DOMAIN recent |-> recent[t] + 1] ELSE recent
  /\ wait' = IF patient THEN reply.wait ELSE 0
  /\ refusals' = IF patient /\ reply.wait > 0 THEN before + 1 ELSE 0

\* syncOneRegistration asks for the throttle and then for a slot.
AcquireSlot ==
  /\ gate = "workspace" /\ wait = 0
  /\ adaptive' = CurrentThrottle(adaptive)
  /\ Settle(TryAcquire(bucket, adaptive'.throttle),
            IF adaptive'.throttle = adaptive.throttle THEN refusals ELSE 0)
  /\ UNCHANGED <<gate, patient, rate, stress>>

\* claimNext takes a token for every job.
ClaimSlot ==
  /\ gate = "global"
  /\ Settle(GlobalRateAllows(bucket), refusals)
  /\ UNCHANGED <<gate, patient, rate, adaptive, stress>>

\* An operator or the tuner changes the limits; the bucket stays (setConfig).
ChangeLimits ==
  /\ \E r \in Limits(gate) \ {rate} : rate' = r
  /\ bucket' = IF gate = "workspace" THEN bucket
               ELSE [bucket EXCEPT !.tokens = Least(@, rate'.rpm * Minute)]
  /\ refusals' = 0
  /\ UNCHANGED <<gate, patient, adaptive, stress, recent, wait>>

StressChanges ==
  /\ gate = "workspace"
  /\ stress' = ~ stress
  /\ refusals' = 0
  /\ UNCHANGED <<gate, patient, rate, bucket, adaptive, recent, wait>>

TickPacing ==
  /\ bucket' = [bucket EXCEPT !.refilled = Older(@), !.granted = Older(@),
                              !.window = IF gate = "workspace" THEN Least(@ + 1, Minute) ELSE @]
  /\ adaptive' = [adaptive EXCEPT !.calm = Least(@ + 1, RecoverAfter + 1), !.fresh = FALSE]
  /\ recent' = [t \in DOMAIN recent |-> IF t = 0 THEN 0 ELSE recent[t - 1]]
  /\ wait' = Greatest(0, wait - 1)
  /\ UNCHANGED <<gate, patient, rate, stress, refusals>>

PacingNext == AcquireSlot \/ ClaimSlot \/ ChangeLimits \/ StressChanges \/ TickPacing

PacingSpec == PacingInit /\ [][PacingNext]_paceVars

-----------------------------------------------------------------------------

\* In any minute, not only in the bucket's own, at most twice the highest ceiling
\* is granted: the end of one window and the start of the next, or a full bucket
\* and its refill.  (The code's comments speak of rpm exactly.)
MinuteBounded == recent[Minute - 1] <= 2 * TopRpm

\* A caller that is alone and comes back when it was told to is refused at most
\* three times in a row, once for each of spacing, count and tokens, as long as
\* limits and throttle stay.
PatienceIsRewarded == refusals <= 3
=============================================================================

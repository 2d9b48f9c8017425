---------------------------- MODULE PacingProofs ----------------------------
(***************************************************************************)
(* Pacing and RateLimits, for any limits, throttle and length of a minute. *)
(*                                                                         *)
(* Pacing: Counted and Budgeted say how many calls each gate can have      *)
(* granted in the last t ticks, Appeased what a caller that was refused so *)
(* many times in a row has waited out already.                             *)
(*                                                                         *)
(* RateLimits: only a tick that began while the row was tuned can write    *)
(* over the operator's limits, and it ends with that write (Handover); and *)
(* no tick writes more than it has read, once that is above the ceiling.   *)
(***************************************************************************)
EXTENDS RateLimits, Pacing, FiniteSetTheorems, TLAPS

-----------------------------------------------------------------------------
(* The greatest element of a finite set of naturals.                        *)

\* A set of naturals that is not empty has a least element.
LEMMA LeastExists ==
  ASSUME NEW S \in SUBSET Nat, S # {}
  PROVE  \E x \in S : \A y \in S : x <= y
<1>1. IsWellFoundedOn(OpToRel(<, Nat), Nat)
  BY NatLessThanWellFounded
<1>2. PICK x \in S : \A y \in S : ~ (<<y, x>> \in OpToRel(<, Nat))
  BY <1>1, WFMin
<1>3. \A y \in S : ~ (y < x)
  BY <1>2, Zenon DEF OpToRel
<1> QED
  BY <1>3

\* One that has an upper bound has a greatest element.
LEMMA GreatestExists ==
  ASSUME NEW S \in SUBSET Nat, S # {}, NEW b \in Nat, \A x \in S : x <= b
  PROVE  \E x \in S : \A y \in S : x >= y
<1> DEFINE gaps == {n \in Nat : b - n \in S}
<1>1. PICK x \in S : TRUE
  OBVIOUS
<1>2. b - x \in gaps
  <2>1. b - x \in Nat /\ b - (b - x) = x
    BY <1>1
  <2> QED
    BY <2>1
<1>3. PICK n \in gaps : \A m \in gaps : n <= m
  BY <1>2, LeastExists
<1>4. ASSUME NEW y \in S PROVE b - n >= y
  <2>1. b - y \in Nat /\ b - (b - y) = y
    BY <1>4
  <2>2. n <= b - y
    BY <2>1, <1>3
  <2> QED
    BY <2>1, <2>2
<1> QED
  BY <1>3, <1>4

\* Finitely many naturals have an upper bound: a shortest list of naturals that
\* had none would have none without its last.
LEMMA ListsBounded ==
  ASSUME NEW n \in Nat, NEW f \in [1 .. n -> Nat]
  PROVE  \E b \in Nat : \A i \in 1 .. n : f[i] <= b
<1> DEFINE unbounded(m) == \E g \in [1 .. m -> Nat] : \A b \in Nat : \E i \in 1 .. m : g[i] > b
           lengths      == {m \in Nat : unbounded(m)}
<1>1. ASSUME NEW m \in Nat, unbounded(m)
      PROVE  m # 0
  BY <1>1
<1>2. ASSUME NEW m \in Nat, unbounded(m + 1)
      PROVE  unbounded(m)
  <2>1. PICK g \in [1 .. m + 1 -> Nat] : \A b \in Nat : \E i \in 1 .. m + 1 : g[i] > b
    BY <1>2
  <2> DEFINE shorter == [i \in 1 .. m |-> g[i]]
  <2>2. /\ m + 1 \in 1 .. m + 1
        /\ \A i \in 1 .. m : i \in 1 .. m + 1
        /\ \A i \in 1 .. m + 1 : i = m + 1 \/ i \in 1 .. m
    OBVIOUS
  <2>3. g[m + 1] \in Nat /\ \A i \in 1 .. m : g[i] \in Nat
    BY <2>1, <2>2
  <2>4. shorter \in [1 .. m -> Nat] /\ \A i \in 1 .. m : shorter[i] = g[i]
    BY <2>3
  <2>5. ASSUME NEW b \in Nat PROVE \E i \in 1 .. m : shorter[i] > b
    <3>1. b + g[m + 1] \in Nat
      BY <2>3
    <3>2. PICK i \in 1 .. m + 1 : g[i] > b + g[m + 1]
      BY <2>1, <3>1
    <3>3. i # m + 1
      BY <2>3, <3>2
    <3>4. i \in 1 .. m /\ g[i] > b
      BY <2>2, <2>3, <3>2, <3>3
    <3> QED
      BY <2>4, <3>4
  <2> HIDE DEF shorter
  <2> QED
    BY <2>4, <2>5
<1> HIDE DEF unbounded
<1>3. lengths = {}
  <2> SUFFICES ASSUME lengths # {} PROVE FALSE
    OBVIOUS
  <2>1. PICK m \in lengths : \A k \in lengths : m <= k
    BY LeastExists
  <2>2. m \in Nat /\ m # 0
    BY <1>1, <2>1
  <2>3. m - 1 \in Nat /\ (m - 1) + 1 = m
    BY <2>2
  <2>4. unbounded(m - 1)
    BY <1>2, <2>1, <2>3
  <2>5. m <= m - 1
    BY <2>1, <2>3, <2>4
  <2> QED
    BY <2>2, <2>5
<1>4. ~ unbounded(n)
  BY <1>3
<1>5. PICK b \in Nat : \A i \in 1 .. n : ~ (f[i] > b)
  BY <1>4 DEF unbounded
<1>6. \A i \in 1 .. n : f[i] <= b
  BY <1>5
<1> HIDE DEF lengths
<1> QED
  BY <1>6

\* Max picks the greatest of a finite set.
LEMMA MaxIs ==
  ASSUME NEW S \in SUBSET Nat, S # {}, IsFiniteSet(S)
  PROVE  Max(S) \in S /\ \A y \in S : y <= Max(S)
<1>1. PICK n \in Nat : ExistsSurjection(1 .. n, S)
  BY FS_NatSurjection
<1>2. PICK f \in [1 .. n -> S] : \A y \in S : \E i \in 1 .. n : f[i] = y
  BY <1>1 DEF ExistsSurjection, Surjection
<1>3. f \in [1 .. n -> Nat]
  BY <1>2
<1>4. PICK b \in Nat : \A i \in 1 .. n : f[i] <= b
  BY <1>3, ListsBounded
<1>5. \A y \in S : y <= b
  BY <1>2, <1>4
<1>6. \E x \in S : \A y \in S : x >= y
  BY <1>5, GreatestExists
<1>7. Max(S) \in S /\ \A y \in S : Max(S) >= y
  BY <1>6 DEF Max
<1> QED
  BY <1>7

-----------------------------------------------------------------------------
(* Quotients, rounded down and up.                                          *)

LEMMA Quotient ==
  ASSUME NEW a \in Nat, NEW b \in Nat \ {0}
  PROVE  /\ a \div b \in Nat /\ b * (a \div b) <= a /\ a < b * (a \div b) + b
         /\ a \div b <= a
<1>1. a \div b \in Nat /\ b * (a \div b) <= a /\ a < b * (a \div b) + b
  OBVIOUS
<1>2. ASSUME NEW q \in Nat, b * q <= a PROVE q <= a
  BY <1>2
<1> QED
  BY <1>1, <1>2

\* The product of a positive number with a greater one is greater.
LEMMA Multiples ==
  ASSUME NEW a \in Int, NEW b \in Int, NEW c \in Nat \ {0}
  PROVE  /\ a <= b <=> c * a <= c * b
         /\ a <= b <=> a * c <= b * c
         /\ a * c = c * a
  OBVIOUS

LEMMA CeilDivIs ==
  ASSUME NEW a \in Nat, NEW b \in Nat \ {0}
  PROVE  /\ CeilDiv(a, b) \in Nat /\ a <= b * CeilDiv(a, b) /\ b * CeilDiv(a, b) < a + b
         /\ CeilDiv(a, b) <= a
         /\ a > 0 => CeilDiv(a, b) > 0
<1>1. a + b - 1 \in Nat
  OBVIOUS
<1>2. PICK q \in Nat : q = CeilDiv(a, b) /\ b * q <= a + b - 1 /\ a + b - 1 < b * q + b
  BY <1>1, Quotient DEF CeilDiv
<1>3. a <= b * q /\ b * q < a + b
  BY <1>2
<1>4. q <= a
  <2> SUFFICES ASSUME q >= a + 1 PROVE FALSE
    OBVIOUS
  <2>1. b * (a + 1) <= b * q
    BY Multiples
  <2>2. b * (a + 1) = b * a + b /\ b * a >= a
    OBVIOUS
  <2> QED
    BY <1>3, <2>1, <2>2
<1>5. a > 0 => q > 0
  BY <1>3
<1> QED
  BY <1>2, <1>3, <1>4, <1>5

\* The larger the divisor, the smaller the quotient.
LEMMA CeilDivMonotone ==
  ASSUME NEW a \in Nat, NEW b \in Nat \ {0}, NEW c \in Nat \ {0}, b <= c
  PROVE  CeilDiv(a, c) <= CeilDiv(a, b)
<1>1. PICK q \in Nat : q = CeilDiv(a, b) /\ a <= b * q
  BY CeilDivIs
<1>2. PICK p \in Nat : p = CeilDiv(a, c) /\ c * p < a + c
  BY CeilDivIs
<1>3. SUFFICES ASSUME p >= q + 1 PROVE FALSE
  BY <1>1, <1>2
<1>4. c * (q + 1) <= c * p /\ c * (q + 1) = c * q + c
  BY <1>3, Multiples
<1>5. b * q <= c * q
  <2>1. CASE q = 0
    BY <2>1
  <2>2. CASE q # 0
    BY <2>2, Multiples
  <2> QED
    BY <2>1, <2>2
<1> QED
  BY <1>1, <1>2, <1>4, <1>5

-----------------------------------------------------------------------------
(* The limits: none is above the greatest, and the ages reach far enough.   *)

\* What a function makes of the configs is finitely many values.
LEMMA ValuesFinite ==
  ASSUME NEW f, f = [c \in RateConfigs |-> f[c]]
  PROVE  IsFiniteSet({f[c] : c \in RateConfigs})
<1>1. f \in Surjection(RateConfigs, {f[c] : c \in RateConfigs})
  BY DEF Surjection
<1> QED
  BY <1>1, FS_Surjection, PacingAssumption

LEMMA SpacingNatural ==
  ASSUME NEW c \in RateConfigs, NEW t \in MinThrottle .. Full
  PROVE  /\ SpacingOf(c, t) \in Nat
         /\ SpacingOf(c, t) <= SpacingOf(c, MinThrottle)
<1>1. c.delay \in Nat /\ Full \in Nat /\ c.delay * Full \in Nat
  BY PacingAssumption DEF Full
<1>2. MinThrottle \in MinThrottle .. Full /\ MinThrottle <= t
  BY PacingAssumption DEF Full
<1>3. \A n \in MinThrottle .. Full : Greatest(n, Full \div 10) \in Nat \ {0}
  BY PacingAssumption DEF Full, Greatest
<1>4. Greatest(MinThrottle, Full \div 10) <= Greatest(t, Full \div 10)
  BY <1>2, PacingAssumption DEF Full, Greatest
<1> QED
  BY <1>1, <1>2, <1>3, <1>4, CeilDivIs, CeilDivMonotone DEF SpacingOf

\* The greatest burst, the greatest limit of calls and the horizon are what they
\* are named for.
LEMMA Tops ==
  /\ TopBurst \in Nat \ {0} /\ TopRpm \in Nat \ {0} /\ Horizon \in Nat
  /\ \A c \in RateConfigs : c.burst <= TopBurst /\ c.rpm <= TopRpm
  /\ \A n \in GlobalRpms : n <= TopBurst /\ n <= TopRpm
  /\ TopBurst * Minute <= Horizon
  /\ \A c \in RateConfigs : SpacingOf(c, MinThrottle) <= Horizon
<1> DEFINE bursts   == {c.burst : c \in RateConfigs}
           rpms     == {c.rpm : c \in RateConfigs}
           spacings == {SpacingOf(c, MinThrottle) : c \in RateConfigs}
<1>1. IsFiniteSet(bursts) /\ IsFiniteSet(rpms) /\ IsFiniteSet(spacings)
  <2> DEFINE burst == [c \in RateConfigs |-> c.burst]
             rpm   == [c \in RateConfigs |-> c.rpm]
             space == [c \in RateConfigs |-> SpacingOf(c, MinThrottle)]
  <2>1. /\ bursts = {burst[c] : c \in RateConfigs}
        /\ rpms = {rpm[c] : c \in RateConfigs}
        /\ spacings = {space[c] : c \in RateConfigs}
    OBVIOUS
  <2>2. /\ burst = [c \in RateConfigs |-> burst[c]]
        /\ rpm = [c \in RateConfigs |-> rpm[c]]
        /\ space = [c \in RateConfigs |-> space[c]]
    OBVIOUS
  <2> HIDE DEF burst, rpm, space, bursts, rpms, spacings
  <2> QED
    BY <2>1, <2>2, ValuesFinite
<1>2. MinThrottle \in MinThrottle .. Full
  BY PacingAssumption DEF Full
<1>3. /\ bursts \subseteq Nat \ {0} /\ rpms \subseteq Nat \ {0} /\ spacings \subseteq Nat
      /\ bursts # {} /\ rpms # {}
  BY <1>2, SpacingNatural, PacingAssumption
<1> HIDE DEF bursts, rpms, spacings
<1>4. /\ TopBurst \in bursts \cup GlobalRpms /\ \A n \in bursts \cup GlobalRpms : n <= TopBurst
      /\ TopRpm \in rpms \cup GlobalRpms /\ \A n \in rpms \cup GlobalRpms : n <= TopRpm
  <2>1. /\ bursts \cup GlobalRpms \in SUBSET Nat /\ bursts \cup GlobalRpms # {}
        /\ IsFiniteSet(bursts \cup GlobalRpms)
        /\ rpms \cup GlobalRpms \in SUBSET Nat /\ rpms \cup GlobalRpms # {}
        /\ IsFiniteSet(rpms \cup GlobalRpms)
    BY <1>1, <1>3, FS_Union, PacingAssumption
  <2>2. TopBurst = Max(bursts \cup GlobalRpms) /\ TopRpm = Max(rpms \cup GlobalRpms)
    BY DEF TopBurst, TopRpm, bursts, rpms
  <2> QED
    BY <2>1, <2>2, MaxIs
<1>5. TopBurst \in Nat \ {0} /\ TopRpm \in Nat \ {0}
  BY <1>3, <1>4, PacingAssumption
<1>6. /\ Horizon \in {TopBurst * Minute} \cup spacings
      /\ \A n \in {TopBurst * Minute} \cup spacings : n <= Horizon
  <2>1. TopBurst * Minute \in Nat
    BY <1>5, PacingAssumption
  <2>2. /\ {TopBurst * Minute} \cup spacings \in SUBSET Nat
        /\ {TopBurst * Minute} \cup spacings # {}
        /\ IsFiniteSet({TopBurst * Minute} \cup spacings)
    BY <2>1, <1>1, <1>3, FS_Union, FS_Singleton
  <2>3. Horizon = Max({TopBurst * Minute} \cup spacings)
    BY DEF Horizon, spacings
  <2> QED
    BY <2>2, <2>3, MaxIs
<1>7. TopBurst * Minute \in Nat
  BY <1>5, PacingAssumption
<1> QED
  BY <1>3, <1>4, <1>5, <1>6, <1>7 DEF bursts, rpms, spacings

-----------------------------------------------------------------------------
(* The state: its parts, with the intervals under names of their own.       *)

TokenCounts == 0 .. TopBurst * Minute
WindowAges  == 0 .. Minute
CallCounts  == 0 .. TopRpm
Throttles   == MinThrottle .. Full
CalmAges    == 0 .. RecoverAfter + 1
Instants    == 0 .. Minute - 1

Buckets   == [tokens : TokenCounts, refilled : Ages, window : WindowAges,
              count : CallCounts, granted : Ages]
Adaptives == [throttle : Throttles, calm : CalmAges, fresh : BOOLEAN]

LEMMA IntervalsAre ==
  /\ \A n : n \in TokenCounts <=> n \in Int /\ 0 <= n /\ n <= TopBurst * Minute
  /\ \A n : n \in Ages <=> n \in Int /\ 0 <= n /\ n <= Horizon
  /\ \A n : n \in WindowAges <=> n \in Int /\ 0 <= n /\ n <= Minute
  /\ \A n : n \in CallCounts <=> n \in Int /\ 0 <= n /\ n <= TopRpm
  /\ \A n : n \in Throttles <=> n \in Int /\ MinThrottle <= n /\ n <= 1000
  /\ \A n : n \in CalmAges <=> n \in Int /\ 0 <= n /\ n <= RecoverAfter + 1
  /\ \A n : n \in Instants <=> n \in Int /\ 0 <= n /\ n <= Minute - 1
<1>1. TopBurst * Minute \in Int /\ Horizon \in Int /\ TopRpm \in Int /\ Minute \in Int
  BY Tops, PacingAssumption
<1>2. MinThrottle \in Int /\ RecoverAfter + 1 \in Int /\ Minute - 1 \in Int /\ Full = 1000
  BY PacingAssumption DEF Full
<1>3. \A lo \in Int, hi \in Int : \A n : n \in lo .. hi <=> n \in Int /\ lo <= n /\ n <= hi
  OBVIOUS
<1> QED
  BY <1>1, <1>2, <1>3 DEF TokenCounts, Ages, WindowAges, CallCounts, Throttles, CalmAges, Instants

LEMMA TypeIs ==
  PacingTypeOK <=>
    /\ gate \in {"workspace", "global"}
    /\ patient \in BOOLEAN /\ stress \in BOOLEAN
    /\ rate \in Limits(gate)
    /\ bucket \in Buckets
    /\ adaptive \in Adaptives
    /\ recent \in [Instants -> Nat]
    /\ wait \in Ages /\ refusals \in Nat
  BY DEF PacingTypeOK, Buckets, Adaptives, TokenCounts, WindowAges, CallCounts, Throttles,
         CalmAges, Instants

LEMMA ConstantsAre ==
  /\ Minute \in Nat \ {0} /\ ThrottleStep \in Nat /\ RecoverAfter \in Nat
  /\ MinThrottle \in Nat \ {0} /\ MinThrottle <= 1000
  /\ TopBurst \in Nat \ {0} /\ TopRpm \in Nat \ {0} /\ Horizon \in Nat
  /\ TopBurst * Minute \in Nat /\ Minute <= TopBurst * Minute /\ TopBurst * Minute <= Horizon
<1>1. /\ Minute \in Nat \ {0} /\ ThrottleStep \in Nat /\ RecoverAfter \in Nat
      /\ MinThrottle \in Nat \ {0} /\ MinThrottle <= 1000
  BY PacingAssumption DEF Full
<1>2. \A n \in Nat \ {0} : n * Minute \in Nat /\ Minute <= n * Minute
  BY <1>1
<1> QED
  BY <1>1, <1>2, Tops

\* The limits in force are numbers, and none is above the greatest.
LEMMA LimitsAre ==
  ASSUME PacingTypeOK
  PROVE  /\ rate.rate \in Nat /\ rate.rpm \in Nat \ {0} /\ rate.burst \in Nat \ {0}
         /\ rate.rpm <= TopRpm /\ rate.burst <= TopBurst
         /\ gate = "workspace" => rate \in RateConfigs
         /\ gate = "global" => rate.rate = rate.rpm /\ rate.burst = rate.rpm
<1>1. CASE gate = "workspace"
  <2>1. rate \in RateConfigs
    BY <1>1 DEF PacingTypeOK, Limits
  <2>2. rate \in [rate : Nat, rpm : Nat \ {0}, delay : Nat, burst : Nat \ {0}]
    BY <2>1, PacingAssumption
  <2> QED
    BY <1>1, <2>1, <2>2, Tops
<1>2. CASE gate = "global"
  <2>1. PICK n \in GlobalRpms : rate = GlobalLimit(n)
    BY <1>2 DEF PacingTypeOK, Limits
  <2>2. rate.rate = n /\ rate.rpm = n /\ rate.burst = n
    BY <2>1 DEF GlobalLimit
  <2>3. n \in Nat \ {0} /\ n <= TopBurst /\ n <= TopRpm
    BY Tops, PacingAssumption
  <2> QED
    BY <1>2, <2>2, <2>3
<1> QED
  BY <1>1, <1>2 DEF PacingTypeOK

-----------------------------------------------------------------------------
(* The gates.                                                               *)

\* The limits as the throttle leaves them.
Units(t) == Greatest(1, (rate.rate * t) \div Full)
Calls(t) == Greatest(1, (rate.rpm * t) \div Full)

LEMMA ThrottledLimits ==
  ASSUME PacingTypeOK, NEW t \in Throttles
  PROVE  /\ Units(t) \in Nat \ {0}
         /\ Calls(t) \in Nat \ {0} /\ Calls(t) <= TopRpm
         /\ gate = "workspace" => SpacingOf(rate, t) \in Nat /\ SpacingOf(rate, t) <= Horizon
<1>1. t \in Nat /\ t <= 1000 /\ Full = 1000
  BY IntervalsAre, ConstantsAre DEF Full
<1>2. rate.rate * t \in Nat /\ rate.rpm * t \in Nat
  BY <1>1, LimitsAre
<1>3. PICK q \in Nat : q = (rate.rpm * t) \div 1000 /\ 1000 * q <= rate.rpm * t
  BY <1>2, Quotient
<1>4. q <= rate.rpm
  <2>1. PICK n \in Nat : n = rate.rpm
    BY LimitsAre
  <2>2. 1000 * q <= n * t /\ n * t <= n * 1000 /\ n * 1000 = 1000 * n
    BY <1>1, <1>3, <2>1
  <2>3. 1000 * q <= 1000 * n
    BY <1>1, <2>2
  <2> QED
    BY <2>1, <2>3
<1>5. Calls(t) \in Nat \ {0} /\ Calls(t) <= TopRpm
  BY <1>1, <1>3, <1>4, LimitsAre, ConstantsAre DEF Calls, Greatest
<1>6. (rate.rate * t) \div 1000 \in Nat
  BY <1>2, Quotient
<1>7. Units(t) \in Nat \ {0}
  BY <1>1, <1>6 DEF Units, Greatest
<1>8. ASSUME gate = "workspace"
      PROVE  SpacingOf(rate, t) \in Nat /\ SpacingOf(rate, t) <= Horizon
  <2>1. MinThrottle \in MinThrottle .. Full /\ t \in MinThrottle .. Full
    BY ConstantsAre DEF Full, Throttles
  <2>2. rate \in RateConfigs
    BY <1>8, LimitsAre
  <2>3. SpacingOf(rate, MinThrottle) \in Nat /\ SpacingOf(rate, t) \in Nat
    BY <2>1, <2>2, SpacingNatural
  <2> QED
    BY <2>1, <2>2, <2>3, SpacingNatural, Tops, ConstantsAre
<1> QED
  BY <1>5, <1>7, <1>8

\* What refilling makes of the bucket.
LEMMA Refilled ==
  ASSUME PacingTypeOK, NEW units \in Nat,
         NEW r, r = Refill(bucket, units, rate.burst)
  PROVE  /\ r \in Buckets
         /\ r.refilled = 0 /\ r.granted = bucket.granted
         /\ r.window \in Nat /\ r.window < Minute
         /\ bucket.window >= Minute => r.window = 0 /\ r.count = 0
         /\ bucket.window < Minute => r.window = bucket.window /\ r.count = bucket.count
         /\ r.tokens = Least(rate.burst * Minute, bucket.tokens + bucket.refilled * units)
<1>1. bucket \in Buckets
  BY TypeIs
<1>2. /\ bucket.tokens \in Nat /\ bucket.refilled \in Nat /\ bucket.window \in Nat
      /\ bucket.tokens \in TokenCounts /\ bucket.refilled \in Ages
      /\ bucket.window \in WindowAges /\ bucket.count \in CallCounts /\ bucket.granted \in Ages
  BY <1>1, IntervalsAre DEF Buckets
<1> DEFINE tokens == Least(rate.burst * Minute, bucket.tokens + bucket.refilled * units)
           window == IF bucket.window >= Minute THEN 0 ELSE bucket.window
           count  == IF bucket.window >= Minute THEN 0 ELSE bucket.count
<1>3. tokens \in TokenCounts
  <2>1. rate.burst * Minute \in Nat /\ rate.burst * Minute <= TopBurst * Minute
    BY LimitsAre, ConstantsAre, Multiples
  <2>2. bucket.tokens + bucket.refilled * units \in Nat
    BY <1>2
  <2> QED
    BY <2>1, <2>2, IntervalsAre, ConstantsAre DEF Least
<1>4. window \in WindowAges /\ count \in CallCounts /\ 0 \in Ages /\ window \in Nat /\ window < Minute
  BY <1>2, IntervalsAre, ConstantsAre
<1>5. r = [bucket EXCEPT !.tokens = tokens, !.refilled = 0, !.window = window, !.count = count]
  BY DEF Refill
<1> HIDE DEF tokens
<1>6. r = [tokens |-> tokens, refilled |-> 0, window |-> window, count |-> count,
           granted |-> bucket.granted]
  BY <1>1, <1>5 DEF Buckets
<1>7. r \in Buckets
  BY <1>2, <1>3, <1>4, <1>6 DEF Buckets
<1>8. /\ r.refilled = 0 /\ r.granted = bucket.granted /\ r.tokens = tokens
      /\ r.window = window /\ r.count = count
  BY <1>6
<1>9. /\ bucket.window >= Minute => window = 0 /\ count = 0
      /\ bucket.window < Minute => window = bucket.window /\ count = bucket.count
  BY <1>2, ConstantsAre
<1> HIDE DEF window, count
<1> QED
  BY <1>4, <1>7, <1>8, <1>9 DEF tokens

\* The answers of a workspace's bucket: granted, or refused for spacing, count or
\* tokens, with the wait that goes with each.
Grants(r, reply, t) ==
  /\ reply.wait = 0
  /\ r.count < Calls(t)
  /\ reply.bucket.count = r.count + 1 /\ reply.bucket.window = r.window

RefusesFor(r, reply, t, reason) ==
  /\ reply.wait > 0 /\ reply.bucket = r
  /\ reason = "spacing" =>
       r.granted < SpacingOf(rate, t) /\ reply.wait = SpacingOf(rate, t) - r.granted
  /\ reason = "count" =>
       /\ r.granted >= SpacingOf(rate, t) /\ r.count >= Calls(t)
       /\ reply.wait = Minute - r.window
  /\ reason = "tokens" =>
       /\ r.granted >= SpacingOf(rate, t) /\ r.count < Calls(t)
       /\ r.tokens < Minute /\ Minute <= r.tokens + reply.wait * Units(t)

LEMMA Replied ==
  ASSUME PacingTypeOK, gate = "workspace", NEW t \in Throttles,
         NEW r, r = Refill(bucket, Units(t), rate.burst),
         NEW reply, reply = TryAcquire(bucket, t)
  PROVE  /\ reply.bucket \in Buckets /\ reply.wait \in Ages
         /\ \/ Grants(r, reply, t)
            \/ \E reason \in {"spacing", "count", "tokens"} : RefusesFor(r, reply, t, reason)
<1>1. /\ r \in Buckets /\ r.tokens \in TokenCounts /\ r.granted \in Ages
      /\ r.count \in CallCounts
      /\ r.window \in Nat /\ r.window < Minute
  BY Refilled, ThrottledLimits DEF Buckets
<1>2. /\ r.tokens \in Nat /\ r.tokens <= TopBurst * Minute
      /\ r.granted \in Nat /\ r.granted <= Horizon /\ r.count \in Nat
  BY <1>1, IntervalsAre
<1> DEFINE space == SpacingOf(rate, t)
<1>3. space \in Nat /\ space <= Horizon
  BY ThrottledLimits
<1>4. Calls(t) \in Nat /\ Calls(t) <= TopRpm /\ Units(t) \in Nat \ {0}
  BY ThrottledLimits
<1>5. reply = CASE r.granted < space -> Refused(r, space - r.granted)
                [] r.granted >= space /\ r.count >= Calls(t) -> Refused(r, Minute - r.window)
                [] r.granted >= space /\ ~ (r.count >= Calls(t)) /\ r.tokens < Minute ->
                     Refused(r, CeilDiv(Minute - r.tokens, Units(t)))
                [] OTHER -> Granted([r EXCEPT !.tokens = @ - Minute, !.count = @ + 1, !.granted = 0])
  BY DEF TryAcquire, Spent, RestOfMinute, Units, Calls
<1> HIDE DEF space
<1>6. CASE r.granted < space
  <2>1. reply = Refused(r, space - r.granted)
    BY <1>2, <1>3, <1>4, <1>5, <1>6
  <2>2. reply.bucket = r /\ reply.wait = space - r.granted
    BY <2>1 DEF Refused
  <2>3. reply.wait \in Ages /\ reply.wait > 0
    BY <2>2, <1>2, <1>3, <1>6, IntervalsAre, ConstantsAre
  <2>4. RefusesFor(r, reply, t, "spacing")
    BY <2>2, <2>3, <1>6 DEF RefusesFor, space
  <2> QED
    BY <2>2, <2>3, <2>4, <1>1
<1>7. CASE r.granted >= space /\ r.count >= Calls(t)
  <2>1. reply = Refused(r, Minute - r.window)
    BY <1>2, <1>3, <1>4, <1>5, <1>7
  <2>2. reply.bucket = r /\ reply.wait = Minute - r.window
    BY <2>1 DEF Refused
  <2>3. reply.wait \in Ages /\ reply.wait > 0
    BY <2>2, <1>1, IntervalsAre, ConstantsAre
  <2>4. RefusesFor(r, reply, t, "count")
    BY <2>2, <2>3, <1>7 DEF RefusesFor, space
  <2> QED
    BY <2>2, <2>3, <2>4, <1>1
<1>8. CASE r.granted >= space /\ r.count < Calls(t) /\ r.tokens < Minute
  <2>1. reply = Refused(r, CeilDiv(Minute - r.tokens, Units(t)))
    BY <1>2, <1>3, <1>4, <1>5, <1>8
  <2>2. reply.bucket = r /\ reply.wait = CeilDiv(Minute - r.tokens, Units(t))
    BY <2>1 DEF Refused
  <2>3. Minute - r.tokens \in Nat /\ Minute - r.tokens > 0
    BY <1>2, <1>8, ConstantsAre
  <2>4. /\ reply.wait \in Nat /\ reply.wait <= Minute - r.tokens /\ reply.wait > 0
        /\ Minute - r.tokens <= Units(t) * reply.wait
    BY <2>2, <2>3, <1>4, CeilDivIs
  <2>5. reply.wait \in Ages
    BY <2>4, <1>2, IntervalsAre, ConstantsAre
  <2>6. Units(t) * reply.wait = reply.wait * Units(t) /\ reply.wait * Units(t) \in Nat
    BY <2>4, <1>4
  <2>7. Minute <= r.tokens + reply.wait * Units(t)
    BY <2>4, <2>6, <1>2, ConstantsAre
  <2>8. RefusesFor(r, reply, t, "tokens")
    BY <2>2, <2>4, <2>7, <1>8 DEF RefusesFor, space
  <2> QED
    BY <2>2, <2>5, <2>8, <1>1
<1>9. CASE r.granted >= space /\ r.count < Calls(t) /\ r.tokens >= Minute
  <2>1. reply = Granted([r EXCEPT !.tokens = @ - Minute, !.count = @ + 1, !.granted = 0])
    BY <1>2, <1>3, <1>4, <1>5, <1>9, ConstantsAre
  <2>2. /\ reply.wait = 0
        /\ reply.bucket = [r EXCEPT !.tokens = @ - Minute, !.count = @ + 1, !.granted = 0]
    BY <2>1 DEF Granted
  <2>3. /\ r.tokens - Minute \in TokenCounts /\ r.count + 1 \in CallCounts /\ 0 \in Ages
    BY <1>2, <1>4, <1>9, IntervalsAre, ConstantsAre
  <2>4. reply.bucket \in Buckets /\ reply.bucket.count = r.count + 1
        /\ reply.bucket.window = r.window
    BY <2>2, <2>3, <1>1 DEF Buckets
  <2> QED
    BY <2>2, <2>3, <2>4, <1>9 DEF Grants
<1> QED
  BY <1>2, <1>3, <1>4, <1>6, <1>7, <1>8, <1>9, ConstantsAre

\* The global bucket: it never holds more than it did and what has refilled, less
\* a minute's units for a call that is granted.
LEMMA GlobalReplied ==
  ASSUME PacingTypeOK, gate = "global",
         NEW reply, reply = GlobalRateAllows(bucket)
  PROVE  /\ reply.bucket \in Buckets /\ reply.wait \in {0, 1}
         /\ reply.bucket.refilled = 0
         /\ reply.bucket.tokens + (IF reply.wait = 0 THEN Minute ELSE 0) <= TopRpm * Minute
         /\ reply.bucket.tokens + (IF reply.wait = 0 THEN Minute ELSE 0)
              <= bucket.tokens + bucket.refilled * TopRpm
<1>1. /\ bucket \in Buckets
      /\ bucket.tokens \in Nat /\ bucket.refilled \in Nat
  BY TypeIs, IntervalsAre DEF Buckets
<1> DEFINE tokens == Least(rate.rpm * Minute, bucket.tokens + bucket.refilled * rate.rpm)
           r      == [bucket EXCEPT !.tokens = tokens, !.refilled = 0]
<1>2. PICK n \in Nat \ {0} : n = rate.rpm /\ n <= TopRpm /\ n <= TopBurst
  BY LimitsAre
<1>3. /\ n * Minute \in Nat /\ bucket.refilled * n \in Nat
      /\ n * Minute <= TopRpm * Minute /\ n * Minute <= TopBurst * Minute
  BY <1>1, <1>2, ConstantsAre, Multiples
<1>4. bucket.refilled * n <= bucket.refilled * TopRpm /\ bucket.refilled * TopRpm \in Nat
  <2>1. CASE bucket.refilled = 0
    BY <2>1, <1>2, ConstantsAre
  <2>2. CASE bucket.refilled # 0
    BY <2>2, <1>1, <1>2, ConstantsAre, Multiples
  <2> QED
    BY <2>1, <2>2
<1>5. /\ tokens \in Nat /\ tokens <= TopRpm * Minute /\ tokens <= TopBurst * Minute
      /\ tokens <= bucket.tokens + bucket.refilled * TopRpm
  <2>1. /\ TopRpm * Minute \in Nat /\ TopBurst * Minute \in Nat
        /\ bucket.refilled * TopRpm \in Nat
    BY <1>4, ConstantsAre
  <2>2. PICK full \in Nat : /\ full = n * Minute
                            /\ full <= TopRpm * Minute /\ full <= TopBurst * Minute
    BY <1>3
  <2>3. PICK gain \in Nat : gain = bucket.refilled * n /\ gain <= bucket.refilled * TopRpm
    BY <1>3, <1>4
  <2>4. tokens = Least(full, bucket.tokens + gain)
    BY <1>2, <2>2, <2>3
  <2> HIDE DEF tokens
  <2>5. tokens \in Nat /\ tokens <= full /\ tokens <= bucket.tokens + gain
    BY <2>4, <1>1 DEF Least
  <2> QED
    BY <2>1, <2>2, <2>3, <2>5, <1>1
<1>6. reply = IF r.tokens < Minute THEN Refused(r, 1) ELSE Granted([r EXCEPT !.tokens = @ - Minute])
  BY DEF GlobalRateAllows
<1> HIDE DEF tokens
<1>7. 0 \in Ages /\ tokens \in TokenCounts
  BY <1>5, IntervalsAre, ConstantsAre
<1>8. r \in Buckets /\ r.tokens = tokens /\ r.refilled = 0
  BY <1>1, <1>7 DEF Buckets
<1> HIDE DEF r
<1>9. CASE tokens < Minute
  <2>1. reply.bucket = r /\ reply.wait = 1
    BY <1>6, <1>8, <1>9 DEF Refused
  <2> QED
    BY <2>1, <1>5, <1>8
<1>10. CASE ~ (tokens < Minute)
  <2>1. reply.bucket = [r EXCEPT !.tokens = tokens - Minute] /\ reply.wait = 0
    BY <1>6, <1>8, <1>10 DEF Granted
  <2>2. tokens - Minute \in TokenCounts
    BY <1>5, <1>10, IntervalsAre, ConstantsAre
  <2>3. /\ reply.bucket \in Buckets /\ reply.bucket.tokens = tokens - Minute
        /\ reply.bucket.refilled = 0
    BY <2>1, <2>2, <1>8 DEF Buckets
  <2>4. tokens - Minute + Minute = tokens
    BY <1>5, ConstantsAre
  <2> QED
    BY <2>1, <2>3, <2>4, <1>5
<1> QED
  BY <1>9, <1>10

-----------------------------------------------------------------------------
(* The types.                                                               *)

LEMMA ThrottleTyped ==
  ASSUME NEW a \in Adaptives
  PROVE  CurrentThrottle(a) \in Adaptives
<1> DEFINE throttle == IF stress THEN Greatest(MinThrottle, a.throttle \div 2)
                       ELSE IF a.calm > RecoverAfter THEN Least(Full, a.throttle + ThrottleStep)
                       ELSE a.throttle
           calm     == IF stress THEN 0 ELSE a.calm
<1>1. /\ a.throttle \in Int /\ MinThrottle <= a.throttle /\ a.throttle <= 1000
      /\ a.throttle \in Throttles /\ a.calm \in CalmAges /\ a.fresh \in BOOLEAN
  BY IntervalsAre DEF Adaptives
<1>2. throttle \in Throttles
  BY <1>1, IntervalsAre, ConstantsAre DEF Greatest, Least, Full
<1>3. calm \in CalmAges
  BY <1>1, IntervalsAre, ConstantsAre
<1>4. Evaluate(a) = [a EXCEPT !.throttle = throttle, !.calm = calm, !.fresh = TRUE]
  BY DEF Evaluate
<1> HIDE DEF throttle, calm
<1>5. Evaluate(a) \in Adaptives
  BY <1>2, <1>3, <1>4 DEF Adaptives
<1> QED
  BY <1>5 DEF CurrentThrottle

LEMMA SettleTyped ==
  ASSUME PacingTypeOK, NEW before \in Nat, NEW reply,
         reply.bucket \in Buckets, reply.wait \in Ages,
         Settle(reply, before)
  PROVE  /\ bucket' \in Buckets /\ recent' \in [Instants -> Nat]
         /\ wait' \in Ages /\ refusals' \in Nat
         /\ \A t \in Instants : recent'[t] = IF reply.wait = 0 THEN recent[t] + 1 ELSE recent[t]
<1>1. recent \in [Instants -> Nat] /\ patient \in BOOLEAN
  BY TypeIs
<1>2. 0 \in Ages
  BY IntervalsAre, ConstantsAre
<1> QED
  BY <1>1, <1>2 DEF Settle

LEMMA AcquireReply ==
  ASSUME PacingTypeOK, AcquireSlot
  PROVE  /\ gate = "workspace" /\ wait = 0 /\ adaptive' \in Adaptives
         /\ adaptive'.throttle \in Throttles
         /\ TryAcquire(bucket, adaptive'.throttle).bucket \in Buckets
         /\ TryAcquire(bucket, adaptive'.throttle).wait \in Ages
<1>1. adaptive \in Adaptives
  BY TypeIs
<1>2. adaptive' \in Adaptives /\ gate = "workspace" /\ wait = 0
  BY <1>1, ThrottleTyped DEF AcquireSlot
<1>3. adaptive'.throttle \in Throttles
  BY <1>2 DEF Adaptives
<1> QED
  BY <1>2, <1>3, Replied

\* The age of what ages by a tick.
LEMMA OlderIs ==
  ASSUME NEW n \in Ages
  PROVE  /\ Older(n) \in Ages /\ Older(n) >= n /\ Older(n) <= n + 1
         /\ n < Horizon => Older(n) = n + 1
  BY IntervalsAre, ConstantsAre DEF Older, Least

\* What a tick leaves of the bucket.
LEMMA Ticked ==
  ASSUME PacingTypeOK, TickPacing
  PROVE  /\ bucket' \in Buckets
         /\ bucket'.tokens = bucket.tokens /\ bucket'.count = bucket.count
         /\ bucket'.refilled = Older(bucket.refilled) /\ bucket'.granted = Older(bucket.granted)
         /\ gate = "workspace" => bucket'.window = Least(bucket.window + 1, Minute)
         /\ adaptive' \in Adaptives /\ adaptive'.throttle = adaptive.throttle
         /\ recent' \in [Instants -> Nat] /\ recent'[0] = 0
         /\ \A t \in Instants : t # 0 => recent'[t] = recent[t - 1]
         /\ wait' \in Ages /\ wait' >= wait - 1
<1>1. /\ bucket \in Buckets /\ adaptive \in Adaptives /\ recent \in [Instants -> Nat] /\ wait \in Ages
  BY TypeIs
<1>2. /\ bucket.refilled \in Ages /\ bucket.granted \in Ages /\ bucket.window \in WindowAges
      /\ adaptive.calm \in CalmAges
  BY <1>1 DEF Buckets, Adaptives
<1> DEFINE refilled == Older(bucket.refilled)
           granted  == Older(bucket.granted)
           window   == IF gate = "workspace" THEN Least(bucket.window + 1, Minute) ELSE bucket.window
           calm     == Least(adaptive.calm + 1, RecoverAfter + 1)
<1>3. /\ refilled \in Ages /\ granted \in Ages
  BY <1>2, OlderIs
<1>4. window \in WindowAges /\ calm \in CalmAges
  BY <1>2, IntervalsAre, ConstantsAre DEF Least
<1>5. /\ bucket' = [bucket EXCEPT !.refilled = refilled, !.granted = granted, !.window = window]
      /\ adaptive' = [adaptive EXCEPT !.calm = calm, !.fresh = FALSE]
  BY DEF TickPacing
<1>6. gate = "workspace" => window = Least(bucket.window + 1, Minute)
  OBVIOUS
<1> HIDE DEF refilled, granted, window, calm
<1>7. /\ bucket' \in Buckets
      /\ bucket'.tokens = bucket.tokens /\ bucket'.count = bucket.count
      /\ bucket'.refilled = refilled /\ bucket'.granted = granted /\ bucket'.window = window
  BY <1>1, <1>3, <1>4, <1>5 DEF Buckets
<1>8. adaptive' \in Adaptives /\ adaptive'.throttle = adaptive.throttle
  BY <1>1, <1>4, <1>5 DEF Adaptives
<1>9. 0 \in Instants /\ \A t \in Instants : t # 0 => t - 1 \in Instants
  BY IntervalsAre, ConstantsAre
<1>10. recent' = [t \in Instants |-> IF t = 0 THEN 0 ELSE recent[t - 1]]
  BY <1>1 DEF TickPacing
<1>11. /\ recent' \in [Instants -> Nat] /\ recent'[0] = 0
       /\ \A t \in Instants : t # 0 => recent'[t] = recent[t - 1]
  BY <1>1, <1>9, <1>10
<1>12. wait' = Greatest(0, wait - 1)
  BY DEF TickPacing
<1>13. wait' \in Ages /\ wait' >= wait - 1
  BY <1>1, <1>12, IntervalsAre, ConstantsAre DEF Greatest
<1> QED
  BY <1>6, <1>7, <1>8, <1>11, <1>13 DEF refilled, granted

LEMMA PacingTypeInit == PacingInit => PacingTypeOK
<1> SUFFICES ASSUME PacingInit PROVE PacingTypeOK
  OBVIOUS
<1>a. PICK g \in {"workspace", "global"} :
        \E p \in BOOLEAN, r \in Limits(g) : PacingStart(g, p, r)
  BY DEF PacingInit
<1>1. PICK p \in BOOLEAN, r \in Limits(g) : PacingStart(g, p, r)
  BY <1>a
<1>2. gate = g /\ patient = p /\ rate = r /\ stress = FALSE /\ wait = 0 /\ refusals = 0
  BY <1>1 DEF PacingStart
<1>3. /\ 0 \in Ages /\ Horizon \in Ages /\ 0 \in WindowAges /\ 0 \in CallCounts
      /\ 0 \in TokenCounts /\ 1000 \in Throttles /\ RecoverAfter + 1 \in CalmAges
  BY IntervalsAre, ConstantsAre
<1>4. g = "workspace" => r.burst * Minute \in TokenCounts
  <2> SUFFICES ASSUME g = "workspace" PROVE r.burst * Minute \in TokenCounts
    OBVIOUS
  <2>1. r \in RateConfigs
    BY DEF Limits
  <2>2. r.burst \in Nat /\ r.burst <= TopBurst
    BY <2>1, Tops, PacingAssumption
  <2>3. r.burst * Minute \in Nat /\ r.burst * Minute <= TopBurst * Minute
    BY <2>2, ConstantsAre, Multiples
  <2> QED
    BY <2>3, IntervalsAre
<1>5. bucket \in Buckets
  BY <1>1, <1>3, <1>4 DEF PacingStart, Buckets
<1>6. adaptive \in Adaptives
  BY <1>1, <1>3 DEF PacingStart, Adaptives, Full
<1>7. recent \in [Instants -> Nat]
  BY <1>1 DEF PacingStart, Instants
<1> QED
  BY <1>2, <1>3, <1>5, <1>6, <1>7, TypeIs

LEMMA PacingTypeStep == PacingTypeOK /\ [PacingNext]_paceVars => PacingTypeOK'
<1> SUFFICES ASSUME PacingTypeOK, [PacingNext]_paceVars PROVE PacingTypeOK'
  OBVIOUS
<1> DEFINE Goal ==
      /\ gate' \in {"workspace", "global"}
      /\ patient' \in BOOLEAN /\ stress' \in BOOLEAN
      /\ rate' \in Limits(gate')
      /\ bucket' \in Buckets
      /\ adaptive' \in Adaptives
      /\ recent' \in [Instants -> Nat]
      /\ wait' \in Ages /\ refusals' \in Nat
<1> SUFFICES Goal
  <2>1. PacingTypeOK' <=> Goal
    BY DEF PacingTypeOK, Buckets, Adaptives, TokenCounts, WindowAges, CallCounts, Throttles,
           CalmAges, Instants
  <2> QED
    BY <2>1
<1>0. /\ gate \in {"workspace", "global"}
      /\ patient \in BOOLEAN /\ stress \in BOOLEAN
      /\ rate \in Limits(gate)
      /\ bucket \in Buckets /\ adaptive \in Adaptives
      /\ recent \in [Instants -> Nat]
      /\ wait \in Ages /\ refusals \in Nat
  BY TypeIs
<1>1. CASE AcquireSlot
  <2>1. PICK before \in Nat : Settle(TryAcquire(bucket, adaptive'.throttle), before)
    BY <1>0, <1>1 DEF AcquireSlot
  <2>2. adaptive' \in Adaptives
    BY <1>1, AcquireReply
  <2>3. /\ bucket' \in Buckets /\ recent' \in [Instants -> Nat]
        /\ wait' \in Ages /\ refusals' \in Nat
    BY <2>1, <1>1, AcquireReply, SettleTyped
  <2>4. UNCHANGED <<gate, patient, rate, stress>>
    BY <1>1 DEF AcquireSlot
  <2> QED
    BY <2>2, <2>3, <2>4, <1>0
<1>2. CASE ClaimSlot
  <2>1. gate = "global" /\ Settle(GlobalRateAllows(bucket), refusals)
    BY <1>2 DEF ClaimSlot
  <2>2. GlobalRateAllows(bucket).bucket \in Buckets /\ GlobalRateAllows(bucket).wait \in {0, 1}
    BY <2>1, GlobalReplied
  <2>3. {0, 1} \subseteq Ages
    BY IntervalsAre, ConstantsAre
  <2>4. /\ bucket' \in Buckets /\ recent' \in [Instants -> Nat]
        /\ wait' \in Ages /\ refusals' \in Nat
    BY <2>1, <2>2, <2>3, <1>0, SettleTyped
  <2>5. UNCHANGED <<gate, patient, rate, adaptive, stress>>
    BY <1>2 DEF ClaimSlot
  <2> QED
    BY <2>4, <2>5, <1>0
<1>3. CASE ChangeLimits
  <2>1. rate' \in Limits(gate) /\ UNCHANGED <<gate, patient, adaptive, stress, recent, wait>>
    BY <1>3 DEF ChangeLimits
  <2>2. refusals' = 0
    BY <1>3 DEF ChangeLimits
  <2>3. bucket.tokens \in TokenCounts
    BY <1>0 DEF Buckets
  <2>4. CASE gate = "workspace"
    BY <2>1, <2>2, <2>4, <1>0, <1>3 DEF ChangeLimits
  <2>5. CASE gate = "global"
    <3>1. rate'.rpm \in Nat
      <4>1. PICK n \in GlobalRpms : rate' = GlobalLimit(n)
        BY <2>1, <2>5 DEF Limits
      <4> QED
        BY <4>1, PacingAssumption DEF GlobalLimit
    <3>2. Least(bucket.tokens, rate'.rpm * Minute) \in TokenCounts
      <4>1. rate'.rpm * Minute \in Nat
        BY <3>1, ConstantsAre
      <4> QED
        BY <4>1, <2>3, IntervalsAre, ConstantsAre DEF Least
    <3>3. bucket' = [bucket EXCEPT !.tokens = Least(bucket.tokens, rate'.rpm * Minute)]
      BY <1>3, <2>5 DEF ChangeLimits
    <3>4. bucket' \in Buckets
      BY <3>2, <3>3, <1>0 DEF Buckets
    <3> QED
      BY <3>4, <2>1, <2>2, <1>0
  <2> QED
    BY <2>4, <2>5, <1>0
<1>4. CASE StressChanges
  BY <1>0, <1>4 DEF StressChanges
<1>5. CASE TickPacing
  <2>1. UNCHANGED <<gate, patient, rate, stress, refusals>>
    BY <1>5 DEF TickPacing
  <2> QED
    BY <2>1, <1>0, <1>5, Ticked
<1>6. CASE UNCHANGED paceVars
  BY <1>0, <1>6 DEF paceVars
<1> QED
  BY <1>1, <1>2, <1>3, <1>4, <1>5, <1>6 DEF PacingNext

-----------------------------------------------------------------------------
(* How many calls a minute sees.                                            *)

\* The count covers the calls since its minute began, and those before are no more
\* than its predecessor allowed; a minute that is over ended with a tick.
Counted ==
  gate = "workspace" =>
    /\ \A t \in Instants : t <= bucket.window => recent[t] <= bucket.count
    /\ \A t \in Instants : recent[t] <= bucket.count + TopRpm
    /\ bucket.window >= Minute => recent[0] = 0

\* What the global bucket could hand out now.
Held == Least(TopRpm * Minute, bucket.tokens + bucket.refilled * TopRpm)

\* What it has handed out in the last t ticks and could hand out now is at most a
\* full bucket and the refill of those ticks.
Budgeted ==
  gate = "global" =>
    \A t \in Instants : recent[t] * Minute + Held <= TopRpm * Minute + t * TopRpm

LEMMA CountedStep == PacingTypeOK /\ Counted /\ [PacingNext]_paceVars => Counted'
<1> SUFFICES ASSUME PacingTypeOK, Counted, [PacingNext]_paceVars, gate' = "workspace"
             PROVE  /\ \A t \in Instants : t <= bucket'.window => recent'[t] <= bucket'.count
                    /\ \A t \in Instants : recent'[t] <= bucket'.count + TopRpm
                    /\ bucket'.window >= Minute => recent'[0] = 0
  BY DEF Counted, Instants
<1>0. /\ gate = "workspace"
      /\ bucket.window \in Nat /\ bucket.window <= Minute
      /\ bucket.count \in Nat /\ bucket.count <= TopRpm
      /\ \A t \in Instants : recent[t] \in Nat
      /\ 0 \in Instants /\ \A t \in Instants : t \in Nat /\ t < Minute
  <2>1. gate = "workspace"
    BY DEF PacingNext, AcquireSlot, ClaimSlot, ChangeLimits, StressChanges, TickPacing, paceVars
  <2>2. bucket \in Buckets /\ recent \in [Instants -> Nat]
    BY TypeIs
  <2> QED
    BY <2>1, <2>2, IntervalsAre, ConstantsAre DEF Buckets
<1>1. /\ \A t \in Instants : t <= bucket.window => recent[t] <= bucket.count
      /\ \A t \in Instants : recent[t] <= bucket.count + TopRpm
      /\ bucket.window >= Minute => recent[0] = 0
  BY <1>0 DEF Counted
<1>2. CASE AcquireSlot
  <2>1. PICK before \in Nat : Settle(TryAcquire(bucket, adaptive'.throttle), before)
    BY <1>2, TypeIs DEF AcquireSlot
  <2> DEFINE reply == TryAcquire(bucket, adaptive'.throttle)
             r     == Refill(bucket, Units(adaptive'.throttle), rate.burst)
  <2>2. /\ adaptive'.throttle \in Throttles /\ reply.bucket \in Buckets /\ reply.wait \in Ages
    BY <1>2, AcquireReply
  <2>3. /\ bucket' = reply.bucket
        /\ \A t \in Instants : recent'[t] = IF reply.wait = 0 THEN recent[t] + 1 ELSE recent[t]
    BY <2>1, <2>2, SettleTyped DEF Settle
  <2>4. /\ r.window \in Nat /\ r.window < Minute
        /\ bucket.window >= Minute => r.window = 0 /\ r.count = 0
        /\ bucket.window < Minute => r.window = bucket.window /\ r.count = bucket.count
    BY <2>2, Refilled, ThrottledLimits
  <2>5. \/ /\ reply.wait = 0
           /\ bucket'.count = r.count + 1 /\ bucket'.window = r.window
        \/ reply.wait # 0 /\ bucket' = r
    <3>1. \/ Grants(r, reply, adaptive'.throttle)
          \/ \E reason \in {"spacing", "count", "tokens"} :
               RefusesFor(r, reply, adaptive'.throttle, reason)
      BY <1>0, <2>2, Replied
    <3>2. reply.wait \in Nat
      BY <2>2, IntervalsAre
    <3> HIDE DEF r, reply
    <3> QED
      BY <2>3, <3>1, <3>2 DEF Grants, RefusesFor
  <2> HIDE DEF r, reply
  <2>6. r.count \in Nat
    BY <1>0, <2>4, ConstantsAre
  <2>7. /\ \A t \in Instants : t <= r.window => recent[t] <= r.count
        /\ \A t \in Instants : recent[t] <= r.count + TopRpm
    <3>1. CASE bucket.window >= Minute
      BY <3>1, <1>0, <1>1, <2>4, ConstantsAre
    <3>2. CASE bucket.window < Minute
      BY <3>2, <1>0, <1>1, <2>4
    <3> QED
      BY <3>1, <3>2, <1>0, ConstantsAre
  <2>8. CASE reply.wait = 0
    BY <2>8, <1>0, <2>3, <2>4, <2>5, <2>6, <2>7, ConstantsAre
  <2>9. CASE reply.wait # 0
    BY <2>9, <1>0, <2>3, <2>4, <2>5, <2>6, <2>7, ConstantsAre
  <2> QED
    BY <2>8, <2>9
<1>3. CASE ClaimSlot
  BY <1>0, <1>3 DEF ClaimSlot
<1>4. CASE ChangeLimits
  <2>1. UNCHANGED <<bucket, recent>>
    BY <1>0, <1>4 DEF ChangeLimits
  <2> QED
    BY <2>1, <1>1
<1>5. CASE StressChanges
  <2>1. UNCHANGED <<bucket, recent>>
    BY <1>5 DEF StressChanges
  <2> QED
    BY <2>1, <1>1
<1>6. CASE TickPacing
  <2>1. /\ bucket'.count = bucket.count
        /\ bucket'.window = Least(bucket.window + 1, Minute)
        /\ recent'[0] = 0
        /\ \A t \in Instants : t # 0 => recent'[t] = recent[t - 1]
    BY <1>0, <1>6, Ticked
  <2>2. bucket'.window <= bucket.window + 1
    BY <2>1, <1>0, ConstantsAre DEF Least
  <2>3. ASSUME NEW t \in Instants, t # 0
        PROVE  /\ t - 1 \in Instants /\ recent'[t] = recent[t - 1]
               /\ t <= bucket'.window => t - 1 <= bucket.window
    <3>1. t - 1 \in Instants
      BY <2>3, IntervalsAre, ConstantsAre
    <3>2. bucket'.window \in Nat
      BY <2>1, <1>0, ConstantsAre DEF Least
    <3> QED
      BY <2>1, <2>2, <2>3, <3>1, <3>2, <1>0
  <2>4. ASSUME NEW t \in Instants
        PROVE  /\ t <= bucket'.window => recent'[t] <= bucket'.count
               /\ recent'[t] <= bucket'.count + TopRpm
    <3>1. CASE t = 0
      BY <3>1, <1>0, <2>1, ConstantsAre
    <3>2. CASE t # 0
      BY <3>2, <1>1, <2>1, <2>3
    <3> QED
      BY <3>1, <3>2
  <2> QED
    BY <2>1, <2>4
<1>7. CASE UNCHANGED paceVars
  BY <1>1, <1>7 DEF paceVars
<1> QED
  BY <1>2, <1>3, <1>4, <1>5, <1>6, <1>7 DEF PacingNext

\* The tokens there are and will be after a refill are naturals.
LEMMA HeldIs ==
  ASSUME PacingTypeOK
  PROVE  /\ bucket.tokens \in Nat /\ bucket.refilled \in Nat
         /\ TopRpm * Minute \in Nat /\ bucket.refilled * TopRpm \in Nat
         /\ Held \in Nat /\ Held <= TopRpm * Minute
         /\ Held <= bucket.tokens + bucket.refilled * TopRpm
         /\ \A n \in Nat : n <= TopRpm * Minute /\ n <= bucket.tokens + bucket.refilled * TopRpm
              => n <= Held
<1>1. bucket \in Buckets
  BY TypeIs
<1>2. bucket.tokens \in Nat /\ bucket.refilled \in Nat
  BY <1>1, IntervalsAre DEF Buckets
<1>3. TopRpm * Minute \in Nat /\ bucket.refilled * TopRpm \in Nat
  BY <1>2, ConstantsAre
<1>4. \A a \in Nat, b \in Nat :
        /\ Least(a, b) \in Nat /\ Least(a, b) <= a /\ Least(a, b) <= b
        /\ \A n \in Nat : n <= a /\ n <= b => n <= Least(a, b)
  BY DEF Least
<1>5. bucket.tokens + bucket.refilled * TopRpm \in Nat
  BY <1>2, <1>3
<1> QED
  BY <1>2, <1>3, <1>4, <1>5 DEF Held

LEMMA HeldIsNext ==
  ASSUME PacingTypeOK'
  PROVE  /\ bucket'.tokens \in Nat /\ bucket'.refilled \in Nat
         /\ bucket'.refilled * TopRpm \in Nat
         /\ Held' \in Nat /\ Held' <= TopRpm * Minute
         /\ Held' <= bucket'.tokens + bucket'.refilled * TopRpm
<1>1. bucket'.tokens \in TokenCounts /\ bucket'.refilled \in Ages
  BY DEF PacingTypeOK, TokenCounts
<1>2. bucket'.tokens \in Nat /\ bucket'.refilled \in Nat
  BY <1>1, IntervalsAre
<1>3. TopRpm * Minute \in Nat /\ bucket'.refilled * TopRpm \in Nat
  BY <1>2, ConstantsAre
<1>4. \A a \in Nat, b \in Nat :
        Least(a, b) \in Nat /\ Least(a, b) <= a /\ Least(a, b) <= b
  BY DEF Least
<1>5. bucket'.tokens + bucket'.refilled * TopRpm \in Nat
  BY <1>2, <1>3
<1>6. Held' = Least(TopRpm * Minute, bucket'.tokens + bucket'.refilled * TopRpm)
  BY DEF Held
<1> QED
  BY <1>2, <1>3, <1>4, <1>5, <1>6

LEMMA BudgetedStep == PacingTypeOK /\ Budgeted /\ [PacingNext]_paceVars => Budgeted'
<1> SUFFICES ASSUME PacingTypeOK, Budgeted, [PacingNext]_paceVars, gate' = "global",
                    NEW t \in Instants
             PROVE  recent'[t] * Minute + Held' <= TopRpm * Minute + t * TopRpm
  BY DEF Budgeted, Instants
<1>0. /\ gate = "global"
      /\ t \in Nat /\ t * TopRpm \in Nat /\ recent[t] \in Nat /\ recent[t] * Minute \in Nat
      /\ TopRpm * Minute \in Nat
      /\ Held \in Nat
  <2>1. gate = "global"
    BY DEF PacingNext, AcquireSlot, ClaimSlot, ChangeLimits, StressChanges, TickPacing, paceVars
  <2>2. recent \in [Instants -> Nat]
    BY TypeIs
  <2>3. t \in Nat /\ recent[t] \in Nat
    BY <2>2, IntervalsAre, ConstantsAre
  <2> QED
    BY <2>1, <2>3, HeldIs, ConstantsAre
<1>1. recent[t] * Minute + Held <= TopRpm * Minute + t * TopRpm
  BY <1>0 DEF Budgeted
<1>2. /\ bucket'.tokens \in Nat /\ bucket'.refilled \in Nat
      /\ bucket'.refilled * TopRpm \in Nat
      /\ Held' \in Nat /\ Held' <= TopRpm * Minute
      /\ Held' <= bucket'.tokens + bucket'.refilled * TopRpm
  BY PacingTypeStep, HeldIsNext
<1>3. CASE AcquireSlot
  BY <1>0, <1>3 DEF AcquireSlot
<1>4. CASE ClaimSlot
  <2> DEFINE reply == GlobalRateAllows(bucket)
             taken == IF reply.wait = 0 THEN Minute ELSE 0
  <2>1. Settle(reply, refusals)
    BY <1>4 DEF ClaimSlot
  <2>2. /\ reply.bucket \in Buckets /\ reply.wait \in {0, 1} /\ reply.bucket.refilled = 0
        /\ reply.bucket.tokens + taken <= TopRpm * Minute
        /\ reply.bucket.tokens + taken <= bucket.tokens + bucket.refilled * TopRpm
    BY <1>0, GlobalReplied
  <2>3. /\ bucket' = reply.bucket
        /\ recent'[t] = IF reply.wait = 0 THEN recent[t] + 1 ELSE recent[t]
    <3>1. {0, 1} \subseteq Ages
      BY IntervalsAre, ConstantsAre
    <3>2. refusals \in Nat /\ reply.wait \in Ages
      BY <2>2, <3>1, TypeIs
    <3> HIDE DEF reply
    <3> QED
      BY <2>1, <2>2, <3>2, SettleTyped DEF Settle
  <2>4. taken \in Nat
    BY ConstantsAre
  <2> HIDE DEF reply
  <2>5. bucket'.tokens + taken <= Held
    <3>1. bucket'.tokens + taken \in Nat
      BY <1>2, <2>4
    <3> QED
      BY <2>2, <2>3, <3>1, HeldIs
  <2>6. Held' <= bucket'.tokens
    <3>1. bucket'.refilled * TopRpm = 0
      BY <2>2, <2>3, ConstantsAre
    <3> QED
      BY <1>2, <3>1
  <2>7. recent'[t] * Minute = recent[t] * Minute + taken
    BY <1>0, <2>3, ConstantsAre
  <2> QED
    BY <1>0, <1>1, <1>2, <2>4, <2>5, <2>6, <2>7
<1>5. CASE ChangeLimits
  <2>1. recent' = recent /\ bucket' = [bucket EXCEPT !.tokens = Least(bucket.tokens, rate'.rpm * Minute)]
    BY <1>0, <1>5 DEF ChangeLimits
  <2>2. bucket'.refilled = bucket.refilled /\ bucket'.tokens = Least(bucket.tokens, rate'.rpm * Minute)
    BY <2>1, TypeIs DEF Buckets
  <2>3. bucket'.tokens <= bucket.tokens
    <3>1. PICK n \in GlobalRpms : rate' = GlobalLimit(n)
      BY <1>0, <1>5 DEF ChangeLimits, Limits
    <3>2. rate'.rpm * Minute \in Nat
      BY <3>1, PacingAssumption, ConstantsAre DEF GlobalLimit
    <3> QED
      BY <2>2, <3>2, HeldIs DEF Least
  <2>4. Held' <= bucket.tokens + bucket.refilled * TopRpm
    BY <1>2, <2>2, <2>3, HeldIs
  <2>5. Held' <= Held
    BY <1>2, <2>4, HeldIs
  <2> QED
    BY <1>0, <1>1, <1>2, <2>1, <2>5
<1>6. CASE StressChanges
  BY <1>0, <1>6 DEF StressChanges
<1>7. CASE TickPacing
  <2>1. /\ bucket'.tokens = bucket.tokens /\ bucket'.refilled <= bucket.refilled + 1
        /\ recent'[0] = 0 /\ (t # 0 => recent'[t] = recent[t - 1])
    <3>1. bucket.refilled \in Ages
      BY TypeIs DEF Buckets
    <3> QED
      BY <1>7, <3>1, Ticked, OlderIs
  <2>2. CASE t = 0
    BY <2>1, <2>2, <1>0, <1>2, ConstantsAre
  <2>3. CASE t # 0
    <3>1. t - 1 \in Instants /\ t - 1 \in Nat
      BY <2>3, <1>0, IntervalsAre, ConstantsAre
    <3>2. recent[t - 1] \in Nat /\ recent[t - 1] * Minute \in Nat /\ (t - 1) * TopRpm \in Nat
      BY <3>1, TypeIs, ConstantsAre
    <3>3. recent[t - 1] * Minute + Held <= TopRpm * Minute + (t - 1) * TopRpm
      BY <3>1, <1>0 DEF Budgeted
    <3>4. (t - 1) * TopRpm + TopRpm = t * TopRpm
      BY <1>0, ConstantsAre
    <3>5. Held' <= Held + TopRpm
      <4>1. bucket'.refilled * TopRpm <= bucket.refilled * TopRpm + TopRpm
        <5>1. bucket'.refilled * TopRpm <= (bucket.refilled + 1) * TopRpm
          BY <2>1, <1>2, HeldIs, ConstantsAre, Multiples
        <5>2. (bucket.refilled + 1) * TopRpm = bucket.refilled * TopRpm + TopRpm
          BY HeldIs, ConstantsAre
        <5> QED
          BY <5>1, <5>2
      <4>2. PICK gain \in Nat, more \in Nat, full \in Nat, next \in Nat, top \in Nat :
              /\ gain = bucket.refilled * TopRpm /\ more = bucket'.refilled * TopRpm
              /\ full = TopRpm * Minute /\ next = Held' /\ top = TopRpm
        BY <1>0, <1>2, HeldIs, ConstantsAre
      <4>3. /\ next <= bucket.tokens + more /\ more <= gain + top /\ next <= full
        BY <1>2, <2>1, <4>1, <4>2
      <4>4. \A n \in Nat : n <= full /\ n <= bucket.tokens + gain => n <= Held
        BY <4>2, HeldIs
      <4>5. bucket.tokens \in Nat /\ Held \in Nat
        BY <1>0, HeldIs
      <4>6. CASE next <= top
        BY <4>2, <4>5, <4>6
      <4>7. CASE next > top
        <5>1. /\ next - top \in Nat
              /\ next - top <= full /\ next - top <= bucket.tokens + gain
          BY <4>3, <4>5, <4>7
        <5>2. next - top <= Held
          BY <5>1, <4>4
        <5>3. next <= Held + top
          BY <5>2, <4>5
        <5> QED
          BY <5>3, <4>2
      <4> QED
        BY <4>6, <4>7
    <3>6. recent'[t] * Minute = recent[t - 1] * Minute
      BY <2>1, <2>3
    <3> QED
      BY <3>2, <3>3, <3>4, <3>5, <3>6, <1>0, <1>2, ConstantsAre
  <2> QED
    BY <2>2, <2>3
<1>8. CASE UNCHANGED paceVars
  <2>1. recent' = recent /\ Held' = Held
    BY <1>8 DEF paceVars, Held
  <2> QED
    BY <2>1, <1>1
<1> QED
  BY <1>3, <1>4, <1>5, <1>6, <1>7, <1>8 DEF PacingNext

-----------------------------------------------------------------------------
(* How often a patient caller is refused.                                   *)

\* When its wait is over, what the caller was refused for is: after the first
\* refusal the spacing, after the second the minute's count, after the third the
\* lack of tokens.
Appeased ==
  /\ gate = "global" => ~ patient
  /\ ~ patient => refusals = 0
  /\ refusals <= 3
  /\ refusals >= 1 => bucket.granted + wait >= SpacingOf(rate, adaptive.throttle)
  /\ refusals >= 2 => \/ bucket.count < Calls(adaptive.throttle)
                      \/ bucket.window + wait >= Minute
  /\ refusals >= 3 =>
       bucket.tokens + (bucket.refilled + wait) * Units(adaptive.throttle) >= Minute

\* Each refusal of a caller that has waited is for another reason than the last,
\* and spacing, count and tokens come in this order.
LEMMA AcquireAppeases ==
  ASSUME PacingTypeOK, Appeased, AcquireSlot
  PROVE  Appeased'
<1> DEFINE t      == adaptive'.throttle
           reply  == TryAcquire(bucket, t)
           r      == Refill(bucket, Units(t), rate.burst)
           before == IF t = adaptive.throttle THEN refusals ELSE 0
<1>1. /\ gate = "workspace" /\ wait = 0 /\ t \in Throttles
      /\ reply.bucket \in Buckets /\ reply.wait \in Ages
  BY AcquireReply
<1>2. /\ UNCHANGED <<gate, patient, rate>>
      /\ bucket' = reply.bucket
      /\ wait' = IF patient THEN reply.wait ELSE 0
      /\ refusals' = IF patient /\ reply.wait > 0 THEN before + 1 ELSE 0
  BY DEF AcquireSlot, Settle
<1>3. /\ r.granted = bucket.granted
      /\ bucket.window >= Minute => r.window = 0 /\ r.count = 0
      /\ bucket.window < Minute => r.window = bucket.window /\ r.count = bucket.count
      /\ r.tokens = Least(rate.burst * Minute, bucket.tokens + bucket.refilled * Units(t))
      /\ r \in Buckets /\ r.refilled = 0
  BY <1>1, Refilled, ThrottledLimits
<1>4. \/ Grants(r, reply, t)
      \/ \E reason \in {"spacing", "count", "tokens"} : RefusesFor(r, reply, t, reason)
  BY <1>1, Replied
<1>5. /\ Units(t) \in Nat \ {0} /\ Calls(t) \in Nat \ {0} /\ SpacingOf(rate, t) \in Nat
  BY <1>1, ThrottledLimits
<1>6. /\ bucket.window \in Nat /\ bucket.granted \in Nat /\ bucket.tokens \in Nat
      /\ bucket.refilled \in Nat /\ bucket.count \in Nat
      /\ r.window \in Nat /\ r.granted \in Nat /\ r.tokens \in Nat /\ r.count \in Nat
      /\ reply.wait \in Nat /\ before \in Nat /\ refusals \in Nat /\ patient \in BOOLEAN
  BY <1>1, <1>3, TypeIs, IntervalsAre DEF Buckets
<1>7. /\ Units(adaptive.throttle)' = Units(t) /\ Calls(adaptive.throttle)' = Calls(t)
      /\ SpacingOf(rate, adaptive.throttle)' = SpacingOf(rate, t)
  BY <1>2 DEF Units, Calls, SpacingOf
<1> HIDE DEF reply, r
<1>8. /\ before <= 3
      /\ before > 0 => /\ t = adaptive.throttle /\ before = refusals
      /\ before >= 1 => bucket.granted >= SpacingOf(rate, t)
      /\ before >= 2 => bucket.count < Calls(t) \/ bucket.window >= Minute
      /\ before >= 3 => bucket.tokens + bucket.refilled * Units(t) >= Minute
  <2>1. before = 0 \/ (t = adaptive.throttle /\ before = refusals)
    OBVIOUS
  <2>2. CASE before = 0
    BY <2>2
  <2>3. CASE t = adaptive.throttle /\ before = refusals
    <3>1. /\ bucket.granted + wait = bucket.granted /\ bucket.window + wait = bucket.window
          /\ bucket.refilled + wait = bucket.refilled
      BY <1>1, <1>6
    <3> HIDE DEF before, t
    <3> QED
      BY <2>3, <3>1, <1>6 DEF Appeased
  <2> QED
    BY <2>1, <2>2, <2>3
<1> HIDE DEF before
<1>9. CASE refusals' = 0
  <2>1. gate' = "global" => ~ patient'
    BY <1>2 DEF Appeased
  <2> QED
    BY <1>9, <2>1 DEF Appeased
<1>10. CASE patient /\ reply.wait > 0
  <2>1. refusals' = before + 1 /\ wait' = reply.wait
    BY <1>2, <1>10
  <2>2. PICK reason \in {"spacing", "count", "tokens"} : RefusesFor(r, reply, t, reason)
    BY <1>4, <1>6, <1>10 DEF Grants
  <2>3. bucket' = r
    BY <1>2, <2>2 DEF RefusesFor
  <2>4. r.granted + reply.wait >= SpacingOf(rate, t)
    BY <2>2, <1>5, <1>6 DEF RefusesFor
  <2>5. ASSUME before >= 1 PROVE r.count < Calls(t) \/ r.window + reply.wait >= Minute
    <3>1. reason # "spacing"
      BY <2>2, <2>5, <1>3, <1>5, <1>6, <1>8 DEF RefusesFor
    <3>2. reason = "count" => r.window + reply.wait = Minute
      BY <2>2, <1>6, ConstantsAre DEF RefusesFor
    <3>3. reason = "tokens" => r.count < Calls(t)
      BY <2>2 DEF RefusesFor
    <3> QED
      BY <3>1, <3>2, <3>3, <1>6, ConstantsAre
  <2>6. ASSUME before >= 2
        PROVE  reason = "tokens" /\ r.tokens + (r.refilled + reply.wait) * Units(t) >= Minute
    <3>1. reason # "spacing"
      BY <2>2, <2>6, <1>3, <1>5, <1>6, <1>8 DEF RefusesFor
    <3>2. r.count < Calls(t)
      BY <2>6, <1>3, <1>5, <1>6, <1>8, ConstantsAre
    <3>3. reason # "count"
      BY <2>2, <3>2, <1>5, <1>6 DEF RefusesFor
    <3>4. reason = "tokens" /\ Minute <= r.tokens + reply.wait * Units(t)
      BY <2>2, <3>1, <3>3 DEF RefusesFor
    <3>5. r.refilled + reply.wait = reply.wait
      BY <1>3, <1>6
    <3>6. reply.wait * Units(t) \in Nat
      BY <1>5, <1>6
    <3> QED
      BY <3>4, <3>5, <3>6, <1>6, ConstantsAre
  <2>7. before <= 2
    <3> SUFFICES ASSUME before >= 3 PROVE FALSE
      BY <1>6, <1>8
    <3>1. reason = "tokens" /\ r.tokens < Minute
      <4>1. before >= 2
        BY <1>6
      <4> QED
        BY <4>1, <2>2, <2>6 DEF RefusesFor
    <3>2. bucket.refilled * Units(t) \in Nat /\ bucket.tokens + bucket.refilled * Units(t) >= Minute
      BY <1>5, <1>6, <1>8
    <3>3. rate.burst * Minute \in Nat /\ rate.burst * Minute >= Minute
      <4>1. \A n \in Nat \ {0} : n * Minute \in Nat /\ n * Minute >= Minute
        BY ConstantsAre
      <4> QED
        BY <4>1, LimitsAre
    <3>4. \A a, b \in Nat : a >= Minute /\ b >= Minute => Least(a, b) >= Minute
      BY DEF Least
    <3>5. bucket.tokens + bucket.refilled * Units(t) \in Nat
      BY <3>2, <1>6
    <3>6. r.tokens >= Minute
      BY <1>3, <3>2, <3>3, <3>4, <3>5
    <3> QED
      BY <3>1, <3>6, <1>6, ConstantsAre
  <2>8. gate' # "global"
    BY <1>1, <1>2
  <2> HIDE DEF t
  <2>9. /\ refusals' <= 3 /\ patient'
        /\ bucket'.granted + wait' >= SpacingOf(rate, t)
        /\ refusals' >= 2 => bucket'.count < Calls(t) \/ bucket'.window + wait' >= Minute
        /\ refusals' >= 3 => bucket'.tokens + (bucket'.refilled + wait') * Units(t) >= Minute
    BY <2>1, <2>3, <2>4, <2>5, <2>6, <2>7, <1>2, <1>6, <1>10
  <2> QED
    BY <2>8, <2>9, <1>7 DEF Appeased
<1> QED
  BY <1>2, <1>9, <1>10

LEMMA AppeasedStep == PacingTypeOK /\ Appeased /\ [PacingNext]_paceVars => Appeased'
<1> SUFFICES ASSUME PacingTypeOK, Appeased, [PacingNext]_paceVars PROVE Appeased'
  OBVIOUS
<1>1. CASE AcquireSlot
  BY <1>1, AcquireAppeases
<1>2. CASE ClaimSlot
  <2>1. UNCHANGED <<gate, patient>> /\ gate = "global" /\ refusals' = 0
    BY <1>2 DEF ClaimSlot, Settle, Appeased
  <2> QED
    BY <2>1 DEF Appeased
<1>3. CASE ChangeLimits
  <2>1. UNCHANGED <<gate, patient>> /\ refusals' = 0
    BY <1>3 DEF ChangeLimits
  <2> QED
    BY <2>1 DEF Appeased
<1>4. CASE StressChanges
  <2>1. UNCHANGED <<gate, patient>> /\ refusals' = 0
    BY <1>4 DEF StressChanges
  <2> QED
    BY <2>1 DEF Appeased
<1>5. CASE TickPacing
  <2> DEFINE t == adaptive.throttle
  <2>1. /\ UNCHANGED <<gate, patient, rate, refusals>>
        /\ adaptive'.throttle = t
        /\ bucket'.tokens = bucket.tokens /\ bucket'.count = bucket.count
        /\ bucket'.refilled = Older(bucket.refilled) /\ bucket'.granted = Older(bucket.granted)
        /\ gate = "workspace" => bucket'.window = Least(bucket.window + 1, Minute)
        /\ wait' \in Ages /\ wait' >= wait - 1
    BY <1>5, Ticked DEF TickPacing
  <2>2. /\ Units(adaptive.throttle)' = Units(t) /\ Calls(adaptive.throttle)' = Calls(t)
        /\ SpacingOf(rate, adaptive.throttle)' = SpacingOf(rate, t)
    BY <2>1 DEF Units, Calls, SpacingOf
  <2>3. /\ bucket.refilled \in Ages /\ bucket.granted \in Ages /\ bucket.window \in WindowAges
        /\ bucket.tokens \in TokenCounts /\ bucket.count \in CallCounts
        /\ wait \in Ages /\ t \in Throttles /\ refusals \in Nat
    BY TypeIs DEF Buckets, Adaptives
  <2>4. CASE refusals = 0
    BY <2>1, <2>4 DEF Appeased
  <2>5. CASE refusals >= 1
    <3>1. gate = "workspace" /\ patient
      BY <2>3, <2>5, TypeIs DEF Appeased
    <3>2. /\ Units(t) \in Nat \ {0} /\ Calls(t) \in Nat
          /\ SpacingOf(rate, t) \in Nat /\ SpacingOf(rate, t) <= Horizon
      BY <2>3, <3>1, ThrottledLimits
    <3>3. /\ wait \in Nat /\ wait' \in Nat
          /\ bucket.granted \in Nat /\ bucket.granted <= Horizon
          /\ bucket.refilled \in Nat /\ bucket.refilled <= Horizon
          /\ bucket.window \in Nat /\ bucket.tokens \in Nat
      BY <2>1, <2>3, IntervalsAre
    <3>4. ASSUME NEW n \in Ages, NEW goal \in Nat, goal <= Horizon, n + wait >= goal
          PROVE  Older(n) + wait' >= goal
      <4>1. /\ n \in Nat /\ n <= Horizon /\ Older(n) \in Nat
            /\ n < Horizon => Older(n) = n + 1
            /\ Older(n) >= n
        BY OlderIs, IntervalsAre
      <4> QED
        BY <4>1, <2>1, <3>3, <3>4, ConstantsAre
    <3>5. bucket'.granted + wait' >= SpacingOf(rate, t)
      BY <2>1, <2>3, <2>5, <3>2, <3>4 DEF Appeased
    <3>6. bucket.window + wait >= Minute => bucket'.window + wait' >= Minute
      BY <2>1, <3>1, <3>3, ConstantsAre DEF Least
    <3>7. ASSUME bucket.tokens + (bucket.refilled + wait) * Units(t) >= Minute
          PROVE  bucket'.tokens + (bucket'.refilled + wait') * Units(t) >= Minute
      <4>1. PICK u \in Nat \ {0} : u = Units(t)
        BY <3>2
      <4>2. /\ bucket'.refilled \in Nat
            /\ bucket'.refilled + wait' >= bucket.refilled + wait \/ bucket'.refilled = Horizon
        BY <2>1, <2>3, <3>3, OlderIs, IntervalsAre, ConstantsAre
      <4>3. ASSUME bucket'.refilled + wait' >= bucket.refilled + wait
            PROVE  (bucket'.refilled + wait') * u >= (bucket.refilled + wait) * u
        <5>1. /\ bucket'.refilled + wait' \in Int /\ bucket.refilled + wait \in Int
              /\ bucket.refilled + wait <= bucket'.refilled + wait'
          BY <4>2, <4>3, <3>3
        <5> QED
          BY <5>1, Multiples
      <4>4. ASSUME bucket'.refilled = Horizon
            PROVE  (bucket'.refilled + wait') * u >= Minute
        <5>a. Horizon >= Minute /\ Horizon \in Nat /\ Minute \in Nat \ {0}
          BY ConstantsAre
        <5>b. PICK w \in Nat : w = wait'
          BY <3>3
        <5>c. Horizon + w \in Nat /\ Horizon + w >= Minute
          BY <5>a
        <5>1. PICK n \in Nat : n = bucket'.refilled + wait' /\ n >= Minute
          BY <5>b, <5>c, <4>4
        <5>2. n \in Nat \ {0} /\ 1 <= u
          BY <5>1, ConstantsAre
        <5>3. n * 1 <= n * u
          BY <5>2, Multiples
        <5>4. n * u \in Nat /\ n * 1 = n
          BY <5>1, <5>2
        <5>5. n * u >= Minute
          BY <5>1, <5>3, <5>4, ConstantsAre
        <5> QED
          BY <5>1, <5>5
      <4>5. PICK before \in Nat, after \in Nat :
              /\ before = (bucket.refilled + wait) * u /\ after = (bucket'.refilled + wait') * u
        BY <3>3, <4>2
      <4>6. bucket.tokens + before >= Minute /\ (after >= before \/ after >= Minute)
        BY <3>7, <4>1, <4>2, <4>3, <4>4, <4>5
      <4>7. bucket.tokens + after >= Minute
        BY <4>6, <3>3, ConstantsAre
      <4> QED
        BY <4>1, <4>5, <4>7, <2>1
    <3>8. /\ refusals <= 3
          /\ refusals >= 2 => bucket.count < Calls(t) \/ bucket.window + wait >= Minute
          /\ refusals >= 3 => bucket.tokens + (bucket.refilled + wait) * Units(t) >= Minute
      BY DEF Appeased
    <3> HIDE DEF t
    <3> QED
      BY <2>1, <2>2, <3>1, <3>5, <3>6, <3>7, <3>8 DEF Appeased
  <2> QED
    BY <2>3, <2>4, <2>5
<1>6. CASE UNCHANGED paceVars
  BY <1>6 DEF paceVars, Appeased, Units, Calls, SpacingOf
<1> QED
  BY <1>1, <1>2, <1>3, <1>4, <1>5, <1>6 DEF PacingNext

-----------------------------------------------------------------------------
(* The theorems.                                                            *)

\* All three at the start.
LEMMA PacingStarts == PacingInit => Counted /\ Budgeted /\ Appeased
<1> SUFFICES ASSUME PacingInit PROVE Counted /\ Budgeted /\ Appeased
  OBVIOUS
<1>1. PICK g \in {"workspace", "global"} :
        \E p \in (IF g = "workspace" THEN BOOLEAN ELSE {FALSE}), r \in Limits(g) : PacingStart(g, p, r)
  BY DEF PacingInit
<1>2. /\ gate = g /\ refusals = 0 /\ (g = "global" => ~ patient)
      /\ bucket.window = 0 /\ bucket.count = 0
      /\ recent = [t \in 0 .. Minute - 1 |-> 0]
  <2>1. PICK p \in (IF g = "workspace" THEN BOOLEAN ELSE {FALSE}), r \in Limits(g) : PacingStart(g, p, r)
    BY <1>1
  <2>2. bucket.window = 0 /\ bucket.count = 0
    BY <2>1 DEF PacingStart
  <2>3. g = "global" => p = FALSE
    BY <2>1
  <2> QED
    BY <2>1, <2>2, <2>3 DEF PacingStart
<1>3. /\ \A t \in Instants : recent[t] = 0 /\ t \in Nat /\ t * TopRpm \in Nat
      /\ 0 * Minute = 0 /\ 0 + TopRpm \in Nat
  BY <1>2, IntervalsAre, ConstantsAre DEF Instants
<1>4. Counted
  BY <1>2, <1>3, ConstantsAre DEF Counted
<1>5. Budgeted
  <2>1. Held \in Nat /\ Held <= TopRpm * Minute /\ TopRpm * Minute \in Nat
    BY PacingTypeInit, HeldIs
  <2> QED
    BY <1>3, <2>1 DEF Budgeted
<1>6. Appeased
  BY <1>2 DEF Appeased
<1> QED
  BY <1>4, <1>5, <1>6

\* Every value of the bucket, the throttle and the waits stays in its range, for
\* any limits, throttle and length of a minute.
THEOREM PacingTyped == PacingSpec => []PacingTypeOK
<1> QED
  BY PacingTypeInit, PacingTypeStep, PTL DEF PacingSpec

\* Neither the bucket of a workspace, whose minute begins with a call, nor the
\* global one, that refills evenly, lets more than twice the highest ceiling through
\* in a minute, whatever an operator or the tuner does to the limits meanwhile.
THEOREM NoMinuteOverTwice == PacingSpec => []MinuteBounded
<1>1. PacingTypeOK /\ Counted /\ Budgeted => MinuteBounded
  <2> SUFFICES ASSUME PacingTypeOK, Counted, Budgeted PROVE MinuteBounded
    OBVIOUS
  <2>1. Minute - 1 \in Instants /\ Minute - 1 \in Nat
    BY IntervalsAre, ConstantsAre
  <2>2. recent[Minute - 1] \in Nat /\ TopRpm \in Nat /\ TopRpm * Minute \in Nat
    BY <2>1, TypeIs, HeldIs, ConstantsAre
  <2>3. CASE gate = "workspace"
    <3>1. bucket.count \in Nat /\ bucket.count <= TopRpm
      BY TypeIs, IntervalsAre DEF Buckets
    <3>2. recent[Minute - 1] <= bucket.count + TopRpm
      BY <2>1, <2>3 DEF Counted
    <3> QED
      BY <2>2, <3>1, <3>2 DEF MinuteBounded
  <2>4. CASE gate = "global"
    <3>1. recent[Minute - 1] * Minute + Held <= TopRpm * Minute + (Minute - 1) * TopRpm
      BY <2>1, <2>4 DEF Budgeted
    <3>2. (Minute - 1) * TopRpm = TopRpm * Minute - TopRpm
      BY ConstantsAre
    <3>3. recent[Minute - 1] * Minute \in Nat /\ (2 * TopRpm) * Minute = 2 * (TopRpm * Minute)
      BY <2>2, ConstantsAre
    <3>4. recent[Minute - 1] * Minute <= (2 * TopRpm) * Minute
      BY <2>2, <3>1, <3>2, <3>3, HeldIs
    <3>5. recent[Minute - 1] <= 2 * TopRpm
      BY <2>2, <3>4, ConstantsAre, Multiples
    <3> QED
      BY <3>5 DEF MinuteBounded
  <2> QED
    BY <2>3, <2>4, TypeIs
<1> QED
  BY <1>1, PacingTypeInit, PacingTypeStep, PacingStarts, CountedStep, BudgetedStep, PTL
     DEF PacingSpec

\* The wait a caller is told is long enough for what it was refused for: it is
\* refused at most once each for spacing, count and tokens.
THEOREM PatienceRewarded == PacingSpec => []PatienceIsRewarded
<1>1. Appeased => PatienceIsRewarded
  BY DEF Appeased, PatienceIsRewarded
<1> QED
  BY <1>1, PacingTypeInit, PacingTypeStep, PacingStarts, AppeasedStep, PTL DEF PacingSpec

-----------------------------------------------------------------------------
(* RateLimits.                                                              *)

\* Membership of the intervals, in the form the solver takes.
LEMMA RpmsAre == \A n : n \in Rpms <=> n \in Int /\ 1 <= n /\ n <= 6000
<1>1. \A n \in Rpms : n \in Int /\ 1 <= n /\ n <= 6000
  BY DEF Rpms
<1>2. \A n \in Int : 1 <= n /\ n <= 6000 => n \in Rpms
  BY DEF Rpms
<1> QED
  BY <1>1, <1>2

LEMMA CompanionsAre ==
  /\ \A n : n \in Rpss <=> n \in Int /\ 1 <= n /\ n <= 200
  /\ \A n : n \in Concs <=> n \in Int /\ 1 <= n /\ n <= 64
  /\ \A n : n \in Delays <=> n \in Int /\ 5 <= n /\ n <= 60000
<1>1. /\ \A n \in Rpss : n \in Int /\ 1 <= n /\ n <= 200
      /\ \A n \in Concs : n \in Int /\ 1 <= n /\ n <= 64
      /\ \A n \in Delays : n \in Int /\ 5 <= n /\ n <= 60000
  BY DEF Rpss, Concs, Delays
<1>2. \A n \in Int : 1 <= n /\ n <= 200 => n \in Rpss
  BY DEF Rpss
<1>3. \A n \in Int : 1 <= n /\ n <= 64 => n \in Concs
  BY DEF Concs
<1>4. ASSUME NEW n \in Int, 5 <= n, n <= 60000 PROVE n \in Delays
  BY <1>4 DEF Delays
<1> QED
  BY <1>1, <1>2, <1>3, <1>4

\* The spacing of calls fits its column.
LEMMA SpacingTyped ==
  ASSUME NEW rpm \in Rpms
  PROVE  Spacing(rpm) \in Delays
<1>1. rpm \in Int /\ rpm > 0
  BY RpmsAre
<1>2. 60000 \div rpm \in Int /\ 60000 \div rpm >= 0 /\ (60000 \div rpm) * rpm <= 60000
  BY <1>1
<1>3. 60000 \div rpm <= 60000
  BY <1>1, <1>2
<1>4. Spacing(rpm) \in Int /\ 5 <= Spacing(rpm) /\ Spacing(rpm) <= 60000
  BY <1>2, <1>3 DEF Spacing, AtLeast
<1> QED
  BY <1>4, CompanionsAre

\* What the tuner derives, what the operator enters and what a new row is given.
LEMMA LimitsTyped ==
  /\ \A rpm \in Rpms : Derived(rpm) \in AllLimits /\ Manual(rpm) \in AllLimits
  /\ TuneSeed \in AllLimits
  /\ \A on \in BOOLEAN : Profile(on) \in AllLimits /\ ModeSeed(on) \in AllLimits
<1>1. ASSUME NEW rpm \in Rpms PROVE Derived(rpm) \in AllLimits /\ Manual(rpm) \in AllLimits
  <2>1. /\ UpDiv(rpm, 30) \in Int /\ UpDiv(rpm, 30) <= 200
        /\ UpDiv(rpm, 60) \in Int
    BY RpmsAre DEF UpDiv
  <2>2. AtLeast(UpDiv(rpm, 30), 1) \in Rpss
    BY <2>1, CompanionsAre DEF AtLeast
  <2>3. AtLeast(AtMost(UpDiv(rpm, 60), 48), 3) \in Concs
    BY <2>1, CompanionsAre DEF AtLeast, AtMost
  <2>4. Spacing(rpm) \in Delays
    BY SpacingTyped
  <2>5. 1 \in Rpss /\ 1 \in Concs
    BY CompanionsAre
  <2> QED
    BY <2>2, <2>3, <2>4, <2>5 DEF Derived, Manual, AllLimits
<1>2. TuneSeed \in AllLimits /\ \A on \in BOOLEAN : Profile(on) \in AllLimits
  BY DEF TuneSeed, Profile, AllLimits, Rpms, Rpss, Concs, Delays
<1>3. \A on \in BOOLEAN : ModeSeed(on) \in AllLimits
  <2>1. /\ UpDiv(600, 30) = 20 /\ AtLeast(UpDiv(600, 60), 6) = 10
        /\ UpDiv(200, 30) = 7 /\ AtLeast(UpDiv(200, 60), 6) = 6
    BY DEF UpDiv, AtLeast
  <2>2. 600 \in Rpms /\ 200 \in Rpms /\ {7, 20} \subseteq Rpss /\ {6, 10} \subseteq Concs
    BY DEF Rpms, Rpss, Concs
  <2>3. Spacing(600) \in Delays /\ Spacing(200) \in Delays
    BY <2>2, SpacingTyped
  <2> QED
    BY <2>1, <2>2, <2>3 DEF ModeSeed, AllLimits
<1> QED
  BY <1>1, <1>2, <1>3

\* The tuner stays within what the operator could enter.
LEMMA NextRpmTyped ==
  ASSUME NEW rpm \in Rpms, NEW traffic \in {"idle", "good", "bad"},
         NEW tuning \in {NormalTuning, FastTuning}
  PROVE  NextRpm(rpm, traffic, tuning) \in Rpms
<1>1. tuning.ceil \in Rpms /\ tuning.increase \in Nat /\ FloorRpm \in Rpms
  BY LimitsAssumption
<1>2. CASE traffic = "bad"
  <2>1. AtLeast(rpm \div 2, FloorRpm) \in Rpms
    BY <1>1, RpmsAre DEF AtLeast
  <2> QED
    BY <1>2, <2>1 DEF NextRpm
<1>3. CASE traffic # "bad" /\ rpm > tuning.ceil
  <2>1. AtLeast((rpm * 7) \div 10, tuning.ceil) \in Rpms
    BY <1>1, RpmsAre DEF AtLeast
  <2>2. ~ (rpm <= tuning.ceil)
    BY <1>1, <1>3, RpmsAre
  <2>3. NextRpm(rpm, traffic, tuning) = AtLeast((rpm * 7) \div 10, tuning.ceil)
    BY <1>3, <2>2, Zenon DEF NextRpm
  <2> QED
    BY <2>1, <2>3
<1>4. CASE traffic # "bad" /\ rpm <= tuning.ceil
  <2>1. AtMost(rpm + tuning.increase, tuning.ceil) \in Rpms
    BY <1>1, RpmsAre DEF AtMost
  <2>2. ~ (traffic # "bad" /\ rpm > tuning.ceil)
    BY <1>1, <1>4, RpmsAre
  <2>3. CASE traffic = "idle"
    BY <1>4, <2>2, <2>3 DEF NextRpm
  <2>4. CASE traffic = "good"
    <3>1. NextRpm(rpm, traffic, tuning) = AtMost(rpm + tuning.increase, tuning.ceil)
      BY <1>4, <2>2, <2>4, Zenon DEF NextRpm
    <3> QED
      BY <2>1, <3>1
  <2> QED
    BY <1>4, <2>3, <2>4
<1>5. rpm > tuning.ceil \/ rpm <= tuning.ceil
  BY <1>1, RpmsAre
<1> QED
  BY <1>2, <1>3, <1>4, <1>5

-----------------------------------------------------------------------------

LEMMA LimitsTypeInit == LimitsInit => LimitsTypeOK
<1> SUFFICES ASSUME LimitsInit PROVE LimitsTypeOK
  OBVIOUS
<1>1. Profile(FALSE) \in AllLimits
  BY LimitsTyped
<1>2. 0 \in 0 .. MaxOperatorActs
  BY LimitsAssumption
<1> QED
  BY <1>1, <1>2 DEF LimitsInit, LimitsTypeOK, AllTicks, NoRow, NotTuning

\* What a tick writes, and to what.
LEMMA TuneWrites ==
  ASSUME LimitsTypeOK, NEW t \in Tuners, TuneWrite(t)
  PROVE  \E traffic \in {"idle", "good", "bad"} :
           LET n == NextRpm(tuner[t].limits.rpm, traffic, Tuning(tuner[t].fast))
           IN  /\ n \in Rpms /\ tuner[t].limits.rpm \in Rpms
               /\ \/ UNCHANGED <<row, strays>> /\ n = tuner[t].limits.rpm
                  \/ /\ row' = [row EXCEPT !.limits = Derived(n)]
                     /\ strays' = IF row.auto THEN strays ELSE strays + 1
<1>1. PICK traffic \in {"idle", "good", "bad"} :
        LET next == Derived(NextRpm(tuner[t].limits.rpm, traffic, Tuning(tuner[t].fast)))
        IN  IF Unchanged(tuner[t].limits, next) THEN UNCHANGED <<row, strays>>
            ELSE /\ row' = [row EXCEPT !.limits = next]
                 /\ strays' = IF row.auto THEN strays ELSE strays + 1
  BY DEF TuneWrite
<1>2. tuner[t].limits.rpm \in Rpms /\ tuner[t].fast \in BOOLEAN
  BY DEF LimitsTypeOK, AllTicks, AllLimits
<1>3. Tuning(tuner[t].fast) \in {NormalTuning, FastTuning}
  BY DEF Tuning
<1>4. PICK n : n = NextRpm(tuner[t].limits.rpm, traffic, Tuning(tuner[t].fast))
  OBVIOUS
<1>5. n \in Rpms
  BY <1>2, <1>3, <1>4, NextRpmTyped
<1>6. Derived(n).rpm = n
  BY DEF Derived
<1>7. CASE tuner[t].limits = Derived(n)
  <2>1. UNCHANGED <<row, strays>>
    BY <1>1, <1>4, <1>7 DEF Unchanged
  <2>2. n = tuner[t].limits.rpm
    BY <1>6, <1>7
  <2> QED
    BY <1>2, <1>4, <1>5, <2>1, <2>2
<1>8. CASE tuner[t].limits # Derived(n)
  <2>1. /\ row' = [row EXCEPT !.limits = Derived(n)]
        /\ strays' = IF row.auto THEN strays ELSE strays + 1
    BY <1>1, <1>4, <1>8 DEF Unchanged
  <2> QED
    BY <1>2, <1>4, <1>5, <2>1
<1> QED
  BY <1>7, <1>8

LEMMA LimitsTypeStep ==
  ASSUME LimitsTypeOK, [LimitsNext]_limitVars
  PROVE  LimitsTypeOK'
<1> USE LimitsAssumption DEF LimitsTypeOK, AllTicks
<1>1. ASSUME NEW t \in Tuners, TuneRead(t) PROVE LimitsTypeOK'
  BY <1>1 DEF TuneRead
<1>2. ASSUME NEW t \in Tuners, TuneMode(t) PROVE LimitsTypeOK'
  <2>1. PICK quick \in BOOLEAN :
          tuner' = [tuner EXCEPT ![t] = [@ EXCEPT !.at = "write", !.fast = quick]]
    BY <1>2 DEF TuneMode
  <2>2. [tuner[t] EXCEPT !.at = "write", !.fast = quick] \in AllTicks
    OBVIOUS
  <2>3. tuner' \in [Tuners -> AllTicks]
    BY <2>1, <2>2
  <2> QED
    BY <1>2, <2>3 DEF TuneMode
<1>3. ASSUME NEW t \in Tuners, TuneWrite(t) PROVE LimitsTypeOK'
  <2>1. PICK n \in Rpms :
          \/ UNCHANGED <<row, strays>>
          \/ /\ row' = [row EXCEPT !.limits = Derived(n)]
             /\ strays' = IF row.auto THEN strays ELSE strays + 1
    BY <1>3, TuneWrites
  <2>2. row' \in [exists : BOOLEAN, auto : BOOLEAN, limits : AllLimits]
        /\ row'.exists = row.exists /\ row'.auto = row.auto /\ strays' \in Nat
    BY <2>1, LimitsTyped
  <2>3. NotTuning \in AllTicks
    BY LimitsTyped DEF NotTuning
  <2> QED
    BY <1>3, <2>2, <2>3 DEF TuneWrite
<1>4. CASE SetRateLimit
  BY <1>4, LimitsTyped DEF SetRateLimit, OperatorActs, Row
<1>5. CASE ToggleAutoTune
  BY <1>5, LimitsTyped DEF ToggleAutoTune, OperatorActs, Row
<1>6. CASE SetMode
  BY <1>6 DEF SetMode, OperatorActs
<1>7. CASE SeedRow
  BY <1>7, LimitsTyped DEF SeedRow, Row
<1>8. CASE UNCHANGED limitVars
  BY <1>8 DEF limitVars
<1> QED
  BY <1>1, <1>2, <1>3, <1>4, <1>5, <1>6, <1>7, <1>8 DEF LimitsNext

\* Type correctness: limits stay within what their columns hold and the operator's form
\* allows, whatever the tuners make of them (autotune.service.ts, queue.service.ts).
THEOREM LimitsTypeCorrect == LimitsSpec => []LimitsTypeOK
  BY LimitsTypeInit, LimitsTypeStep, PTL DEF LimitsSpec

-----------------------------------------------------------------------------

UnderWay == {t \in Tuners : tuner[t].at # "idle"}

\* While the row is tuned nothing has strayed, and every tick under way can stray once.
Handover ==
  /\ row.auto => strays = 0
  /\ strays + Cardinality(UnderWay) <= Cardinality(Tuners)

LEMMA TicksCounted ==
  /\ IsFiniteSet(UnderWay) /\ UnderWay \subseteq Tuners
  /\ Cardinality(UnderWay) \in Nat /\ Cardinality(Tuners) \in Nat
  /\ Cardinality(UnderWay) <= Cardinality(Tuners)
BY LimitsAssumption, FS_Subset, FS_CardinalityType DEF UnderWay

\* Each tick that was under way when the operator took the limits over may still
\* overwrite them, once (autotune.service.ts writes by id what it computed from an older
\* row), and no other: for any limits, tuning, any number of workers and interventions.
THEOREM StraysAreBounded == LimitsSpec => []StraysBounded
<1>1. LimitsInit => Handover
  <2> SUFFICES ASSUME LimitsInit PROVE Handover
    OBVIOUS
  <2>1. UnderWay = {}
    BY DEF LimitsInit, UnderWay, NotTuning
  <2> QED
    BY <2>1, TicksCounted, FS_EmptySet DEF LimitsInit, Handover
<1>2. LimitsTypeOK /\ Handover /\ [LimitsNext]_limitVars => Handover'
  <2> SUFFICES ASSUME LimitsTypeOK, Handover, [LimitsNext]_limitVars
               PROVE  Handover'
    OBVIOUS
  <2>a. strays \in Nat /\ tuner \in [Tuners -> AllTicks]
    BY DEF LimitsTypeOK
  <2>b. IsFiniteSet(UnderWay') /\ Cardinality(UnderWay') \in Nat
        /\ Cardinality(UnderWay') <= Cardinality(Tuners)
    BY LimitsAssumption, FS_Subset, FS_CardinalityType DEF UnderWay
  <2>c. ASSUME strays' = 0 PROVE Handover'
    BY <2>b, <2>c, TicksCounted DEF Handover
  <2>d. ASSUME UnderWay' = UnderWay, UNCHANGED <<row, strays>> PROVE Handover'
    BY <2>d DEF Handover
  <2>1. ASSUME NEW t \in Tuners, TuneRead(t) PROVE Handover'
    BY <2>1, <2>c DEF TuneRead, Tunes, Handover
  <2>2. ASSUME NEW t \in Tuners, TuneMode(t) PROVE Handover'
    <3>1. UnderWay' = UnderWay
      BY <2>a, <2>2 DEF TuneMode, UnderWay
    <3> QED
      BY <2>2, <2>d, <3>1 DEF TuneMode
  <2>3. ASSUME NEW t \in Tuners, TuneWrite(t) PROVE Handover'
    <3>1. t \in UnderWay /\ UnderWay' = UnderWay \ {t}
      BY <2>a, <2>3 DEF TuneWrite, UnderWay, NotTuning
    <3>2. Cardinality(UnderWay') = Cardinality(UnderWay) - 1
      BY <3>1, TicksCounted, FS_RemoveElement
    <3>3. (row.auto => strays' = strays) /\ strays' \in {strays, strays + 1} /\ row'.auto = row.auto
      BY <2>3, TuneWrites DEF LimitsTypeOK
    <3> QED
      BY <2>a, <3>2, <3>3, TicksCounted DEF Handover
  <2>4. CASE SetRateLimit \/ ToggleAutoTune \/ SeedRow
    BY <2>4, <2>c DEF SetRateLimit, ToggleAutoTune, SeedRow
  <2>5. CASE SetMode \/ UNCHANGED limitVars
    BY <2>5, <2>d DEF SetMode, OperatorActs, limitVars, UnderWay
  <2> QED
    BY <2>1, <2>2, <2>3, <2>4, <2>5 DEF LimitsNext
<1>3. LimitsTypeOK /\ Handover => StraysBounded
  BY TicksCounted DEF LimitsTypeOK, Handover, StraysBounded
<1> QED
  BY <1>1, <1>2, <1>3, LimitsTypeCorrect, PTL DEF LimitsSpec

-----------------------------------------------------------------------------

\* The mode is NORMAL and the row tuned; neither what is in force nor what any tick
\* under way has read is above b, and no tick goes by the mode FAST.
TunedBelow(b) ==
  /\ row.auto /\ ~ fast /\ row.limits.rpm <= b
  /\ \A t \in UnderWay : tuner[t].limits.rpm <= b /\ ~ tuner[t].fast

\* No bound that is not below the ceiling is ever passed again, however many ticks
\* write over each other; and each brings what it has read above the ceiling down.
DescendsToCeiling ==
  [][/\ \A b \in Rpms :
          NormalTuning.ceil <= b /\ TunedBelow(b) /\ row'.auto /\ ~ fast' => TunedBelow(b)'
     /\ \A t \in Tuners :
          TuneWrite(t) /\ ~ tuner[t].fast /\ NormalTuning.ceil < tuner[t].limits.rpm
            => row'.limits.rpm < tuner[t].limits.rpm]_limitVars

\* What a tick of the mode NORMAL makes of a rate, whatever traffic it has seen.
LEMMA NextRpmDescends ==
  ASSUME FloorRpm <= NormalTuning.ceil,
         NEW rpm \in Rpms, NEW traffic \in {"idle", "good", "bad"}
  PROVE  LET n == NextRpm(rpm, traffic, NormalTuning)
         IN  /\ rpm <= NormalTuning.ceil => n <= NormalTuning.ceil
             /\ rpm > NormalTuning.ceil => n < rpm
<1>1. PICK c \in Rpms : c = NormalTuning.ceil
  BY LimitsAssumption
<1>2. NormalTuning.increase \in Nat /\ FloorRpm \in Rpms
  BY LimitsAssumption
<1>3. CASE traffic = "bad"
  <2>1. /\ rpm <= c => AtLeast(rpm \div 2, FloorRpm) <= c
        /\ rpm > c => AtLeast(rpm \div 2, FloorRpm) < rpm
    BY <1>1, <1>2, RpmsAre DEF AtLeast
  <2> QED
    BY <1>1, <1>3, <2>1 DEF NextRpm
<1>4. CASE traffic # "bad" /\ rpm > c
  <2>1. AtLeast((rpm * 7) \div 10, c) < rpm
    BY <1>1, <1>4, RpmsAre DEF AtLeast
  <2>2. ~ (rpm <= c)
    BY <1>4, RpmsAre
  <2>3. NextRpm(rpm, traffic, NormalTuning) = AtLeast((rpm * 7) \div 10, c)
    BY <1>1, <1>4, <2>2, Zenon DEF NextRpm
  <2> QED
    BY <1>1, <2>1, <2>2, <2>3
<1>5. CASE traffic # "bad" /\ rpm <= c
  <2>1. AtMost(rpm + NormalTuning.increase, c) <= c
    BY <1>1, <1>2, RpmsAre DEF AtMost
  <2>2. ~ (rpm > c)
    BY <1>5, RpmsAre
  <2>3. CASE traffic = "idle"
    <3>1. NextRpm(rpm, traffic, NormalTuning) = rpm
      BY <1>1, <1>5, <2>2, <2>3 DEF NextRpm
    <3> QED
      BY <1>1, <1>5, <2>2, <3>1
  <2>4. CASE traffic = "good"
    <3>1. NextRpm(rpm, traffic, NormalTuning) = AtMost(rpm + NormalTuning.increase, c)
      BY <1>1, <1>5, <2>2, <2>4, Zenon DEF NextRpm
    <3> QED
      BY <1>1, <2>1, <2>2, <3>1
  <2> QED
    BY <1>5, <2>3, <2>4
<1>6. rpm > c \/ rpm <= c
  BY RpmsAre
<1> QED
  BY <1>3, <1>4, <1>5, <1>6

\* A tick of the mode NORMAL and what it leaves in force.
LEMMA TickDescends ==
  ASSUME FloorRpm <= NormalTuning.ceil, LimitsTypeOK,
         NEW t \in Tuners, TuneWrite(t), ~ tuner[t].fast
  PROVE  \/ row' = row /\ tuner[t].limits.rpm <= NormalTuning.ceil
         \/ /\ row'.auto = row.auto /\ row'.limits.rpm \in Rpms
            /\ tuner[t].limits.rpm <= NormalTuning.ceil => row'.limits.rpm <= NormalTuning.ceil
            /\ tuner[t].limits.rpm > NormalTuning.ceil => row'.limits.rpm < tuner[t].limits.rpm
<1>1. Tuning(tuner[t].fast) = NormalTuning
  BY DEF Tuning
<1>2. PICK traffic \in {"idle", "good", "bad"}, n \in Rpms :
        /\ n = NextRpm(tuner[t].limits.rpm, traffic, NormalTuning)
        /\ tuner[t].limits.rpm \in Rpms
        /\ \/ row' = row /\ n = tuner[t].limits.rpm
           \/ row' = [row EXCEPT !.limits = Derived(n)]
  BY <1>1, TuneWrites
<1>3. /\ tuner[t].limits.rpm <= NormalTuning.ceil => n <= NormalTuning.ceil
      /\ tuner[t].limits.rpm > NormalTuning.ceil => n < tuner[t].limits.rpm
  BY <1>2, NextRpmDescends
<1>4. NormalTuning.ceil \in Rpms
  BY LimitsAssumption
<1>5. CASE row' = row /\ n = tuner[t].limits.rpm
  <2>1. tuner[t].limits.rpm <= NormalTuning.ceil
    BY <1>2, <1>3, <1>4, <1>5, RpmsAre
  <2> QED
    BY <1>5, <2>1
<1>6. CASE row' = [row EXCEPT !.limits = Derived(n)]
  <2>1. row'.limits.rpm = n /\ row'.auto = row.auto
    BY <1>6 DEF LimitsTypeOK, Derived
  <2> QED
    BY <1>2, <1>3, <2>1
<1> QED
  BY <1>2, <1>5, <1>6

\* No step passes a bound that holds already, while the row stays tuned and the mode NORMAL.
LEMMA BoundKept ==
  ASSUME FloorRpm <= NormalTuning.ceil, LimitsTypeOK, [LimitsNext]_limitVars,
         NEW b \in Rpms, NormalTuning.ceil <= b, TunedBelow(b), row'.auto, ~ fast'
  PROVE  TunedBelow(b)'
<1>a. tuner \in [Tuners -> AllTicks] /\ row.exists /\ row.limits.rpm \in Rpms
      /\ NormalTuning.ceil \in Rpms
  BY LimitsAssumption DEF LimitsTypeOK, TunedBelow, AllLimits
<1>b. ASSUME row'.limits.rpm <= b,
             \A u \in UnderWay' : tuner'[u].limits.rpm <= b /\ ~ tuner'[u].fast
      PROVE  TunedBelow(b)'
  BY <1>b DEF TunedBelow
<1>c. ASSUME row'.limits = row.limits, tuner' = tuner PROVE TunedBelow(b)'
  BY <1>b, <1>c DEF TunedBelow, UnderWay
<1>1. ASSUME NEW t \in Tuners, TuneRead(t) PROVE TunedBelow(b)'
  <2>1. tuner'[t].limits = row.limits /\ ~ tuner'[t].fast
        /\ \A u \in Tuners \ {t} : tuner'[u] = tuner[u]
    BY <1>a, <1>1 DEF TuneRead
  <2>2. \A u \in UnderWay' : tuner'[u].limits.rpm <= b /\ ~ tuner'[u].fast
    BY <2>1 DEF TunedBelow, UnderWay
  <2> QED
    BY <1>1, <1>b, <2>2 DEF TuneRead, TunedBelow
<1>2. ASSUME NEW t \in Tuners, TuneMode(t) PROVE TunedBelow(b)'
  <2>1. PICK quick \in {fast, FALSE} :
          tuner' = [tuner EXCEPT ![t] = [@ EXCEPT !.at = "write", !.fast = quick]]
    BY <1>2 DEF TuneMode
  <2>2. ~ quick
    BY DEF TunedBelow
  <2>3. t \in UnderWay
    BY <1>2 DEF TuneMode, UnderWay
  <2>4. \A u \in Tuners \ {t} : tuner'[u] = tuner[u]
    BY <1>a, <2>1
  <2>5. tuner'[t].limits = tuner[t].limits /\ tuner'[t].fast = quick
    BY <1>a, <2>1 DEF AllTicks
  <2>6. \A u \in UnderWay' : tuner'[u].limits.rpm <= b /\ ~ tuner'[u].fast
    BY <2>2, <2>3, <2>4, <2>5 DEF TunedBelow, UnderWay
  <2> QED
    BY <1>2, <1>b, <2>6 DEF TuneMode, TunedBelow
<1>3. ASSUME NEW t \in Tuners, TuneWrite(t) PROVE TunedBelow(b)'
  <2>1. t \in UnderWay
    BY <1>3 DEF TuneWrite, UnderWay
  <2>2. ~ tuner[t].fast /\ tuner[t].limits.rpm <= b /\ tuner[t].limits.rpm \in Rpms
    BY <1>a, <2>1 DEF TunedBelow, AllTicks, AllLimits
  <2>3. row'.limits.rpm <= b
    BY <1>3, <1>a, <2>2, TickDescends, RpmsAre DEF TunedBelow
  <2>4. \A u \in Tuners \ {t} : tuner'[u] = tuner[u]
    BY <1>a, <1>3 DEF TuneWrite
  <2>5. t \notin UnderWay'
    BY <1>a, <1>3 DEF TuneWrite, UnderWay, NotTuning
  <2>6. \A u \in UnderWay' : tuner'[u].limits.rpm <= b /\ ~ tuner'[u].fast
    BY <2>4, <2>5 DEF TunedBelow, UnderWay
  <2> QED
    BY <1>b, <2>3, <2>6
<1>4. CASE SetRateLimit
  BY <1>4 DEF SetRateLimit, Row
<1>5. CASE ToggleAutoTune
  BY <1>5, <1>a, <1>c DEF ToggleAutoTune, OperatorActs, LimitsTypeOK
<1>6. CASE SetMode
  BY <1>6, <1>c DEF SetMode, OperatorActs
<1>7. CASE SeedRow
  BY <1>7, <1>a, <1>c DEF SeedRow, LimitsTypeOK
<1>8. CASE UNCHANGED limitVars
  BY <1>8, <1>c DEF limitVars
<1> QED
  BY <1>1, <1>2, <1>3, <1>4, <1>5, <1>6, <1>7, <1>8 DEF LimitsNext

\* In the mode NORMAL the highest rate that is in force or under way in some tick comes
\* down to the ceiling and never up again, whatever traffic the ticks of any number of
\* workers see and however they write over each other, for any ceiling that is not below
\* the floor: the safety half of EasesToCeiling.
THEOREM RatesDescend ==
  FloorRpm <= NormalTuning.ceil => (LimitsSpec => DescendsToCeiling)
<1> SUFFICES ASSUME FloorRpm <= NormalTuning.ceil PROVE LimitsSpec => DescendsToCeiling
  OBVIOUS
<1>1. ASSUME LimitsTypeOK, NEW t \in Tuners, TuneWrite(t), ~ tuner[t].fast,
             NormalTuning.ceil < tuner[t].limits.rpm
      PROVE  row'.limits.rpm < tuner[t].limits.rpm
  <2>1. NormalTuning.ceil \in Rpms /\ tuner[t].limits.rpm \in Rpms
    BY <1>1, LimitsAssumption DEF LimitsTypeOK, AllTicks, AllLimits
  <2> QED
    BY <1>1, <2>1, TickDescends, RpmsAre
<1>2. LimitsTypeOK /\ [LimitsNext]_limitVars
        => [/\ \A b \in Rpms : NormalTuning.ceil <= b /\ TunedBelow(b) /\ row'.auto /\ ~ fast'
                                 => TunedBelow(b)'
            /\ \A t \in Tuners : TuneWrite(t) /\ ~ tuner[t].fast
                                   /\ NormalTuning.ceil < tuner[t].limits.rpm
                                   => row'.limits.rpm < tuner[t].limits.rpm]_limitVars
  BY <1>1, BoundKept
<1> QED
  BY <1>2, LimitsTypeCorrect, PTL DEF LimitsSpec, DescendsToCeiling
=============================================================================

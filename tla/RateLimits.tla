----------------------------- MODULE RateLimits -----------------------------
(***************************************************************************)
(* Who sets the limits of a workspace: the tuners (autotune.service.ts),   *)
(* one in every worker process and none aware of the others, the mode      *)
(* switch (queue.service.ts, setFastMode), and the operator                *)
(* (sync-admin.routes.ts).  One workspace; the row may be missing.         *)
(* Workers go by a copy of what is in force, up to 15 s old.               *)
(***************************************************************************)
EXTENDS Integers, FiniteSets

CONSTANTS
  Tuners,         \* worker processes: the orchestrator of each has a tuner
  FloorRpm, NormalTuning, FastTuning, \* FLOOR_RPM and MODE_TUNING: ceil, increase
  OperatorRpms,   \* limits the operator may enter
  MaxOperatorActs \* bound on what the operator does

\* What the columns of a row may hold.
Rpms   == 1 .. 6000
Rpss   == 1 .. 200
Concs  == 1 .. 64
Delays == {n \in Nat : 5 <= n /\ n <= 60000}

\* The form of the operator takes 1 to 6000 (rateSchema).
ASSUME LimitsAssumption ==
  /\ IsFiniteSet(Tuners)
  /\ FloorRpm \in Rpms /\ OperatorRpms \subseteq Rpms /\ MaxOperatorActs \in Nat
  /\ {NormalTuning, FastTuning} \subseteq [ceil : Rpms, increase : Nat]

VARIABLES
  row,       \* the WorkspaceRateLimit row
  fast,      \* the stored mode
  switching, \* setFastMode has stored the mode and not yet the row
  tuner,     \* [Tuners -> tick]: how far it is, and what it read
  acts,      \* how often the operator has acted
  strays     \* tuner writes since the operator took over, if he has

limitVars == <<row, fast, switching, tuner, acts, strays>>

AtLeast(n, low) == IF n < low THEN low ELSE n
AtMost(n, high) == IF n > high THEN high ELSE n
UpDiv(a, b)     == (a + b - 1) \div b

Tuning(quick) == IF quick THEN FastTuning ELSE NormalTuning

-----------------------------------------------------------------------------
(* Limits: calls per minute, calls per second, concurrency and spacing.     *)

Spacing(rpm) == AtLeast(60000 \div rpm, 5)

\* The companions the tuner derives, so that rpm is what binds.
Derived(rpm) ==
  [ rpm  |-> rpm,
    rps  |-> AtLeast(UpDiv(rpm, 30), 1),
    conc |-> AtLeast(AtMost(UpDiv(rpm, 60), 48), 3),
    delay |-> Spacing(rpm) ]

\* The seed of setFastMode, and of a row the autotune switch creates.
ModeSeed(on) ==
  LET rpm == IF on THEN 600 ELSE 200
  IN  [ rpm |-> rpm, rps |-> UpDiv(rpm, 30), conc |-> AtLeast(UpDiv(rpm, 60), 6),
        delay |-> Spacing(rpm) ]

TuneSeed == [rpm |-> 120, rps |-> 4, conc |-> 3, delay |-> 200]

\* The profile a worker goes by when there is no row.
Profile(on) == IF on THEN [rpm |-> 2400, rps |-> 40, conc |-> 40, delay |-> 10]
                     ELSE [rpm |-> 300, rps |-> 8, conc |-> 10, delay |-> 50]

\* The operator enters rpm, rps (here the least he may) and concurrency; the
\* spacing is derived.
Manual(rpm) == [rpm |-> rpm, rps |-> 1, conc |-> 1, delay |-> Spacing(rpm)]

NoRow == [exists |-> FALSE, auto |-> FALSE, limits |-> Profile(FALSE)]

Row(auto, limits) == [exists |-> TRUE, auto |-> auto, limits |-> limits]

\* Mutant: idle workspaces are left alone before the ceiling is looked at.
NextRpmIdleFirst(rpm, traffic, tuning) ==
  CASE traffic = "bad"  -> AtLeast(rpm \div 2, FloorRpm)
    [] traffic = "idle" -> rpm
    [] traffic = "good" /\ rpm > tuning.ceil  -> AtLeast((rpm * 7) \div 10, tuning.ceil)
    [] traffic = "good" /\ rpm <= tuning.ceil -> AtMost(rpm + tuning.increase, tuning.ceil)

\* Additive increase, multiplicative decrease.
NextRpm(rpm, traffic, tuning) ==
  CASE traffic = "bad" -> AtLeast(rpm \div 2, FloorRpm)
    [] traffic # "bad" /\ rpm > tuning.ceil -> AtLeast((rpm * 7) \div 10, tuning.ceil)
    [] traffic = "idle" /\ rpm <= tuning.ceil -> rpm
    [] traffic = "good" /\ rpm <= tuning.ceil -> AtMost(rpm + tuning.increase, tuning.ceil)

-----------------------------------------------------------------------------

NotTuning == [at |-> "idle", fast |-> FALSE, limits |-> Profile(FALSE)]

AllLimits == [rpm : Rpms, rps : Rpss, conc : Concs, delay : Delays]
AllTicks  == [at : {"idle", "mode", "write"}, fast : BOOLEAN, limits : AllLimits]

LimitsTypeOK ==
  /\ row \in [exists : BOOLEAN, auto : BOOLEAN, limits : AllLimits]
  /\ row.auto => row.exists
  /\ fast \in BOOLEAN /\ switching \in BOOLEAN
  /\ tuner \in [Tuners -> AllTicks]
  /\ acts \in 0 .. MaxOperatorActs /\ strays \in Nat

LimitsInit ==
  /\ row = NoRow /\ fast = FALSE /\ switching = FALSE
  /\ tuner = [t \in Tuners |-> NotTuning]
  /\ acts = 0 /\ strays = 0

\* Mutant: rows the operator has taken over are tuned as well.
TunesAny == row.exists

Tunes == row.exists /\ row.auto

\* autoTuneRateLimits reads the rows to tune...
TuneRead(t) ==
  /\ tuner[t].at = "idle" /\ Tunes
  /\ tuner' = [tuner EXCEPT ![t] = [at |-> "mode", fast |-> FALSE, limits |-> row.limits]]
  /\ UNCHANGED <<row, fast, switching, acts, strays>>

\* ... and then the mode; when that fails the mode is taken for NORMAL.
TuneMode(t) ==
  /\ tuner[t].at = "mode"
  /\ \E quick \in {fast, FALSE} :
       tuner' = [tuner EXCEPT ![t] = [@ EXCEPT !.at = "write", !.fast = quick]]
  /\ UNCHANGED <<row, fast, switching, acts, strays>>

Unchanged(limits, next) == limits = next

\* It looks at the traffic of the rolling window and writes, by workspace id, what it
\* computed from the row as it was.
TuneWrite(t) ==
  LET read == tuner[t].limits
  IN  /\ tuner[t].at = "write"
      /\ \E traffic \in {"idle", "good", "bad"} :
           LET next == Derived(NextRpm(read.rpm, traffic, Tuning(tuner[t].fast)))
           IN  IF Unchanged(read, next) THEN UNCHANGED <<row, strays>>
               ELSE /\ row' = [row EXCEPT !.limits = next]
                    /\ strays' = IF row.auto THEN strays ELSE strays + 1
      /\ tuner' = [tuner EXCEPT ![t] = NotTuning]
      /\ UNCHANGED <<fast, switching, acts>>

OperatorActs ==
  /\ acts < MaxOperatorActs /\ acts' = acts + 1
  /\ UNCHANGED <<tuner>>

\* A manual edit turns the tuner off.
SetRateLimit ==
  /\ OperatorActs
  /\ \E rpm \in OperatorRpms : row' = Row(FALSE, Manual(rpm))
  /\ strays' = 0
  /\ UNCHANGED <<fast, switching>>

ToggleAutoTune ==
  /\ OperatorActs
  /\ \E on \in BOOLEAN : row' = IF row.exists THEN [row EXCEPT !.auto = on]
                                ELSE Row(on, TuneSeed)
  /\ strays' = 0
  /\ UNCHANGED <<fast, switching>>

\* setFastMode stores the mode, and in a second statement hands the row to the tuner.
SetMode ==
  /\ OperatorActs /\ ~ switching
  /\ \E on \in BOOLEAN : fast' = on
  /\ switching' = TRUE
  /\ UNCHANGED <<row, strays>>

SeedRow ==
  /\ switching
  /\ row' = IF row.exists THEN [row EXCEPT !.auto = TRUE] ELSE Row(TRUE, ModeSeed(fast))
  /\ switching' = FALSE /\ strays' = 0
  /\ UNCHANGED <<fast, tuner, acts>>

LimitsNext ==
  \/ \E t \in Tuners : TuneRead(t) \/ TuneMode(t) \/ TuneWrite(t)
  \/ SetRateLimit \/ ToggleAutoTune \/ SetMode \/ SeedRow

LimitsSpec == LimitsInit /\ [][LimitsNext]_limitVars

\* Tuners run on a timer, a tick or request that has begun ends.
LimitsFairness ==
  /\ \A t \in Tuners : WF_limitVars(TuneRead(t) \/ TuneMode(t) \/ TuneWrite(t))
  /\ WF_limitVars(SeedRow)

-----------------------------------------------------------------------------

\* What a worker reads: the row, else the profile of the mode.
InForce == IF row.exists THEN row.limits ELSE Profile(fast)

\* Ticks that were under way when the operator took over may still overwrite his
\* limits, each once, so one for every worker: afterwards they are his.  (The row then
\* keeps a tuner's value: see "What the code does not keep to".)
StraysBounded == strays <= Cardinality(Tuners)

\* Once the mode is NORMAL for good and the tuner on, workers go by at most
\* that mode's ceiling, also when no calls are made that could prove it healthy and
\* whichever ticks write over each other.
EasesToCeiling ==
  <>[](row.auto /\ ~ fast) => <>[](InForce.rpm <= NormalTuning.ceil)
=============================================================================

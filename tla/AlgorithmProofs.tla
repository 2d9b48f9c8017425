--------------------------- MODULE AlgorithmProofs ---------------------------
(***************************************************************************)
(* What the program computes, for any inputs.                              *)
(*                                                                         *)
(* ExamTime: measuring the offset twice is enough for a reading that the   *)
(* zone does show, whatever the offsets (ConversionsRoundTrip).  From an   *)
(* hour of twelve a sitting is found again by its window, where clocks     *)
(* move by at most an hour, the display clock stands, and no hour that is  *)
(* shown twice straddles the edge of a window (SittingsAreRecovered; the   *)
(* instance of run services is of this kind).                              *)
(*                                                                         *)
(* Dashboard: however many rows there are and whatever the request, the    *)
(* tiles of an answer agree (DashboardTilesAgree).                         *)
(*                                                                         *)
(* SyncWindow and the filter of hours: both go round midnight, one without *)
(* its last hour (DailyWindow), the other with it (HoursFiltered).         *)
(***************************************************************************)
EXTENDS ExamTime, Dashboard, SyncWindow, FiniteSetTheorems, TLAPS

-----------------------------------------------------------------------------
(* ExamTime.                                                                *)

Zones == [before : Int, after : Int, change : Int]

\* What the zone shows of the instant found is what was read.
LEMMA MeasuringTwice ==
  ASSUME NEW zone \in Zones, NEW start \in Int
  PROVE  LET wall == WallIn(start, zone)
         IN  WallIn(ZonedWallTimeToUtc(wall, zone), zone) = wall
  BY DEF Zones, WallIn, ZonedWallTimeToUtc, Offset

\* A clock of twenty-four hours tells the wall clock.
LEMMA FullReading ==
  ASSUME NEW s, s.form = "full", WallIn(s.start, s.source) \in Int
  PROVE  Reading(Shown(s), Shown(s).hour) = WallIn(s.start, s.source)
<1>1. ASSUME NEW w \in Int
      PROVE  w = w - (w % 1440) + 60 * ((w % 1440) \div 60) + (w % 60)
  OBVIOUS
<1> QED
  BY <1>1 DEF Shown, Reading, Day

\* A choice between the halves of the day is never called a conversion.
LEMMA ChoiceIsNoConversion ==
  ASSUME NEW s, NEW raw
  PROVE  Choose(Candidates(s, raw)).resolution # "CONVERTED"
<1> DEFINE C == Candidates(s, raw)
           inside == {c \in C : c.inside}
<1>1. \A c \in C : c.resolution \in {"RESOLVED_AM", "RESOLVED_PM"}
  BY DEF Candidates
<1>2. CASE Cardinality(inside) = 1
  <2>1. inside # {}
    BY <1>2, FS_EmptySet
  <2>2. (CHOOSE c \in inside : TRUE) \in C
    BY <2>1
  <2>3. Choose(C) = Found((CHOOSE c \in inside : TRUE).instant,
                          (CHOOSE c \in inside : TRUE).resolution)
    <3> HIDE DEF C
    <3> QED
      BY <1>2, <2>1 DEF Choose
  <2> QED
    BY <1>1, <2>2, <2>3 DEF Found
<1>3. CASE Cardinality(inside) # 1
  BY <1>3 DEF Choose, Found, Lost
<1> QED
  BY <1>2, <1>3

\* The answer is the one of the algorithm.
Answered == resolved = Unread \/ resolved = ResolveExamTime(sitting)

\* A reading on a clock of twenty-four hours becomes an instant at which the source zone
\* does show it (exam-time.ts, zonedWallTimeToUtc), for any sitting, window and zones,
\* before, after and across a change of offset of any size.
THEOREM ConversionsRoundTrip == TimeSpec => []ConversionRoundTrips
<1> DEFINE Inv == sitting \in Sittings /\ Answered
<1>1. TimeInit => Inv
  BY DEF TimeInit, Answered
<1>2. Inv /\ [TimeNext]_timeVars => Inv'
  BY DEF TimeNext, Resolve, timeVars, Answered
<1>3. Inv => ConversionRoundTrips
  <2> SUFFICES ASSUME Inv, resolved.resolution = "CONVERTED", sitting.form = "full",
                      NEW t \in resolved.utc
               PROVE  WallIn(t, sitting.source) = WallIn(sitting.start, sitting.source)
    BY DEF ConversionRoundTrips
  <2> DEFINE raw == Shown(sitting)
             wall == WallIn(sitting.start, sitting.source)
  <2>1. sitting.start \in Int /\ sitting.source \in Zones
    <3>1. sitting.start \in Starts /\ sitting.source \in SourceZones
      BY DEF Sittings
    <3>2. Starts \subseteq Int /\ SourceZones \subseteq Zones
      BY ExamTimeAssumption DEF Zones
    <3> QED
      BY <3>1, <3>2
  <2>2. wall \in Int
    BY <2>1 DEF WallIn, Offset, Zones
  <2>3. resolved = ResolveExamTime(sitting)
    BY DEF Answered, Unread
  <2>4. raw.form = "full"
    BY DEF Shown
  <2>5. TakenAsSent(sitting, raw)
    <3>1. CASE ~ TakenAsSent(sitting, raw)
      <4>1. resolved = Choose(Candidates(sitting, raw))
        BY <2>3, <2>4, <3>1 DEF ResolveExamTime
      <4> QED
        BY <4>1, ChoiceIsNoConversion
    <3> QED
      BY <3>1
  <2>6. resolved = Found(ZonedWallTimeToUtc(Reading(raw, raw.hour), sitting.source), "CONVERTED")
    BY <2>3, <2>4, <2>5 DEF ResolveExamTime
  <2>7. Reading(raw, raw.hour) = wall
    BY <2>2, FullReading
  <2>8. t = ZonedWallTimeToUtc(wall, sitting.source)
    BY <2>6, <2>7 DEF Found
  <2> QED
    BY <2>1, <2>8, MeasuringTwice
<1> QED
  BY <1>1, <1>2, <1>3, PTL DEF TimeSpec

-----------------------------------------------------------------------------
(* The other half of the day.                                               *)

\* The source clock moves by at most an hour, the display clock not at all (Dubai).
ShiftsByAnHour  == \A z \in SourceZones : z.after - z.before \in Int /\ z.after - z.before <= 60
                                          /\ z.before - z.after <= 60
StandingDisplay == \A z \in DisplayZones : z.before = z.after

Inside(s, t) == WallIn(t, s.display) % Day \in s.window.open .. s.window.close

\* The instants at which the source clock may show the minute a sitting began.
Twins(s) == {WallIn(s.start, s.source) - s.source.before, WallIn(s.start, s.source) - s.source.after}

\* An hour that the source clock shows twice does not lie across the edge of a window.
RepeatsStayInside ==
  \A s \in Sittings : Inside(s, s.start) =>
    \A t \in Twins(s) : WallIn(t, s.source) = WallIn(s.start, s.source) => Inside(s, t)

\* The hour of twelve that a clock at w shows, and the time of day it may mean.
HourShown(w) == LET full == (w % 1440) \div 60
                IN  IF full % 12 = 0 THEN 12 ELSE full % 12

ReadAs(w, half) == (w - (w % 1440)) + 60 * ((HourShown(w) % 12) + 12 * half) + (w % 60)

\* Of the two readings of an hour of twelve one is the wall clock, and the other half
\* a day away.
LEMMA TwoReadings ==
  ASSUME NEW w \in Int
  PROVE  /\ HourShown(w) \in Int /\ HourShown(w) # 0 /\ HourShown(w) <= 12
         /\ \E half \in {0, 1} : ReadAs(w, half) = w /\ ReadAs(w, 1 - half) \in {w - 720, w + 720}
<1> DEFINE full  == (w % 1440) \div 60
           face == HourShown(w)
<1>0. face = IF full % 12 = 0 THEN 12 ELSE full % 12
  BY DEF HourShown
<1> HIDE DEF face
<1>1. PICK d \in Int, m \in Int : w = 1440 * d + m /\ 0 <= m /\ m < 1440 /\ w % 1440 = m
  BY SMT
<1>2. /\ full \in Int /\ 0 <= full /\ full < 24
      /\ 60 * full <= m /\ m < 60 * full + 60
  BY <1>1
<1>3. w % 60 = m - 60 * full
  BY <1>1, <1>2
<1>4. /\ face \in Int /\ face # 0 /\ face <= 12
      /\ face % 12 = IF full < 12 THEN full ELSE full - 12
  BY <1>0, <1>2
<1>5. CASE full < 12
  <2>1. /\ (w - (w % 1440)) + 60 * ((face % 12) + 12 * 0) + (w % 60) = w
        /\ (w - (w % 1440)) + 60 * ((face % 12) + 12 * (1 - 0)) + (w % 60) = w + 720
    BY <1>1, <1>2, <1>3, <1>4, <1>5
  <2>2. ReadAs(w, 0) = w /\ ReadAs(w, 1 - 0) = w + 720
    BY <2>1 DEF ReadAs, face
  <2> QED
    BY <2>2, <1>4 DEF face
<1>6. CASE ~ (full < 12)
  <2>1. /\ (w - (w % 1440)) + 60 * ((face % 12) + 12 * 1) + (w % 60) = w
        /\ (w - (w % 1440)) + 60 * ((face % 12) + 12 * (1 - 1)) + (w % 60) = w - 720
    <3>1. face % 12 = full - 12
      BY <1>4, <1>6
    <3> HIDE DEF full
    <3> QED
      BY <1>1, <1>2, <1>3, <3>1
  <2>2. ReadAs(w, 1) = w /\ ReadAs(w, 1 - 1) = w - 720
    BY <2>1 DEF ReadAs, face
  <2> QED
    BY <2>2, <1>4 DEF face
<1> QED
  BY <1>5, <1>6

\* Two minutes of the day that are between eleven and thirteen hours apart are not
\* both in a window of less than eleven.
LEMMA FarApart ==
  ASSUME NEW a \in Int, NEW b \in Int, NEW open \in Int, NEW close \in Int,
         close - open < 660,
         \/ b - a >= 660 /\ b - a <= 780
         \/ a - b >= 660 /\ a - b <= 780,
         a % 1440 \in open .. close
  PROVE  b % 1440 \notin open .. close
<1>1. PICK d \in Int, m \in Int : a = 1440 * d + m /\ 0 <= m /\ m < 1440 /\ a % 1440 = m
  BY SMT
<1>2. PICK e \in Int, n \in Int : b = 1440 * e + n /\ 0 <= n /\ n < 1440 /\ b % 1440 = n
  BY SMT
<1>3. n - m >= 660 \/ m - n >= 660
  BY <1>1, <1>2
<1> QED
  BY <1>1, <1>2, <1>3

\* The instant computed for a reading is off by one of the two offsets.
LEMMA OneOfTheOffsets ==
  ASSUME NEW zone \in Zones, NEW wall \in Int
  PROVE  /\ ZonedWallTimeToUtc(wall, zone) \in {wall - zone.before, wall - zone.after}
         /\ ZonedWallTimeToUtc(wall, zone) \in Int
  BY DEF Zones, ZonedWallTimeToUtc, Offset

\* What the algorithm makes of one half of the day.
CandidateOf(s, raw, half) ==
  LET instant == ZonedWallTimeToUtc(Reading(raw, CandidateHour(raw, half)), s.source)
      mins    == WallIn(instant, s.display) % Day
      inside  == mins \in s.window.open .. s.window.close
  IN  [ instant    |-> instant,
        resolution |-> IF half = 0 THEN "RESOLVED_AM" ELSE "RESOLVED_PM",
        inside     |-> inside,
        lateBy     |-> IF inside THEN 0 ELSE Circular(s.window.close, mins),
        earlyBy    |-> IF inside THEN 0 ELSE Circular(mins, s.window.open) ]

LEMMA CandidatesAre ==
  ASSUME NEW s, NEW raw, NEW half \in {0, 1}
  PROVE  /\ Candidates(s, raw) = {CandidateOf(s, raw, half), CandidateOf(s, raw, 1 - half)}
         /\ \A h \in {0, 1} :
              /\ CandidateOf(s, raw, h).instant
                   = ZonedWallTimeToUtc(Reading(raw, CandidateHour(raw, h)), s.source)
              /\ CandidateOf(s, raw, h).inside <=> Inside(s, CandidateOf(s, raw, h).instant)
<1>1. Candidates(s, raw) = {CandidateOf(s, raw, h) : h \in {0, 1}}
  BY DEF Candidates, CandidateOf
<1>2. {0, 1} = {half, 1 - half}
  BY SMT
<1>3. \A h \in {0, 1} :
        /\ CandidateOf(s, raw, h).instant
             = ZonedWallTimeToUtc(Reading(raw, CandidateHour(raw, h)), s.source)
        /\ CandidateOf(s, raw, h).inside <=> Inside(s, CandidateOf(s, raw, h).instant)
  BY DEF CandidateOf, Inside
<1> QED
  BY <1>1, <1>2, <1>3

\* A single candidate inside the window is chosen.
LEMMA OnlyInside ==
  ASSUME NEW candidates, NEW c \in candidates, {x \in candidates : x.inside} = {c}
  PROVE  Choose(candidates) = Found(c.instant, c.resolution)
<1>1. Cardinality({c}) = 1
  BY FS_Singleton
<1>2. (CHOOSE x \in {c} : TRUE) = c
  OBVIOUS
<1> QED
  BY <1>1, <1>2 DEF Choose

\* The numbers of a sitting.
LEMMA SittingIs ==
  ASSUME NEW s \in Sittings
  PROVE  /\ s.start \in Int /\ s.source \in Zones /\ s.display \in Zones
         /\ s.source \in SourceZones /\ s.display \in DisplayZones
         /\ s.window.open \in Int /\ s.window.close \in Int
         /\ WallIn(s.start, s.source) \in Int
<1>1. /\ s.start \in Starts /\ s.source \in SourceZones /\ s.display \in DisplayZones
      /\ s.window \in Windows
  BY DEF Sittings
<1>2. /\ s.start \in Int /\ s.source \in Zones /\ s.display \in Zones
  <2>1. s.source \in SourceZones \cup DisplayZones /\ s.display \in SourceZones \cup DisplayZones
    BY <1>1
  <2>2. SourceZones \cup DisplayZones \subseteq Zones /\ Starts \subseteq Int
    BY ExamTimeAssumption DEF Zones
  <2> QED
    BY <1>1, <2>1, <2>2
<1>3. s.window \in [open : 0 .. 1439, close : 0 .. 1439]
  BY <1>1, ExamTimeAssumption
<1>4. WallIn(s.start, s.source) \in Int
  BY <1>2 DEF WallIn, Offset, Zones
<1>5. s.window.open \in Int /\ s.window.close \in Int
  <2> DEFINE minutes == 0 .. 1439
  <2>1. s.window \in [open : minutes, close : minutes]
    BY <1>3
  <2>2. \A n \in minutes : n \in Int
    OBVIOUS
  <2> HIDE DEF minutes
  <2>3. s.window.open \in minutes /\ s.window.close \in minutes
    BY <2>1
  <2> QED
    BY <2>2, <2>3
<1> QED
  BY <1>1, <1>2, <1>4, <1>5

\* A sitting inside the window: the reading of its own half of the day falls inside,
\* the other one does not.
LEMMA Recovered ==
  ASSUME ShiftsByAnHour, StandingDisplay, RepeatsStayInside,
         NEW s \in Sittings, s.form = "half", s.windowed,
         Inside(s, s.start), s.window.close - s.window.open < 660
  PROVE  \E t \in Twins(s) :
           /\ ResolveExamTime(s).utc = {t}
           /\ Inside(s, t)
           /\ WallIn(t, s.source) = WallIn(s.start, s.source)
<1> DEFINE w   == WallIn(s.start, s.source)
           raw == Shown(s)
           t   == ZonedWallTimeToUtc(w, s.source)
<1>1. /\ w \in Int /\ s.start \in Int /\ s.source \in Zones /\ s.display \in Zones
      /\ s.source \in SourceZones /\ s.display \in DisplayZones
      /\ s.window.open \in Int /\ s.window.close \in Int
  BY SittingIs
<1>2. /\ raw.form = "half" /\ raw.date = w - (w % 1440) /\ raw.minute = w % 60
      /\ raw.hour = HourShown(w)
  BY DEF Shown, Day, HourShown
<1> HIDE DEF w, raw
<1>3. raw.hour \in Int /\ raw.hour # 0 /\ raw.hour <= 12
  BY <1>1, <1>2, TwoReadings
<1>4. PICK half \in {0, 1} :
        /\ Reading(raw, CandidateHour(raw, half)) = w
        /\ Reading(raw, CandidateHour(raw, 1 - half)) \in {w - 720, w + 720}
  <2>1. \A h : Reading(raw, CandidateHour(raw, h)) = ReadAs(w, h)
    BY <1>2 DEF Reading, CandidateHour, ReadAs
  <2> QED
    BY <1>1, <2>1, TwoReadings
<1> DEFINE v == Reading(raw, CandidateHour(raw, 1 - half))
           u == ZonedWallTimeToUtc(v, s.source)
<1>5. /\ t \in {w - s.source.before, w - s.source.after} /\ t \in Int
      /\ u \in {v - s.source.before, v - s.source.after} /\ u \in Int
      /\ v \in {w - 720, w + 720} /\ v \in Int
  <2>1. v \in {w - 720, w + 720} /\ v \in Int
    BY <1>1, <1>4
  <2> HIDE DEF v
  <2> QED
    BY <2>1, <1>1, OneOfTheOffsets
<1>6. WallIn(t, s.source) = w
  BY <1>1, MeasuringTwice DEF w
<1> HIDE DEF t, u
<1>7. t \in Twins(s) /\ Inside(s, t)
  BY <1>5, <1>6 DEF Twins, w, RepeatsStayInside
<1>8. ~ Inside(s, u)
  <2>1. /\ s.source.before \in Int /\ s.source.after \in Int
        /\ s.source.after - s.source.before <= 60 /\ s.source.before - s.source.after <= 60
    BY <1>1 DEF Zones, ShiftsByAnHour
  <2>2. \/ u - t >= 660 /\ u - t <= 780
        \/ t - u >= 660 /\ t - u <= 780
    BY <1>1, <1>5, <2>1
  <2>3. PICK d \in Int : /\ WallIn(t, s.display) = t + d /\ WallIn(u, s.display) = u + d
    <3>1. s.display.before \in Int /\ s.display.before = s.display.after
      BY <1>1 DEF Zones, StandingDisplay
    <3> QED
      BY <3>1 DEF WallIn, Offset
  <2>4. (t + d) % 1440 \in s.window.open .. s.window.close
    BY <1>7, <2>3 DEF Inside, Day
  <2>5. /\ t + d \in Int /\ u + d \in Int
        /\ \/ (u + d) - (t + d) >= 660 /\ (u + d) - (t + d) <= 780
           \/ (t + d) - (u + d) >= 660 /\ (t + d) - (u + d) <= 780
    BY <1>5, <2>2
  <2>6. (u + d) % 1440 \notin s.window.open .. s.window.close
    BY <1>1, <2>4, <2>5, FarApart
  <2> QED
    BY <2>3, <2>6 DEF Inside, Day
<1> DEFINE C == Candidates(s, raw)
           c == CandidateOf(s, raw, half)
           o == CandidateOf(s, raw, 1 - half)
<1>9. /\ C = {c, o} /\ c.instant = t /\ o.instant = u
      /\ c.inside <=> Inside(s, t)
      /\ o.inside <=> Inside(s, u)
  <2>1. 1 - half \in {0, 1}
    BY SMT
  <2> QED
    BY <2>1, <1>4, CandidatesAre DEF t, u
<1> HIDE DEF C, c, o
<1>10. c \in C /\ {x \in C : x.inside} = {c}
  BY <1>7, <1>8, <1>9
<1>11. ResolveExamTime(s) = Choose(C)
  BY <1>2, <1>3 DEF ResolveExamTime, TakenAsSent, raw, C
<1>12. ResolveExamTime(s) = Found(t, c.resolution)
  BY <1>9, <1>10, <1>11, OnlyInside
<1> QED
  BY <1>6, <1>7, <1>12 DEF Found, w

\* A sitting inside its window (exam-time.ts, resolveExamTime) is found again from an
\* hour of twelve without AM and PM, on either side of noon and midnight, for every
\* instant, window of under eleven hours and zone whose clock moves by at most an
\* hour, when the display clock stands and no hour shown twice straddles the edge of
\* a window.
THEOREM SittingsAreRecovered ==
  ASSUME ShiftsByAnHour, StandingDisplay, RepeatsStayInside
  PROVE  TimeSpec => []SittingRecovered
<1> DEFINE Inv == sitting \in Sittings /\ Answered
<1>1. TimeInit => Inv
  BY DEF TimeInit, Answered
<1>2. Inv /\ [TimeNext]_timeVars => Inv'
  BY DEF TimeNext, Resolve, timeVars, Answered
<1>3. Inv => SittingRecovered
  <2> SUFFICES ASSUME Inv, sitting.form = "half", sitting.windowed,
                      InWindow(sitting.start), Width < 660, resolved # Unread
               PROVE  \E t \in resolved.utc :
                        /\ InWindow(t)
                        /\ WallIn(t, sitting.source) = WallIn(sitting.start, sitting.source)
                        /\ ShownOnce(sitting.start) => t = sitting.start
    BY DEF SittingRecovered
  <2>1. \A t : InWindow(t) <=> Inside(sitting, t)
    BY DEF InWindow, Minutes, Inside
  <2>2. PICK t \in Twins(sitting) :
          /\ ResolveExamTime(sitting).utc = {t}
          /\ Inside(sitting, t)
          /\ WallIn(t, sitting.source) = WallIn(sitting.start, sitting.source)
    BY <2>1, Recovered DEF Width
  <2>3. t \in resolved.utc
    BY <2>2 DEF Answered
  <2>4. ASSUME ShownOnce(sitting.start) PROVE t = sitting.start
    <3> DEFINE shows == {x \in Twins(sitting) :
                           WallIn(x, sitting.source) = WallIn(sitting.start, sitting.source)}
    <3>1. Cardinality(shows) = 1
      BY <2>4 DEF ShownOnce, Twins
    <3>2. shows \subseteq Twins(sitting) /\ IsFiniteSet(Twins(sitting))
      <4>1. IsFiniteSet({WallIn(sitting.start, sitting.source) - sitting.source.before})
        BY FS_Singleton
      <4> QED
        BY <4>1, FS_AddElement DEF Twins
    <3>3. IsFiniteSet(shows)
      BY <3>2, FS_Subset
    <3>4. PICK x : shows = {x}
      BY <3>1, <3>3, FS_Singleton
    <3>5. sitting.start \in shows
      BY SittingIs DEF Twins, WallIn, Offset, Zones
    <3>6. t \in shows
      BY <2>2
    <3> HIDE DEF shows
    <3> QED
      BY <3>4, <3>5, <3>6
  <2> QED
    BY <2>1, <2>2, <2>3, <2>4
<1> QED
  BY <1>1, <1>2, <1>3, PTL DEF TimeSpec

-----------------------------------------------------------------------------
(* Dashboard.  The sums of the tiles are folds, and what a fold computes is  *)
(* found by a least counterexample.                                          *)

\* A set of naturals that is not empty has a least element.
LEMMA LeastExists ==
  ASSUME NEW S \in SUBSET Nat, S # {}
  PROVE  \E x \in S : \A y \in S : x <= y
<1>1. IsWellFoundedOn(OpToRel(<, Nat), Nat)
  BY NatLessThanWellFounded
<1>2. PICK x \in S : \A y \in S : ~ (<<y, x>> \in OpToRel(<, Nat))
  BY <1>1, WFMin
<1>3. \A y \in S : ~ (y < x)
  BY <1>2, Zenon DEF OpToRel
<1> QED
  BY <1>3

\* Adding up a finite set one element at a time, each one chosen from those left.
FoldStep(rows, field, g, s) ==
  IF s = {} THEN 0
  ELSE LET x == CHOOSE x \in s : TRUE IN rows[x][field] + g[s \ {x}]

FoldsBy(rows, field, keys, g) == \A s \in SUBSET keys : g[s] = FoldStep(rows, field, g, s)

Upto(keys, n) == {s \in SUBSET keys : Cardinality(s) <= n}

\* What is left of a set of at most n + 1 elements has at most n.
LEMMA OneLess ==
  ASSUME NEW keys, IsFiniteSet(keys), NEW n \in Nat, NEW s \in Upto(keys, n + 1), s # {}
  PROVE  LET x == CHOOSE x \in s : TRUE
         IN  x \in s /\ s \ {x} \in Upto(keys, n) /\ IsFiniteSet(s) /\ IsFiniteSet(s \ {x})
             /\ Cardinality(s \ {x}) = Cardinality(s) - 1
<1> DEFINE x == CHOOSE x \in s : TRUE
<1>1. x \in s
  OBVIOUS
<1>2. s \in SUBSET keys /\ IsFiniteSet(s) /\ Cardinality(s) <= n + 1
  BY FS_Subset DEF Upto
<1>3. Cardinality(s) \in Nat
  BY <1>2, FS_CardinalityType
<1> HIDE DEF x
<1>4. IsFiniteSet(s \ {x}) /\ Cardinality(s \ {x}) = Cardinality(s) - 1
  BY <1>1, <1>2, FS_RemoveElement
<1>5. s \ {x} \in Upto(keys, n)
  BY <1>2, <1>3, <1>4 DEF Upto
<1> QED
  BY <1>1, <1>2, <1>4, <1>5 DEF x

\* A fold over a finite set is defined for all of its subsets.
LEMMA FoldExists ==
  ASSUME NEW rows, NEW field, NEW keys, IsFiniteSet(keys)
  PROVE  \E g : g = [s \in SUBSET keys |-> FoldStep(rows, field, g, s)]
<1> DEFINE good(n) == \E g : g = [s \in Upto(keys, n) |-> FoldStep(rows, field, g, s)]
           bad     == {n \in Nat : ~ good(n)}
<1>1. good(0)
  <2>1. \A s \in Upto(keys, 0) : s = {}
    <3> SUFFICES ASSUME NEW s \in Upto(keys, 0) PROVE s = {}
      OBVIOUS
    <3>1. IsFiniteSet(s) /\ Cardinality(s) <= 0
      BY FS_Subset DEF Upto
    <3> QED
      BY <3>1, FS_EmptySet, FS_CardinalityType
  <2> DEFINE g == [s \in Upto(keys, 0) |-> 0]
  <2>2. g = [s \in Upto(keys, 0) |-> FoldStep(rows, field, g, s)]
    BY <2>1 DEF FoldStep
  <2> QED
    BY <2>2
<1>2. ASSUME NEW n \in Nat, good(n)
      PROVE  good(n + 1)
  <2>1. PICK g : g = [s \in Upto(keys, n) |-> FoldStep(rows, field, g, s)]
    BY <1>2
  <2> DEFINE h == [s \in Upto(keys, n + 1) |-> FoldStep(rows, field, g, s)]
  <2>2. ASSUME NEW s \in Upto(keys, n)
        PROVE  s \in Upto(keys, n + 1) /\ h[s] = g[s]
    <3>1. IsFiniteSet(s) /\ Cardinality(s) <= n /\ s \in SUBSET keys
      BY FS_Subset DEF Upto
    <3>2. s \in Upto(keys, n + 1)
      BY <3>1, FS_CardinalityType DEF Upto
    <3>3. g[s] = FoldStep(rows, field, g, s)
      BY <2>1
    <3> QED
      BY <3>2, <3>3
  <2>3. ASSUME NEW s \in Upto(keys, n + 1)
        PROVE  FoldStep(rows, field, g, s) = FoldStep(rows, field, h, s)
    <3>1. CASE s = {}
      BY <3>1 DEF FoldStep
    <3>2. CASE s # {}
      <4> DEFINE x == CHOOSE x \in s : TRUE
      <4>1. s \ {x} \in Upto(keys, n)
        BY <3>2, OneLess
      <4>2. h[s \ {x}] = g[s \ {x}]
        BY <4>1, <2>2
      <4> HIDE DEF h
      <4> QED
        BY <3>2, <4>2 DEF FoldStep
    <3> QED
      BY <3>1, <3>2
  <2>4. h = [s \in Upto(keys, n + 1) |-> FoldStep(rows, field, h, s)]
    BY <2>3
  <2> QED
    BY <2>4
<1>3. bad = {}
  <2> SUFFICES ASSUME bad # {} PROVE FALSE
    OBVIOUS
  <2> HIDE DEF good
  <2>1. PICK n \in bad : \A m \in bad : n <= m
    BY LeastExists
  <2>2. n # 0
    BY <1>1, <2>1
  <2>3. n - 1 \in Nat /\ ~ (n <= n - 1)
    BY <2>2, <2>1
  <2>4. good(n - 1)
    BY <2>1, <2>3
  <2>5. good((n - 1) + 1)
    BY <2>3, <2>4, <1>2
  <2>6. (n - 1) + 1 = n
    BY <2>1
  <2> QED
    BY <2>1, <2>5, <2>6
<1> DEFINE size == Cardinality(keys)
<1>4. size \in Nat
  BY FS_CardinalityType
<1>5. Upto(keys, size) = SUBSET keys
  BY FS_Subset DEF Upto
<1>6. good(size)
  <2> HIDE DEF good, size
  <2> QED
    BY <1>3, <1>4
<1> QED
  BY <1>5, <1>6

\* SumOf goes by FoldStep.
LEMMA SumSteps ==
  ASSUME NEW rows, NEW field, NEW keys, IsFiniteSet(keys)
  PROVE  \E g : SumOf(rows, keys, field) = g[keys] /\ FoldsBy(rows, field, keys, g)
<1> DEFINE IsFold(g) == g = [s \in SUBSET keys |->
                               IF s = {} THEN 0
                               ELSE LET x == CHOOSE x \in s : TRUE IN rows[x][field] + g[s \ {x}]]
           fold == CHOOSE g : IsFold(g)
<1>1. \E g : IsFold(g)
  <2>1. PICK g : g = [s \in SUBSET keys |-> FoldStep(rows, field, g, s)]
    BY FoldExists
  <2>2. IsFold(g)
    <3>1. ASSUME NEW s
          PROVE  FoldStep(rows, field, g, s) =
                   IF s = {} THEN 0
                   ELSE LET x == CHOOSE x \in s : TRUE IN rows[x][field] + g[s \ {x}]
      BY DEF FoldStep
    <3> QED
      BY <2>1, <3>1
  <2> HIDE DEF IsFold
  <2> QED
    BY <2>2
<1>2. SumOf(rows, keys, field) = fold[keys]
  BY DEF SumOf, MapThenSumSet, MapThenFoldSet
<1>3. IsFold(fold)
  <2> HIDE DEF IsFold
  <2> QED
    BY <1>1
<1>4. \A s \in SUBSET keys : fold[s] = FoldStep(rows, field, fold, s)
  <2> HIDE DEF fold
  <2> QED
    BY <1>3 DEF FoldStep
<1>5. FoldsBy(rows, field, keys, fold)
  BY <1>4 DEF FoldsBy
<1> HIDE DEF fold
<1> QED
  BY <1>2, <1>5

\* A sum, over a finite set of keys, of how many elements of a set have each key is
\* how many have one of them.
LEMMA SumOfCounts ==
  ASSUME NEW set, IsFiniteSet(set), NEW key, NEW keys, IsFiniteSet(keys), NEW rows, NEW field,
         \A k \in keys : rows[k][field] = Cardinality({i \in set : key[i] = k})
  PROVE  SumOf(rows, keys, field) = Cardinality({i \in set : key[i] \in keys})
<1>1. PICK g : SumOf(rows, keys, field) = g[keys] /\ FoldsBy(rows, field, keys, g)
  BY SumSteps
<1> DEFINE Having(s) == {i \in set : key[i] \in s}
           wrong     == {n \in Nat : \E s \in Upto(keys, n) : g[s] # Cardinality(Having(s))}
<1>2. wrong = {}
  <2> SUFFICES ASSUME wrong # {} PROVE FALSE
    OBVIOUS
  <2>1. PICK n \in wrong : \A m \in wrong : n <= m
    BY LeastExists
  <2>2. PICK s \in Upto(keys, n) : g[s] # Cardinality(Having(s))
    BY <2>1
  <2>3. s \in SUBSET keys /\ IsFiniteSet(s) /\ Cardinality(s) <= n /\ Cardinality(s) \in Nat
    BY <2>2, FS_Subset, FS_CardinalityType DEF Upto
  <2>4. s # {}
    <3> SUFFICES ASSUME s = {} PROVE FALSE
      OBVIOUS
    <3>1. g[s] = 0
      BY <1>1, <2>3 DEF FoldsBy, FoldStep
    <3>2. Having(s) = {}
      OBVIOUS
    <3> QED
      BY <2>2, <3>1, <3>2, FS_EmptySet
  <2>5. n # 0
    BY <2>3, <2>4, FS_EmptySet
  <2>6. n - 1 \in Nat /\ (n - 1) + 1 = n /\ ~ (n <= n - 1)
    BY <2>5
  <2> DEFINE x == CHOOSE x \in s : TRUE
             r == s \ {x}
  <2>7. x \in s /\ r \in Upto(keys, n - 1)
    <3>1. s \in Upto(keys, (n - 1) + 1)
      BY <2>2, <2>6
    <3> QED
      BY <3>1, <2>4, <2>6, OneLess
  <2>8. g[s] = rows[x][field] + g[r]
    BY <1>1, <2>3, <2>4 DEF FoldsBy, FoldStep
  <2> HIDE DEF x
  <2>9. g[r] = Cardinality(Having(r))
    <3>1. n - 1 \notin wrong
      BY <2>1, <2>6
    <3> QED
      BY <3>1, <2>6, <2>7
  <2>10. rows[x][field] = Cardinality({i \in set : key[i] = x})
    BY <2>3, <2>7
  <2> DEFINE one == {i \in set : key[i] = x}
  <2>11. Having(s) = one \cup Having(r) /\ one \cap Having(r) = {}
    BY <2>7
  <2>12. IsFiniteSet(one) /\ IsFiniteSet(Having(r))
    BY FS_Subset
  <2> HIDE DEF one, Having, r
  <2>13. Cardinality(one) \in Nat /\ Cardinality(Having(r)) \in Nat
    BY <2>12, FS_CardinalityType
  <2>14. Cardinality(Having(s)) = Cardinality(one) + Cardinality(Having(r)) - 0
    BY <2>11, <2>12, FS_Union, FS_EmptySet
  <2> QED
    BY <2>2, <2>8, <2>9, <2>10, <2>13, <2>14 DEF one
<1>3. g[keys] = Cardinality(Having(keys))
  <2>1. Cardinality(keys) \in Nat /\ Cardinality(keys) \notin wrong
    BY <1>2, FS_CardinalityType
  <2>2. keys \in Upto(keys, Cardinality(keys))
    BY <2>1 DEF Upto
  <2> QED
    BY <2>1, <2>2
<1> QED
  BY <1>1, <1>3

\* There are no more values in a column than rows.
LEMMA ValuesOfColumn ==
  ASSUME NEW set, IsFiniteSet(set), NEW key
  PROVE  /\ IsFiniteSet({key[i] : i \in set})
         /\ Cardinality({key[i] : i \in set}) \in Nat
         /\ Cardinality({key[i] : i \in set}) <= Cardinality(set)
<1> DEFINE values == {key[i] : i \in set}
           f      == [i \in set |-> key[i]]
<1>1. f \in Surjection(set, values)
  <2>1. f \in [set -> values]
    OBVIOUS
  <2>2. \A v \in values : \E i \in set : f[i] = v
    OBVIOUS
  <2> QED
    BY <2>1, <2>2 DEF Surjection
<1>2. IsFiniteSet(values) /\ Cardinality(values) <= Cardinality(set)
  <2> HIDE DEF values, f
  <2> QED
    BY <1>1, FS_Surjection
<1> QED
  BY <1>2, FS_CardinalityType

AddsUp(rows, field, part, key) ==
  /\ \A keys \in SUBSET DOMAIN rows :
       SumOf(rows, keys, field) = Cardinality({i \in part : key[i] \in keys})
  /\ Total(rows, field) = Cardinality(part)

\* The groups of a set, in one of their fields, add up to the part of the set that
\* the field counts.
LEMMA GroupsAddUp ==
  ASSUME NEW set, IsFiniteSet(set), NEW part \in SUBSET set, NEW key, NEW rows, NEW field,
         DOMAIN rows = {key[i] : i \in set},
         \A k \in DOMAIN rows : rows[k][field] = Cardinality({i \in part : key[i] = k})
  PROVE  AddsUp(rows, field, part, key)
<1>1. IsFiniteSet(part) /\ IsFiniteSet(DOMAIN rows)
  BY FS_Subset, ValuesOfColumn
<1>2. ASSUME NEW keys \in SUBSET DOMAIN rows
      PROVE  SumOf(rows, keys, field) = Cardinality({i \in part : key[i] \in keys})
  <2>1. IsFiniteSet(keys)
    BY <1>1, FS_Subset
  <2>2. \A k \in keys : rows[k][field] = Cardinality({i \in part : key[i] = k})
    BY <1>2
  <2> QED
    BY <1>1, <2>1, <2>2, SumOfCounts
<1>3. {i \in part : key[i] \in DOMAIN rows} = part
  OBVIOUS
<1>4. Total(rows, field) = Cardinality({i \in part : key[i] \in DOMAIN rows})
  BY <1>2 DEF Total
<1> QED
  BY <1>2, <1>3, <1>4 DEF AddsUp

\* The parts of a set of registrations.
LEMMA PartsOfSet ==
  ASSUME NEW set \in SUBSET Ids
  PROVE  /\ IsFiniteSet(set) /\ Cardinality(set) \in Nat
         /\ Completed(set) \in SUBSET set /\ Errors(set) \in SUBSET set
         /\ IsFiniteSet(Completed(set)) /\ IsFiniteSet(Errors(set))
<1>1. IsFiniteSet(set)
  BY DashboardAssumption, FS_Subset
<1>2. Completed(set) \in SUBSET set /\ Errors(set) \in SUBSET set
  BY DEF Completed, Errors
<1> QED
  BY <1>1, <1>2, FS_Subset, FS_CardinalityType

\* A table counted by one column adds up to the set it was counted from.
LEMMA CountedByAddsUp ==
  ASSUME NEW set \in SUBSET Ids, NEW key, NEW rows, rows = CountedBy(set, key)
  PROVE  /\ DOMAIN rows = {key[i] : i \in set}
         /\ AddsUp(rows, "total", set, key)
         /\ AddsUp(rows, "completed", Completed(set), key)
<1>1. DOMAIN rows = {key[i] : i \in set}
  BY DEF CountedBy, GroupBy
<1>2. \A k \in DOMAIN rows : rows[k]["total"] = Cardinality({i \in set : key[i] = k})
  BY DEF CountedBy, GroupBy
<1>3. ASSUME NEW k \in DOMAIN rows
      PROVE  rows[k]["completed"] = Cardinality({i \in Completed(set) : key[i] = k})
  <2>1. rows[k]["completed"] = Cardinality(Completed({i \in set : key[i] = k}))
    BY <1>3 DEF CountedBy, GroupBy
  <2>2. Completed({i \in set : key[i] = k}) = {i \in Completed(set) : key[i] = k}
    BY DEF Completed
  <2> QED
    BY <2>1, <2>2
<1>4. IsFiniteSet(set) /\ set \in SUBSET set /\ Completed(set) \in SUBSET set
  BY PartsOfSet
<1>5. AddsUp(rows, "total", set, key)
  BY <1>1, <1>2, <1>4, GroupsAddUp
<1>6. AddsUp(rows, "completed", Completed(set), key)
  BY <1>1, <1>3, <1>4, GroupsAddUp
<1> QED
  BY <1>1, <1>5, <1>6

\* So does the table of schools, whose errors are a query of their own.
LEMMA SchoolsAddUp ==
  ASSUME NEW set \in SUBSET Ids, NEW rows, rows = SchoolsSummary(set)
  PROVE  /\ DOMAIN rows = {School[i] : i \in set}
         /\ \A k \in DOMAIN rows : rows[k].total = Cardinality({i \in set : School[i] = k})
         /\ Total(rows, "total") = Cardinality(set)
         /\ Total(rows, "completed") = Cardinality(Completed(set))
         /\ Total(rows, "errors") = Cardinality(Errors(set))
<1>1. DOMAIN rows = {School[i] : i \in set}
  BY DEF SchoolsSummary, GroupBy
<1>2. \A k \in DOMAIN rows : rows[k]["total"] = Cardinality({i \in set : School[i] = k})
  BY DEF SchoolsSummary, GroupBy
<1>3. ASSUME NEW k \in DOMAIN rows
      PROVE  rows[k]["completed"] = Cardinality({i \in Completed(set) : School[i] = k})
  <2>1. rows[k]["completed"] = Cardinality(Completed({i \in set : School[i] = k}))
    BY <1>3 DEF SchoolsSummary, GroupBy
  <2>2. Completed({i \in set : School[i] = k}) = {i \in Completed(set) : School[i] = k}
    BY DEF Completed
  <2> QED
    BY <2>1, <2>2
<1>4. ASSUME NEW k \in DOMAIN rows
      PROVE  rows[k]["errors"] = Cardinality({i \in Errors(set) : School[i] = k})
  <2> DEFINE errors == {i \in Errors(set) : School[i] = k}
  <2>1. rows[k]["errors"] = IF k \in {School[i] : i \in Errors(set)} THEN Cardinality(errors) ELSE 0
    BY <1>4 DEF SchoolsSummary, GroupBy
  <2>2. k \notin {School[i] : i \in Errors(set)} => errors = {}
    OBVIOUS
  <2> HIDE DEF errors
  <2>3. rows[k]["errors"] = Cardinality(errors)
    BY <2>1, <2>2, FS_EmptySet
  <2> QED
    BY <2>3 DEF errors
<1>5. IsFiniteSet(set) /\ set \in SUBSET set /\ Completed(set) \in SUBSET set /\ Errors(set) \in SUBSET set
  BY PartsOfSet
<1>6. Total(rows, "total") = Cardinality(set)
  BY <1>1, <1>2, <1>5, GroupsAddUp DEF AddsUp
<1>7. Total(rows, "completed") = Cardinality(Completed(set))
  BY <1>1, <1>3, <1>5, GroupsAddUp DEF AddsUp
<1>8. Total(rows, "errors") = Cardinality(Errors(set))
  BY <1>1, <1>4, <1>5, GroupsAddUp DEF AddsUp
<1> QED
  BY <1>1, <1>2, <1>6, <1>7, <1>8

\* Exams and instruments are all the subjects, each once.
LEMMA KindsAddUp ==
  ASSUME NEW set \in SUBSET Ids, NEW kinds, kinds = SplitByKind(SubjectsSummary(set))
  PROVE  /\ kinds.exams.total + kinds.instruments.total = Cardinality(set)
         /\ kinds.exams.completed + kinds.instruments.completed = Cardinality(Completed(set))
<1>1. PICK rows, subject :
        /\ rows = SubjectsSummary(set) /\ DOMAIN rows = {subject[i] : i \in set}
        /\ AddsUp(rows, "total", set, subject) /\ AddsUp(rows, "completed", Completed(set), subject)
  BY CountedByAddsUp DEF SubjectsSummary
<1> DEFINE Exams       == {k \in DOMAIN rows : ~ IsInstrument(k)}
           Instruments == {k \in DOMAIN rows : IsInstrument(k)}
           With(part, keys) == {i \in part : subject[i] \in keys}
<1>2. /\ kinds.exams.total = SumOf(rows, Exams, "total")
      /\ kinds.instruments.total = SumOf(rows, Instruments, "total")
      /\ kinds.exams.completed = SumOf(rows, Exams, "completed")
      /\ kinds.instruments.completed = SumOf(rows, Instruments, "completed")
  <2>1. /\ Exams = {k \in DOMAIN rows : IsInstrument(k) = FALSE}
        /\ Instruments = {k \in DOMAIN rows : IsInstrument(k) = TRUE}
    BY DEF IsInstrument
  <2> HIDE DEF Exams, Instruments
  <2> QED
    BY <1>1, <2>1 DEF SplitByKind, Bucket
<1>3. ASSUME NEW part \in SUBSET set
      PROVE  Cardinality(With(part, Exams)) + Cardinality(With(part, Instruments)) = Cardinality(part)
  <2> DEFINE left  == With(part, Exams)
             right == With(part, Instruments)
  <2>1. left \cup right = part /\ left \cap right = {}
    BY <1>1
  <2>2. IsFiniteSet(part)
    BY PartsOfSet, FS_Subset
  <2>3. IsFiniteSet(left) /\ IsFiniteSet(right)
    BY <2>2, FS_Subset
  <2> HIDE DEF left, right
  <2>4. Cardinality(left) \in Nat /\ Cardinality(right) \in Nat
    BY <2>3, FS_CardinalityType
  <2>5. Cardinality(left \cup right) = Cardinality(left) + Cardinality(right) - Cardinality(left \cap right)
    BY <2>3, FS_Union
  <2> QED
    BY <2>1, <2>4, <2>5, FS_EmptySet DEF left, right
<1>4. Exams \in SUBSET DOMAIN rows /\ Instruments \in SUBSET DOMAIN rows
  OBVIOUS
<1>5. \A keys \in SUBSET DOMAIN rows :
        /\ SumOf(rows, keys, "total") = Cardinality(With(set, keys))
        /\ SumOf(rows, keys, "completed") = Cardinality(With(Completed(set), keys))
  BY <1>1 DEF AddsUp
<1>6. set \in SUBSET set /\ Completed(set) \in SUBSET set
  BY PartsOfSet
<1> HIDE DEF With, Exams, Instruments
<1> QED
  BY <1>2, <1>3, <1>4, <1>5, <1>6

Unidentified(set) == {i \in set : table[i].emiratesId \in NoEmiratesId}
IdsOf(set)        == {table[i].emiratesId : i \in set \ Unidentified(set)}
ExternalsOf(set)  == {table[i].external : i \in Unidentified(set)}

\* A student counts once, by the Emirates ID or by the external one.
LEMMA StudentsCounted ==
  ASSUME NEW set \in SUBSET Ids
  PROVE  /\ IsFiniteSet(IdsOf(set)) /\ IsFiniteSet(ExternalsOf(set))
         /\ Cardinality(IdsOf(set)) \in Nat /\ Cardinality(ExternalsOf(set)) \in Nat
         /\ CountDistinctStudents(set) = Cardinality(IdsOf(set)) + Cardinality(ExternalsOf(set))
         /\ CountDistinctStudents(set) <= Cardinality(set)
<1> DEFINE known    == {i \in set : table[i].emiratesId \notin NoEmiratesId}
           unknown  == Unidentified(set)
           id       == [i \in Ids |-> table[i].emiratesId]
           external == [i \in Ids |-> table[i].external]
<1>1. known = set \ unknown /\ unknown = set \ known /\ known \cup unknown = set
      /\ known \cap unknown = {}
  BY DEF Unidentified
<1>2. CountDistinctStudents(set) = Cardinality(IdsOf(set)) + Cardinality(ExternalsOf(set))
  BY <1>1 DEF CountDistinctStudents, IdsOf, ExternalsOf
<1>3. IsFiniteSet(set) /\ IsFiniteSet(known) /\ IsFiniteSet(unknown)
  <2>1. IsFiniteSet(set) /\ known \in SUBSET set /\ unknown \in SUBSET set
    BY <1>1, PartsOfSet
  <2> QED
    BY <2>1, FS_Subset
<1>4. IdsOf(set) = {id[i] : i \in known} /\ ExternalsOf(set) = {external[i] : i \in unknown}
  BY <1>1 DEF IdsOf, ExternalsOf, Unidentified
<1> HIDE DEF known, unknown, id, external
<1>5. /\ IsFiniteSet(IdsOf(set)) /\ Cardinality(IdsOf(set)) \in Nat
      /\ Cardinality(IdsOf(set)) <= Cardinality(known)
  BY <1>3, <1>4, ValuesOfColumn
<1>6. /\ IsFiniteSet(ExternalsOf(set)) /\ Cardinality(ExternalsOf(set)) \in Nat
      /\ Cardinality(ExternalsOf(set)) <= Cardinality(unknown)
  BY <1>3, <1>4, ValuesOfColumn
<1>7. /\ Cardinality(known) \in Nat /\ Cardinality(unknown) \in Nat
      /\ Cardinality(set) = Cardinality(known) + Cardinality(unknown)
  <2>1. /\ Cardinality(known) \in Nat /\ Cardinality(unknown) \in Nat
        /\ Cardinality(known \cup unknown)
             = Cardinality(known) + Cardinality(unknown) - Cardinality(known \cap unknown)
    BY <1>3, FS_CardinalityType, FS_Union
  <2>2. Cardinality(known \cap unknown) = 0
    BY <1>1, FS_EmptySet
  <2>3. Cardinality(known \cup unknown) = Cardinality(set)
    BY <1>1
  <2> QED
    BY <2>1, <2>2, <2>3
<1> QED
  BY <1>2, <1>5, <1>6, <1>7

\* Those said to take part are rows of the unfiltered view: their Emirates IDs are
\* counted there, the empty one, if any, with the external ids.
LEMMA ParticipationCounted ==
  ASSUME table \in [Ids -> Rows], Unfiltered
  PROVE  /\ ParticipationCoverage.students.targeted <= CountDistinctStudents(Where(query))
         /\ ParticipationCoverage.schools.targeted <= Cardinality({School[i] : i \in Where(query)})
<1> DEFINE set     == Where(query)
           exams   == {i \in Ids : ~ table[i].deleted /\ ~ IsInstrument(table[i].subject)}
           people  == {table[i].emiratesId : i \in exams} \ {Null}
           schools == {table[i].school : i \in exams} \ {Null}
<1>1. set \in SUBSET Ids /\ exams \in SUBSET set
  BY DEF Where, Unfiltered
<1>2. /\ ParticipationCoverage.students.targeted = Cardinality(people)
      /\ ParticipationCoverage.schools.targeted = Cardinality(schools)
  <2>1. /\ ParticipationCoverage.students.targeted
             = Cardinality({table[i]["emiratesId"] : i \in exams} \ {Null})
        /\ ParticipationCoverage.schools.targeted
             = Cardinality({table[i]["school"] : i \in exams} \ {Null})
    BY DEF ParticipationCoverage
  <2> QED
    BY <2>1
<1> HIDE DEF set
<1>3. Cardinality(people) <= CountDistinctStudents(set)
  <2>1. /\ IsFiniteSet(IdsOf(set)) /\ IsFiniteSet(ExternalsOf(set))
        /\ Cardinality(IdsOf(set)) \in Nat /\ Cardinality(ExternalsOf(set)) \in Nat
        /\ CountDistinctStudents(set) = Cardinality(IdsOf(set)) + Cardinality(ExternalsOf(set))
    BY <1>1, StudentsCounted
  <2>2. CASE "" \notin people
    <3>1. people \in SUBSET IdsOf(set)
      BY <1>1, <2>2 DEF IdsOf, Unidentified, NoEmiratesId
    <3>2. Cardinality(people) <= Cardinality(IdsOf(set)) /\ Cardinality(people) \in Nat
      BY <2>1, <3>1, FS_Subset, FS_CardinalityType
    <3> QED
      BY <2>1, <3>2
  <2>3. CASE "" \in people
    <3>1. people \in SUBSET (IdsOf(set) \cup {""})
      BY <1>1 DEF IdsOf, Unidentified, NoEmiratesId
    <3>2. ExternalsOf(set) # {}
      BY <1>1, <2>3 DEF ExternalsOf, Unidentified, NoEmiratesId
    <3>3. Cardinality(ExternalsOf(set)) # 0
      BY <2>1, <3>2, FS_EmptySet
    <3>4. PICK ids : ids = IdsOf(set)
      OBVIOUS
    <3> DEFINE more == ids \cup {""}
    <3>5. IsFiniteSet(more) /\ Cardinality(more) = IF "" \in ids THEN Cardinality(ids) ELSE Cardinality(ids) + 1
      BY <2>1, <3>4, FS_AddElement
    <3>6. people \in SUBSET more
      BY <3>1, <3>4
    <3> HIDE DEF people, more
    <3>7. Cardinality(people) <= Cardinality(more) /\ Cardinality(people) \in Nat /\ Cardinality(more) \in Nat
      <4>1. IsFiniteSet(people) /\ Cardinality(people) <= Cardinality(more)
        BY <3>5, <3>6, FS_Subset
      <4> QED
        BY <4>1, <3>5, FS_CardinalityType
    <3>8. Cardinality(people) <= Cardinality(ids) + 1 /\ Cardinality(ids) \in Nat
      <4>1. Cardinality(ids) \in Nat
        BY <2>1, <3>4
      <4>2. Cardinality(more) = Cardinality(ids) \/ Cardinality(more) = Cardinality(ids) + 1
        BY <3>5
      <4> QED
        BY <3>7, <4>1, <4>2
    <3>9. Cardinality(people) <= Cardinality(ids) + Cardinality(ExternalsOf(set))
      BY <2>1, <3>3, <3>7, <3>8
    <3> QED
      BY <2>1, <3>4, <3>9
  <2> QED
    BY <2>2, <2>3
<1>4. Cardinality(schools) <= Cardinality({School[i] : i \in set})
  <2>1. schools \in SUBSET {School[i] : i \in set}
    BY <1>1 DEF School
  <2>2. IsFiniteSet({School[i] : i \in set})
    BY <1>1, PartsOfSet, ValuesOfColumn
  <2> QED
    BY <2>1, <2>2, FS_Subset
<1> QED
  BY <1>2, <1>3, <1>4 DEF set

\* Of the schools outside a scope there is no row.
LEMMA ScopeKept ==
  ASSUME table \in [Ids -> Rows], query \in Queries, query.scoped
  PROVE  {School[i] : i \in Where(query)} \subseteq query.schools
<1> SUFFICES ASSUME NEW i \in Where(query)
             PROVE  School[i] \in query.schools
  OBVIOUS
<1>1. i \in Ids /\ table[i] \in Rows /\ InScope(table[i], query)
  BY DEF Where, Matches
<1>2. table[i].school # "__none__" /\ Null \notin query.schools
  BY <1>1, DashboardAssumption
<1>3. table[i].school \in query.schools
  BY <1>1, <1>2 DEF InScope
<1> QED
  BY <1>1, <1>2, <1>3 DEF School

-----------------------------------------------------------------------------

\* What TilesAgree says of one answer.
Agrees(a) ==
  /\ \A field \in {"total", "completed"} :
       /\ \A rows \in {a.schools, a.grades, a.subjects} : Total(rows, field) = a.overview[field]
       /\ a.byKind.exams[field] + a.byKind.instruments[field] = a.overview[field]
  /\ Total(a.schools, "errors") = a.overview.errors
  /\ \A k \in DOMAIN a.today : a.today[k] <= a.schools[k].total
  /\ a.students <= a.overview.total
  /\ Unfiltered => /\ a.participation.students.targeted <= a.students
                   /\ a.participation.schools.targeted <= Cardinality(DOMAIN a.schools)
  /\ query.scoped => DOMAIN a.schools \subseteq query.schools

\* The answer to a request agrees with itself.
LEMMA AnswersAgree ==
  ASSUME table \in [Ids -> Rows], query \in Queries, NEW a, a = Answer(query)
  PROVE  Agrees(a)
<1> DEFINE set == Where(query)
<1>1. set \in SUBSET Ids
  BY DEF Where
<1>2. /\ a.overview = Counted(set) /\ a.students = CountDistinctStudents(set)
      /\ a.schools = SchoolsSummary(set) /\ a.grades = CompletionByGrade(set)
      /\ a.subjects = SubjectsSummary(set) /\ a.byKind = SplitByKind(SubjectsSummary(set))
      /\ a.today = TodaysActivity(set) /\ a.participation = ParticipationCoverage
  BY DEF Answer
<1>3. /\ a.overview.total = Cardinality(set) /\ a.overview["total"] = Cardinality(set)
      /\ a.overview["completed"] = Cardinality(Completed(set))
      /\ a.overview.errors = Cardinality(Errors(set))
  BY <1>2 DEF Counted
<1> HIDE DEF set
<1>4. /\ DOMAIN a.schools = {School[i] : i \in set}
      /\ \A k \in DOMAIN a.schools : a.schools[k].total = Cardinality({i \in set : School[i] = k})
      /\ Total(a.schools, "total") = Cardinality(set)
      /\ Total(a.schools, "completed") = Cardinality(Completed(set))
      /\ Total(a.schools, "errors") = Cardinality(Errors(set))
  BY <1>1, <1>2, SchoolsAddUp
<1>5. /\ Total(a.grades, "total") = Cardinality(set)
      /\ Total(a.grades, "completed") = Cardinality(Completed(set))
  <2>1. PICK key : a.grades = CountedBy(set, key)
    BY <1>2 DEF CompletionByGrade
  <2>2. /\ AddsUp(a.grades, "total", set, key)
        /\ AddsUp(a.grades, "completed", Completed(set), key)
    BY <1>1, <2>1, CountedByAddsUp
  <2> QED
    BY <2>2 DEF AddsUp
<1>6. /\ Total(a.subjects, "total") = Cardinality(set)
      /\ Total(a.subjects, "completed") = Cardinality(Completed(set))
  <2>1. PICK key : a.subjects = CountedBy(set, key)
    BY <1>2 DEF SubjectsSummary
  <2>2. /\ AddsUp(a.subjects, "total", set, key)
        /\ AddsUp(a.subjects, "completed", Completed(set), key)
    BY <1>1, <2>1, CountedByAddsUp
  <2> QED
    BY <2>2 DEF AddsUp
<1>7. /\ a.byKind.exams["total"] + a.byKind.instruments["total"] = Cardinality(set)
      /\ a.byKind.exams["completed"] + a.byKind.instruments["completed"] = Cardinality(Completed(set))
  BY <1>1, <1>2, KindsAddUp
<1>8. ASSUME NEW k \in DOMAIN a.today
      PROVE  a.today[k] <= a.schools[k].total
  <2> DEFINE today == {i \in {i \in set : table[i].today} : School[i] = k}
             all   == {i \in set : School[i] = k}
  <2>1. a.today[k] = Cardinality(today) /\ k \in DOMAIN a.schools
    BY <1>2, <1>4, <1>8 DEF TodaysActivity, GroupBy
  <2>2. today \in SUBSET all /\ all \in SUBSET set
    OBVIOUS
  <2>3. IsFiniteSet(all)
    BY <1>1, <2>2, PartsOfSet, FS_Subset
  <2> HIDE DEF today
  <2>4. Cardinality(today) <= Cardinality(all)
    BY <2>2, <2>3, FS_Subset
  <2> QED
    BY <1>4, <2>1, <2>4
<1>9. a.students <= a.overview.total
  BY <1>1, <1>2, <1>3, StudentsCounted
<1>10. ASSUME Unfiltered
       PROVE  /\ a.participation.students.targeted <= a.students
              /\ a.participation.schools.targeted <= Cardinality(DOMAIN a.schools)
  BY <1>2, <1>4, <1>10, ParticipationCounted DEF set
<1>11. query.scoped => DOMAIN a.schools \subseteq query.schools
  BY <1>4, ScopeKept DEF set
<1> QED
  BY <1>3, <1>4, <1>5, <1>6, <1>7, <1>8, <1>9, <1>10, <1>11 DEF Agrees

\* The tiles of an answer agree: schools, grades, subjects and kinds add up to the
\* headline, and nobody sees a school outside their scope (services/dashboard.service.ts).
THEOREM DashboardTilesAgree == DashSpec => []TilesAgree
<1> DEFINE Inv == table \in [Ids -> Rows] /\ query \in Queries /\ TilesAgree
<1>1. DashInit => Inv
  BY DEF DashInit, DashStart, TilesAgree
<1>2. Inv /\ [DashNext]_dashVars => Inv'
  <2> SUFFICES ASSUME Inv, [DashNext]_dashVars PROVE Inv'
    OBVIOUS
  <2>1. table' = table /\ query' = query /\ (shown' = {Answer(query)} \/ shown' = shown)
    BY DEF DashNext, Respond, dashVars
  <2>2. Unfiltered' <=> Unfiltered
    BY <2>1 DEF Unfiltered
  <2>3. CASE shown' = {Answer(query)}
    <3>1. PICK a : a = Answer(query)
      OBVIOUS
    <3>2. Agrees(a) /\ shown' = {a}
      BY <2>3, <3>1, AnswersAgree
    <3> QED
      BY <2>1, <2>2, <3>2 DEF Agrees, TilesAgree
  <2>4. CASE shown' = shown
    BY <2>1, <2>2, <2>4 DEF TilesAgree
  <2> QED
    BY <2>1, <2>3, <2>4
<1> QED
  BY <1>1, <1>2, PTL DEF DashSpec

-----------------------------------------------------------------------------
(* Hours that go round midnight.                                            *)

\* The hours from first to last, the last one left out or not, counted from the first.
LEMMA RoundMidnight ==
  ASSUME NEW h \in 0 .. 23, NEW first \in 0 .. 23, NEW last \in 0 .. 23
  PROVE  /\ (h - first) % 24 = IF h >= first THEN h - first ELSE h - first + 24
         /\ (last - first) % 24 = IF last >= first THEN last - first ELSE last - first + 24
OBVIOUS

\* The filter of hours keeps what lies in the range, both ends included, also past
\* midnight (services/filters.ts, buildRegistrationWhere).
THEOREM HoursFiltered ==
  ASSUME NEW r, r.hour \in 0 .. 23, NEW q, q.fromHour \in 0 .. 23, q.toHour \in 0 .. 23
  PROVE  AtHour(r, q) <=> (r.hour - q.fromHour) % 24 <= (q.toHour - q.fromHour) % 24
<1>1. FromHour(q) = q.fromHour /\ ToHour(q) = q.toHour /\ Houred(q)
  BY DEF FromHour, ToHour, Houred
<1> QED
  BY <1>1, RoundMidnight DEF AtHour, None

\* Settings, and the copies of them, are what they are declared to be.
THEOREM WindowTypeCorrect == WindowSpec => []WindowTypeOK
<1>1. WindowInit => WindowTypeOK
  BY DEF WindowInit, WindowTypeOK, NoWindow, ReadState, Number, Settings, Unset, Empty, NaN
<1>2. WindowTypeOK /\ [WindowNext]_windowVars => WindowTypeOK'
  <2> SUFFICES ASSUME WindowTypeOK, [WindowNext]_windowVars
               PROVE  WindowTypeOK'
    OBVIOUS
  <2> USE DEF WindowTypeOK
  <2>1. CASE SetSyncWindow
    BY <2>1 DEF SetSyncWindow, Settings
  <2>2. CASE PauseGlobal \/ SetFrozen
    BY <2>2 DEF PauseGlobal, SetFrozen
  <2>3. CASE RefreshAllowed
    <3>1. ReadState \in [start : Hours \cup {NaN, 0}, end : Hours \cup {NaN, 0}, stopped : BOOLEAN]
      BY DEF ReadState, Number, Settings, Unset, Empty, NaN
    <3> QED
      BY <2>3, <3>1 DEF RefreshAllowed
  <2>4. CASE HourPasses
    BY <2>4 DEF HourPasses
  <2>5. CASE UNCHANGED windowVars
    BY <2>5 DEF windowVars
  <2> QED
    BY <2>1, <2>2, <2>3, <2>4, <2>5 DEF WindowNext
<1> QED
  BY <1>1, <1>2, PTL DEF WindowSpec

\* With both hours set, a process that has read the settings and that no switch stops
\* claims from the first hour up to the last, which is left out, also past midnight;
\* where the two are the same, never (queue.service.ts, syncAllowedNow).
DailyHours ==
  /\ Fresh /\ ~ switches.paused /\ ~ switches.frozen
  /\ settings.start \in Hours /\ settings.end \in Hours
  => (SyncAllowedNow <=> (hour - settings.start) % 24 < (settings.end - settings.start) % 24)

THEOREM DailyWindow == Hours \subseteq 0 .. 23 => (WindowSpec => []DailyHours)
<1> SUFFICES ASSUME Hours \subseteq 0 .. 23
             PROVE  WindowSpec => []DailyHours
  OBVIOUS
<1>1. ASSUME WindowTypeOK
      PROVE  DailyHours
  <2> SUFFICES ASSUME Fresh, ~ switches.paused, ~ switches.frozen,
                      settings.start \in Hours, settings.end \in Hours
               PROVE  SyncAllowedNow <=>
                        (hour - settings.start) % 24 < (settings.end - settings.start) % 24
    BY DEF DailyHours
  <2>1. PICK first, last : /\ first = settings.start /\ last = settings.end
                           /\ first \in 0 .. 23 /\ last \in 0 .. 23
    OBVIOUS
  <2>2. Number(settings.start) = first /\ Number(settings.end) = last
    BY <2>1 DEF Number, Unset, Empty
  <2>3. allowed.start = first /\ allowed.end = last
    BY <2>2 DEF Fresh, ReadState
  <2>4. ~ allowed.stopped
    BY Zenon DEF Fresh, ReadState
  <2>5. SyncAllowedNow <=> InHours(hour, first, last)
    BY <2>1, <2>3, <2>4 DEF SyncAllowedNow, NaN
  <2>6. PICK h \in 0 .. 23 : h = hour
    BY <1>1 DEF WindowTypeOK
  <2>7. InHours(h, first, last) <=> (h - first) % 24 < (last - first) % 24
    BY <2>1, RoundMidnight DEF InHours
  <2> QED
    BY <2>1, <2>5, <2>6, <2>7
<1> QED
  BY <1>1, WindowTypeCorrect, PTL
=============================================================================

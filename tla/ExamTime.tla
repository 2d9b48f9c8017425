------------------------------ MODULE ExamTime ------------------------------
(***************************************************************************)
(* Reading a FastTest timestamp (lib/exam-time.ts).  The vendor sends the  *)
(* wall clock of a zone that may observe DST, and without AM or PM; the    *)
(* instant is recovered from the zone and from the daily exam window,      *)
(* which is given in the display zone.                                     *)
(*                                                                         *)
(* Times are minutes.  A wall clock reading is the instant at which UTC    *)
(* shows it (asUtcMs).  A zone has one change of offset: more are further  *)
(* apart than anything computed here.  One behaviour reads one timestamp.  *)
(***************************************************************************)
EXTENDS Integers, FiniteSets

CONSTANTS
  Starts,                    \* instants at which a sitting may begin
  SourceZones, DisplayZones, \* records: offset before, after, and the change
  Windows                    \* records: open and close, in minutes past midnight

\* Zones are what the IANA database can say of one change.
ASSUME ExamTimeAssumption ==
  /\ Starts \subseteq Int
  /\ SourceZones \cup DisplayZones \subseteq [before : Int, after : Int, change : Int]
  /\ Windows \subseteq [open : 0 .. 1439, close : 0 .. 1439]

VARIABLES
  sitting,  \* when it began, the zones, the window, and the form of the string
  resolved  \* what resolveExamTime makes of it; utc holds at most one instant

timeVars == <<sitting, resolved>>

Day == 1440

Resolutions == {"CONVERTED", "RESOLVED_AM", "RESOLVED_PM", "RESOLVED_LATE",
                "AMBIGUOUS", "EXPLICIT_OFFSET", "UNPARSEABLE"}

LateGrace      == 240
EarlyTolerance == 15

-----------------------------------------------------------------------------
(* Zones.                                                                   *)

Offset(zone, instant) == IF instant < zone.change THEN zone.before ELSE zone.after

WallIn(instant, zone) == instant + Offset(zone, instant)

\* Mutant: the offset is not measured again after the first correction.
OnePass(wall, zone) == wall - Offset(zone, wall)

\* Guess, measure the offset, correct, measure again.
ZonedWallTimeToUtc(wall, zone) == wall - Offset(zone, wall - Offset(zone, wall))

-----------------------------------------------------------------------------
(* The string.                                                              *)

\* What FastTest shows of a wall clock: the hour on a clock of twelve, or of
\* twenty-four ("full"), with an offset, or nothing that can be read.
Shown(s) ==
  LET wall == WallIn(s.start, s.source)
      hour == (wall % Day) \div 60
  IN  [ form   |-> s.form,
        date   |-> wall - (wall % Day),
        hour   |-> IF s.form = "full" THEN hour
                   ELSE IF hour % 12 = 0 THEN 12 ELSE hour % 12,
        minute |-> wall % 60 ]

Reading(raw, hour) == raw.date + 60 * hour + raw.minute

\* Mutant: noon and midnight change places.
TwelveIsPm(raw, half) == raw.hour + 12 * half

\* 12:xx AM is 00:xx.
CandidateHour(raw, half) == (raw.hour % 12) + 12 * half

Circular(from, to) == (to - from) % Day

Candidates(s, raw) ==
  { LET instant == ZonedWallTimeToUtc(Reading(raw, CandidateHour(raw, half)), s.source)
        mins    == WallIn(instant, s.display) % Day
        inside  == mins \in s.window.open .. s.window.close
    IN  [ instant    |-> instant,
          resolution |-> IF half = 0 THEN "RESOLVED_AM" ELSE "RESOLVED_PM",
          inside     |-> inside,
          lateBy     |-> IF inside THEN 0 ELSE Circular(s.window.close, mins),
          earlyBy    |-> IF inside THEN 0 ELSE Circular(mins, s.window.open) ]
    : half \in {0, 1} }

\* A sitting may overrun the close but cannot begin before the exam opens.
Credible(c) == c.lateBy <= LateGrace /\ c.earlyBy > EarlyTolerance

Found(instant, how) == [utc |-> {instant}, resolution |-> how]
Lost(how)           == [utc |-> {}, resolution |-> how]

\* The candidates that a sitting can be: those inside the window, else the late ones.
Choose(candidates) ==
  LET inside == {c \in candidates : c.inside}
      late   == {c \in candidates : Credible(c)}
      Only(set) == CHOOSE c \in set : TRUE
  IN  CASE Cardinality(inside) = 1 -> Found(Only(inside).instant, Only(inside).resolution)
        [] inside = {} /\ Cardinality(late) = 1 -> Found(Only(late).instant, "RESOLVED_LATE")
        [] OTHER -> Lost("AMBIGUOUS")

\* A reading that can only be of twenty-four hours, or no window: taken as sent.
TakenAsSent(s, raw) == ~ s.windowed \/ raw.hour = 0 \/ raw.hour > 12

ResolveExamTime(s) ==
  LET raw == Shown(s)
  IN  CASE raw.form = "offset" -> Found(s.start, "EXPLICIT_OFFSET")
        [] raw.form = "junk"   -> Lost("UNPARSEABLE")
        [] raw.form \in {"half", "full"} /\ TakenAsSent(s, raw) ->
             Found(ZonedWallTimeToUtc(Reading(raw, raw.hour), s.source), "CONVERTED")
        [] OTHER -> Choose(Candidates(s, raw))

-----------------------------------------------------------------------------

Unread == [utc |-> {}, resolution |-> "UNPARSEABLE"]

Sittings ==
  [ start : Starts, source : SourceZones, display : DisplayZones, window : Windows,
    windowed : BOOLEAN, form : {"half", "full", "offset", "junk"} ]

TimeTypeOK ==
  /\ sitting \in Sittings
  /\ resolved.resolution \in Resolutions
  /\ \A t \in resolved.utc : t \in Int

TimeInit == sitting \in Sittings /\ resolved = Unread

Resolve ==
  /\ resolved = Unread
  /\ resolved' = ResolveExamTime(sitting)
  /\ UNCHANGED sitting

TimeNext == Resolve

TimeSpec == TimeInit /\ [][TimeNext]_timeVars

-----------------------------------------------------------------------------

Minutes(t)  == WallIn(t, sitting.display) % Day
InWindow(t) == Minutes(t) \in sitting.window.open .. sitting.window.close
Width       == sitting.window.close - sitting.window.open

\* The source clock shows this minute once only (it shows it twice when set back).
ShownOnce(t) ==
  Cardinality({u \in {WallIn(t, sitting.source) - sitting.source.before,
                      WallIn(t, sitting.source) - sitting.source.after} :
                 WallIn(u, sitting.source) = WallIn(t, sitting.source)}) = 1

\* A reading on a clock of twenty-four hours is converted to an instant at which the
\* source zone does show it, on the days its clock changes too.
ConversionRoundTrips ==
  resolved.resolution = "CONVERTED" /\ sitting.form = "full" =>
    \A t \in resolved.utc :
      WallIn(t, sitting.source) = WallIn(sitting.start, sitting.source)

\* A sitting inside the window is found again without AM and PM, on either side of
\* noon and midnight and across a change of the source clock: the window is too
\* narrow (under 11 hours) for the other reading.  Exact unless the minute was shown twice.
SittingRecovered ==
  /\ sitting.form = "half" /\ sitting.windowed
  /\ InWindow(sitting.start) /\ Width < 660
  /\ resolved # Unread
  => \E t \in resolved.utc :
       /\ InWindow(t)
       /\ WallIn(t, sitting.source) = WallIn(sitting.start, sitting.source)
       /\ ShownOnce(sitting.start) => t = sitting.start
=============================================================================

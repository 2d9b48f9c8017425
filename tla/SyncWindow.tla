----------------------------- MODULE SyncWindow -----------------------------
(***************************************************************************)
(* When jobs may be claimed at all (queue.service.ts, syncAllowedNow): the *)
(* master switch, the global pause and the daily window, which are stored  *)
(* as settings, read through a copy of two seconds and compared with the   *)
(* hour of the display zone.  Settings are strings; what matters of one is *)
(* whether it was ever written and what Number() makes of it.              *)
(***************************************************************************)
EXTENDS Integers

CONSTANT Hours    \* hours the operator may enter, and the clock passes through

VARIABLES
  settings, \* stored start and end hour
  switches, \* global pause and master switch
  allowed,  \* a process's copy of both
  hour      \* the hour of the zone of the window

windowVars == <<settings, switches, allowed, hour>>

Unset == -2   \* no row
Empty == -1   \* the empty string
NaN   == -1
NoWindow == [start |-> Unset, end |-> Unset]

\* Number(undefined) is NaN, Number('') is 0.
Number(v) == IF v = Unset THEN NaN ELSE IF v = Empty THEN 0 ELSE v

ReadState ==
  [ start |-> Number(settings.start), end |-> Number(settings.end),
    stopped |-> switches.paused \/ switches.frozen ]

\* A window that ends before it starts goes past midnight.
InHours(h, start, end) ==
  IF start <= end THEN h >= start /\ h < end ELSE h >= start \/ h < end

SyncAllowedNow ==
  /\ ~ allowed.stopped
  /\ allowed.start = NaN \/ allowed.end = NaN \/ InHours(hour, allowed.start, allowed.end)

-----------------------------------------------------------------------------

Settings == {Unset, Empty} \cup Hours

WindowTypeOK ==
  /\ settings \in [start : Settings, end : Settings]
  /\ switches \in [paused : BOOLEAN, frozen : BOOLEAN]
  /\ allowed \in [start : Hours \cup {NaN, 0}, end : Hours \cup {NaN, 0}, stopped : BOOLEAN]
  /\ hour \in Hours

WindowInit ==
  /\ settings = NoWindow
  /\ switches = [paused |-> FALSE, frozen |-> FALSE]
  /\ allowed = ReadState
  /\ hour \in Hours

\* Both settings in one transaction; null is stored as the empty string.
SetSyncWindow ==
  /\ \E s, e \in Hours \cup {Empty} : settings' = [start |-> s, end |-> e]
  /\ UNCHANGED <<switches, allowed, hour>>

PauseGlobal ==
  /\ switches' = [switches EXCEPT !.paused = ~ @]
  /\ UNCHANGED <<settings, allowed, hour>>

SetFrozen ==
  /\ switches' = [switches EXCEPT !.frozen = ~ @]
  /\ UNCHANGED <<settings, allowed, hour>>

RefreshAllowed ==
  /\ allowed' = ReadState
  /\ UNCHANGED <<settings, switches, hour>>

HourPasses ==
  /\ hour' \in Hours \ {hour}
  /\ UNCHANGED <<settings, switches, allowed>>

WindowNext ==
  \/ SetSyncWindow \/ PauseGlobal \/ SetFrozen
  \/ RefreshAllowed \/ HourPasses

WindowSpec == WindowInit /\ [][WindowNext]_windowVars

-----------------------------------------------------------------------------

\* A process whose copy is of the settings in force.
Fresh == allowed = ReadState

\* The hours a person is shown (getSyncControlState): an empty string is none.
Panel ==
  LET Parsed(v) == IF v = Unset THEN Empty ELSE v
  IN  [start |-> Parsed(settings.start), end |-> Parsed(settings.end)]

\* With no window, none set yet or the last one cleared, a process that has read the
\* settings claims at every hour, unless a switch stops it.
\* ("Pass null/null to clear the window (sync always allowed)", queue.service.ts:504.)
ClearedMeansAlways ==
  /\ Panel = [start |-> Empty, end |-> Empty]
  /\ Fresh /\ ~ switches.paused /\ ~ switches.frozen
  => SyncAllowedNow
=============================================================================

------------------------------ MODULE LiveWall ------------------------------
(***************************************************************************)
(* The live wall (observability/dashboard-live.service.ts): one timer      *)
(* computes a snapshot and pushes it to every connected screen.  Ticks     *)
(* overlap, a snapshot that repeats the last one is sent as a keepalive,   *)
(* and a new screen is primed with the last one.  The heavy tiles go       *)
(* through a memo of 15 s (dashboard.service.ts), which also fails as one. *)
(*                                                                         *)
(* The data is a version number; ages are counted in steps of some seconds.*)
(***************************************************************************)
EXTENDS Naturals

CONSTANTS
  MemoTiles, LiveTiles,  \* aggregates behind the memo; those computed every time
  Ticks, Viewers,        \* ticks that may be under way at once; screens
  MemoTtl, PrimingAge,   \* DASH_TTL and MAX_PRIMING_AGE_MS
  MaxData, MaxUpsets     \* bounds on changes of the data, and on failures and comings and goings

ASSUME WallAssumption ==
  MemoTtl \in Nat /\ PrimingAge \in Nat /\ MaxData \in Nat /\ MaxUpsets \in Nat

VARIABLES
  data,     \* what the database holds
  memo,     \* the memoized tiles and their ages
  ticking,  \* the snapshot each tick is computing
  payload,  \* lastPayload and the time since it was computed
  screens,  \* what each screen shows
  upsets

wallVars == <<data, memo, ticking, payload, screens, upsets>>

Tiles     == MemoTiles \cup LiveTiles
Missing   == MaxData + 1            \* a tile whose query failed is null
Snapshots == [Tiles -> 0 .. MaxData + 1]
NoFrame   == [t \in {} |-> 0]
OldAge    == MemoTtl + PrimingAge + 1

WallTypeOK ==
  /\ data \in 0 .. MaxData
  /\ memo \in [MemoTiles -> [at : 0 .. MaxData, age : 0 .. OldAge]]
  /\ ticking \in [Ticks -> Snapshots \cup {NoFrame}]
  /\ payload \in [frame : Snapshots \cup {NoFrame}, age : 0 .. OldAge]
  /\ screens \in [Viewers -> [here : BOOLEAN, shows : Snapshots \cup {NoFrame}]]
  /\ upsets \in 0 .. MaxUpsets

Away == [here |-> FALSE, shows |-> NoFrame]

WallInit ==
  /\ data = 0
  /\ memo = [t \in MemoTiles |-> [at |-> 0, age |-> OldAge]]
  /\ ticking = [k \in Ticks |-> NoFrame]
  /\ payload = [frame |-> NoFrame, age |-> OldAge]
  /\ screens = [v \in Viewers |-> Away]
  /\ upsets = 0

Watched == \E v \in Viewers : screens[v].here

Upset == upsets < MaxUpsets /\ upsets' = upsets + 1

-----------------------------------------------------------------------------
(* Computing a snapshot.                                                    *)

Hit(t) == memo[t].age < MemoTtl

\* What the memo holds once all tiles have been asked for: a hit is served as it is.
Asked == [t \in MemoTiles |-> IF Hit(t) THEN memo[t] ELSE [at |-> data, age |-> 0]]

\* The snapshot; of the tiles that are computed each time, some may be missing.
ComputeSnapshot(lost) ==
  [t \in Tiles |-> IF t \in lost THEN Missing ELSE IF t \in MemoTiles THEN Asked[t].at ELSE data]

StartTick(k) ==
  /\ ticking[k] = NoFrame
  /\ memo' = Asked
  /\ \E lost \in SUBSET LiveTiles :
       /\ lost # {} => Upset
       /\ lost = {} => UNCHANGED upsets
       /\ ticking' = [ticking EXCEPT ![k] = ComputeSnapshot(lost)]

\* The timer, which runs while anyone is connected.
TimerTick(k) == Watched /\ StartTick(k) /\ UNCHANGED <<data, payload, screens>>

\* Mutant: the new frame is compared with itself.
RepeatsItself(frame) == TRUE

\* Against the last frame, also one that no screen of now has seen.
Repeated(frame) == payload.frame # NoFrame /\ frame = payload.frame

\* The snapshot is sent to everyone who is connected now, a repeated one as a
\* keepalive.  A tick that ends after the last screen has gone leaves its frame.
EndTick(k) ==
  /\ ticking[k] # NoFrame
  /\ payload' = [frame |-> ticking[k], age |-> 0]
  /\ screens' = [v \in Viewers |->
       IF screens[v].here /\ ~ Repeated(ticking[k])
       THEN [screens[v] EXCEPT !.shows = ticking[k]] ELSE screens[v]]
  /\ ticking' = [ticking EXCEPT ![k] = NoFrame]
  /\ UNCHANGED <<data, memo, upsets>>

\* A heavy tile fails: the memo forgets it, and the last good frame is kept.
FailTick(k) ==
  /\ ticking[k] # NoFrame
  /\ \E t \in MemoTiles : memo' = [memo EXCEPT ![t].age = OldAge]
  /\ ticking' = [ticking EXCEPT ![k] = NoFrame]
  /\ Upset
  /\ UNCHANGED <<data, payload, screens>>

-----------------------------------------------------------------------------
(* Screens come and go.                                                     *)

\* A fresh frame is sent at once.
JoinPrimed(v) ==
  /\ ~ screens[v].here /\ payload.frame # NoFrame /\ payload.age <= PrimingAge
  /\ screens' = [screens EXCEPT ![v] = [here |-> TRUE, shows |-> payload.frame]]
  /\ Upset
  /\ UNCHANGED <<data, memo, ticking, payload>>

\* Otherwise a tick is begun; the timer may begin another.
JoinBlank(v) ==
  /\ ~ screens[v].here /\ (payload.frame = NoFrame \/ payload.age > PrimingAge)
  /\ screens' = [screens EXCEPT ![v] = [here |-> TRUE, shows |-> NoFrame]]
  /\ \E k \in Ticks :
       /\ ticking[k] = NoFrame
       /\ \E lost \in SUBSET LiveTiles :
            ticking' = [ticking EXCEPT ![k] = ComputeSnapshot(lost)]
  /\ memo' = Asked
  /\ Upset
  /\ UNCHANGED <<data, payload>>

\* With the last one the timer and the frame go; a tick under way goes on.
Leave(v) ==
  /\ screens[v].here
  /\ screens' = [screens EXCEPT ![v] = Away]
  /\ payload' = IF \E u \in Viewers \ {v} : screens[u].here THEN payload
                ELSE [frame |-> NoFrame, age |-> OldAge]
  /\ Upset
  /\ UNCHANGED <<data, memo, ticking>>

DataChanges ==
  /\ data < MaxData /\ data' = data + 1
  /\ UNCHANGED <<memo, ticking, payload, screens, upsets>>

Aged(age) == IF age < OldAge THEN age + 1 ELSE age

TimePasses ==
  /\ memo' = [t \in MemoTiles |-> [memo[t] EXCEPT !.age = Aged(@)]]
  /\ payload' = [payload EXCEPT !.age = Aged(@)]
  /\ UNCHANGED <<data, ticking, screens, upsets>>

WallNext ==
  \/ \E k \in Ticks : TimerTick(k) \/ EndTick(k) \/ FailTick(k)
  \/ \E v \in Viewers : JoinPrimed(v) \/ JoinBlank(v) \/ Leave(v)
  \/ DataChanges \/ TimePasses

WallSpec == WallInit /\ [][WallNext]_wallVars

\* The timer fires, a snapshot ends one way or the other, and time passes.
WallFairness ==
  /\ WF_wallVars(\E k \in Ticks : TimerTick(k))
  /\ \A k \in Ticks : WF_wallVars(EndTick(k))
  /\ WF_wallVars(TimePasses)

-----------------------------------------------------------------------------

Current(v) == screens[v].shows = [t \in Tiles |-> data]

\* Once the data stays as it is and queries succeed, a screen that stays connected
\* ends up showing the data, through overlapping and late ticks, memo and keepalives:
\* unless it shows nothing at all.  (A screen that joins when the stored frame is too
\* old to be sent, and the new snapshot repeats that frame, gets keepalives only.)
ViewersCatchUp ==
  \A v \in Viewers :
    <>[](screens[v].here) => <>[](screens[v].shows = NoFrame) \/ <>[]Current(v)
=============================================================================

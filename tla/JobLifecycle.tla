---------------------------- MODULE JobLifecycle ----------------------------
(***************************************************************************)
(* What the queue promises the rest of the platform about a job: it is     *)
(* worked on by one runner at a time; it waits again only when its runner  *)
(* gives it back or is lost; once settled it stays settled; and the live   *)
(* jobs of one dedupe key stay few.  JobQueue implements it as long as     *)
(* heartbeats arrive and no operator touches a row but by switching a year *)
(* off (run queue_service, theorem QueueImplementsLifecycle).              *)
(***************************************************************************)
CONSTANTS
  Jobs, Kinds, Runners, Nobody,
  LiveTogether \* sets of jobs of one key that may be live at the same time

VARIABLES
  phase, \* [Jobs -> absent, waiting, working or settled]
  key,   \* [Jobs -> Kinds], the dedupe key of a submitted job
  owner  \* [Jobs -> Runners or Nobody], who works on it

vars == <<phase, key, owner>>

Live(j) == phase[j] \in {"waiting", "working"}
Owned(r) == {j \in Jobs : owner[j] = r}

Init ==
  /\ phase = [j \in Jobs |-> "absent"]
  /\ key \in [Jobs -> Kinds]
  /\ owner = [j \in Jobs |-> Nobody]

\* A job is accepted unless enough live ones have its key.
Submit(j, k) ==
  /\ phase[j] = "absent"
  /\ {j} \cup {i \in Jobs : Live(i) /\ key[i] = k} \in LiveTogether
  /\ phase' = [phase EXCEPT ![j] = "waiting"]
  /\ key' = [key EXCEPT ![j] = k]
  /\ UNCHANGED owner

\* A free runner takes a waiting job.
Take(r, j) ==
  /\ phase[j] = "waiting"
  /\ Owned(r) = {}
  /\ phase' = [phase EXCEPT ![j] = "working"]
  /\ owner' = [owner EXCEPT ![j] = r]
  /\ UNCHANGED key

\* Its owner gives it back or settles it.
GiveBack(j) ==
  /\ owner[j] # Nobody
  /\ phase' = [phase EXCEPT ![j] = "waiting"]
  /\ owner' = [owner EXCEPT ![j] = Nobody]
  /\ UNCHANGED key

Settle(j) ==
  /\ owner[j] # Nobody
  /\ phase' = [phase EXCEPT ![j] = "settled"]
  /\ owner' = [owner EXCEPT ![j] = Nobody]
  /\ UNCHANGED key

\* Runners are lost with what they own, which waits again at some later time.
Abandon(R) ==
  /\ \E r \in R : Owned(r) # {}
  /\ owner' = [j \in Jobs |-> IF owner[j] \in R THEN Nobody ELSE owner[j]]
  /\ UNCHANGED <<phase, key>>

Reclaim(S) ==
  /\ S # {}
  /\ \A j \in S : phase[j] = "working" /\ owner[j] = Nobody
  /\ phase' = [j \in Jobs |-> IF j \in S THEN "waiting" ELSE phase[j]]
  /\ UNCHANGED <<key, owner>>

\* Jobs that wait may be withdrawn.
Withdraw(S) ==
  /\ \A j \in S : phase[j] = "waiting"
  /\ phase' = [j \in Jobs |-> IF j \in S THEN "settled" ELSE phase[j]]
  /\ UNCHANGED <<key, owner>>

Next ==
  \/ \E j \in Jobs, k \in Kinds : Submit(j, k)
  \/ \E r \in Runners, j \in Jobs : Take(r, j)
  \/ \E j \in Jobs : GiveBack(j) \/ Settle(j)
  \/ \E R \in SUBSET Runners : Abandon(R)
  \/ \E S \in SUBSET Jobs : Reclaim(S) \/ Withdraw(S)

Spec == Init /\ [][Next]_vars
=============================================================================

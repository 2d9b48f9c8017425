----------------------------- MODULE MCJobQueue -----------------------------
(* Instances of JobQueue for TLC: values for its function constants.        *)
EXTENDS JobQueue, TLC, FiniteSetsExt

CONSTANTS k1, k2, k3, w1, w2, p1, p2, r1, r2, y1

OneWorkspace  == [k \in Kinds |-> w1]
OwnWorkspaces == k1 :> w1 @@ k2 :> w2

\* Nothing of a row can be paused; each row by its workspace; the year is
\* written on one of two rows only (a MANUAL_SYNC carries none).
NoScopes        == [k \in Kinds |-> {}]
WorkspaceScopes == [k \in Kinds |-> {OwnWorkspaces[k]}]
YearOnFirst     == k1 :> {y1} @@ k2 :> {}

OneProcess   == [r \in Runners |-> p1]
TwoProcesses == r1 :> p1 @@ r2 :> p2

\* Rows, runners (of one process) and clients are interchangeable, and so are two
\* processes with a runner each; safety runs only.
Interchangeable == Permutations(Jobs) \cup Permutations(Runners)
TwinProcesses   == r1 :> r2 @@ r2 :> r1 @@ p1 :> p2 @@ p2 :> p1
AllTwins        == Permutations(Jobs) \cup Permutations(Clients) \cup {TwinProcesses}

\* What is explored of three rows, for the capacities: claims, completions and the
\* crash, each row claimed once.  Of two rows, everything.
ThreeRowsOnce ==
  (\A j \in Jobs : status[j] # "ABSENT") =>
    /\ breakerOpen = {}
    /\ \A j \in Jobs : status[j] \in {"QUEUED", "RUNNING", "DONE"} /\ attempts[j] <= 1

\* With every fault at once: three attempts and lost processes between the rows.
ThreeAttempts == MapThenSumSet(LAMBDA j : attempts[j], Jobs) + crashes <= 3
=============================================================================

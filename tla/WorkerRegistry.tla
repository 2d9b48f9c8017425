--------------------------- MODULE WorkerRegistry ---------------------------
(***************************************************************************)
(* The registry of worker processes (worker-registry.service.ts) and the   *)
(* part of a worker's life that writes it (workers/sync.worker.ts).        *)
(* A worker id is used once: a restarted process has another.              *)
(* Ages are counted in ticks.                                              *)
(***************************************************************************)
EXTENDS Integers

CONSTANTS
  Workers,
  StaleAge, OfflineAge, PurgeAge  \* workerStaleMs, three times and ten times that

ASSUME RegistryAssumption ==
  /\ StaleAge \in Nat /\ OfflineAge \in Nat /\ PurgeAge \in Nat
  /\ StaleAge <= OfflineAge /\ OfflineAge <= PurgeAge

VARIABLES
  proc,    \* "new", "up", "hung", "draining" or "dead"
  inst,    \* the WorkerInstance row of a worker
  beat,    \* a heartbeat of the worker is under way
  sweep    \* where the orchestrator's reconciliation is

registryVars == <<proc, inst, beat, sweep>>

NoInst == [status |-> "NONE", age |-> 0]
Seen   == [status |-> "HEALTHY", age |-> 0]

Registered(w) == inst[w].status # "NONE"

RegistryTypeOK ==
  /\ proc \in [Workers -> {"new", "up", "hung", "draining", "dead"}]
  /\ inst \in [Workers -> [status : {"NONE", "HEALTHY", "STALE", "OFFLINE"},
                           age : 0 .. PurgeAge + 1]]
  /\ beat \in [Workers -> BOOLEAN]
  /\ sweep \in {"idle", "classify", "purge"}

RegistryInit ==
  /\ proc = [w \in Workers |-> "new"]
  /\ inst = [w \in Workers |-> NoInst]
  /\ beat = [w \in Workers |-> FALSE]
  /\ sweep = "idle"

-----------------------------------------------------------------------------
(* The life of a worker.                                                    *)

RegisterWorker(w) ==
  /\ proc[w] = "new"
  /\ proc' = [proc EXCEPT ![w] = "up"]
  /\ inst' = [inst EXCEPT ![w] = Seen]
  /\ UNCHANGED <<beat, sweep>>

\* The timer fires; it goes on while the loops drain.
SendHeartbeat(w) ==
  /\ proc[w] \in {"up", "draining"} /\ ~ beat[w]
  /\ beat' = [beat EXCEPT ![w] = TRUE]
  /\ UNCHANGED <<proc, inst, sweep>>

\* Mutant: only the time is written.
TimeOnly(i) == [i EXCEPT !.age = 0]

Heard(i) == Seen

\* An update: it finds a row or its error is dropped.
LandHeartbeat(w) ==
  /\ beat[w]
  /\ beat' = [beat EXCEPT ![w] = FALSE]
  /\ inst' = IF Registered(w) THEN [inst EXCEPT ![w] = Heard(@)] ELSE inst
  /\ UNCHANGED <<proc, sweep>>

Stop(w) ==
  /\ proc[w] = "up"
  /\ proc' = [proc EXCEPT ![w] = "draining"]
  /\ UNCHANGED <<inst, beat, sweep>>

\* The loops have drained.  A heartbeat already sent may still land after this.
MarkStopped(w) ==
  /\ proc[w] = "draining"
  /\ proc' = [proc EXCEPT ![w] = "dead"]
  /\ inst' = IF Registered(w) THEN [inst EXCEPT ![w].status = "OFFLINE"] ELSE inst
  /\ UNCHANGED <<beat, sweep>>

Hang(w) ==
  /\ proc[w] = "up"
  /\ proc' = [proc EXCEPT ![w] = "hung"]
  /\ UNCHANGED <<inst, beat, sweep>>

Resume(w) ==
  /\ proc[w] = "hung"
  /\ proc' = [proc EXCEPT ![w] = "up"]
  /\ UNCHANGED <<inst, beat, sweep>>

DieOutright(w) ==
  /\ proc[w] \in {"up", "hung", "draining"}
  /\ proc' = [proc EXCEPT ![w] = "dead"]
  /\ UNCHANGED <<inst, beat, sweep>>

-----------------------------------------------------------------------------
(* reconcileWorkerHealth, run by the orchestrator of any living worker; a   *)
(* sweep that dies half way is taken up by the next.                        *)

SomeoneUp == \E w \in Workers : proc[w] \in {"up", "draining"}

BeginSweep ==
  /\ sweep = "idle" /\ SomeoneUp
  /\ sweep' = "classify"
  /\ UNCHANGED <<proc, inst, beat>>

Reclassified(i) ==
  CASE i.status \in {"HEALTHY", "STALE"} /\ i.age > OfflineAge -> [i EXCEPT !.status = "OFFLINE"]
    [] i.status = "HEALTHY" /\ i.age > StaleAge /\ i.age <= OfflineAge ->
         [i EXCEPT !.status = "STALE"]
    [] OTHER -> i

\* Two updates over disjoint sets of rows, awaited together.
Classify ==
  /\ sweep = "classify" /\ SomeoneUp
  /\ inst' = [w \in Workers |-> Reclassified(inst[w])]
  /\ sweep' = "purge"
  /\ UNCHANGED <<proc, beat>>

\* Mutant: rows already put offline are kept.
PurgedIfStale(i) == i.status = "STALE" /\ i.age > PurgeAge

Purged(i) == i.status # "NONE" /\ i.age > PurgeAge

Purge ==
  /\ sweep = "purge" /\ SomeoneUp
  /\ inst' = [w \in Workers |-> IF Purged(inst[w]) THEN NoInst ELSE inst[w]]
  /\ sweep' = "idle"
  /\ UNCHANGED <<proc, beat>>

\* The timers of a living worker are not later than a tick: one that is later hangs.
TickRegistry ==
  /\ \A w \in Workers :
       proc[w] \in {"up", "draining"} /\ Registered(w) => inst[w].age < StaleAge
  /\ inst' = [w \in Workers |->
                IF Registered(w) /\ inst[w].age <= PurgeAge THEN [inst[w] EXCEPT !.age = @ + 1]
                ELSE inst[w]]
  /\ UNCHANGED <<proc, beat, sweep>>

WorkerStep(w) ==
  \/ RegisterWorker(w) \/ SendHeartbeat(w) \/ LandHeartbeat(w)
  \/ Stop(w) \/ MarkStopped(w) \/ Hang(w) \/ Resume(w) \/ DieOutright(w)

RegistryNext ==
  \/ \E w \in Workers : WorkerStep(w)
  \/ BeginSweep \/ Classify \/ Purge
  \/ TickRegistry

RegistrySpec == RegistryInit /\ [][RegistryNext]_registryVars

\* Time passes, timers fire, statements end and the orchestrator goes round.  Nothing
\* says that a process starts, stops, hangs or comes back.
RegistryFairness ==
  /\ \A w \in Workers : WF_registryVars(SendHeartbeat(w)) /\ WF_registryVars(LandHeartbeat(w))
  /\ WF_registryVars(BeginSweep) /\ WF_registryVars(Classify) /\ WF_registryVars(Purge)
  /\ WF_registryVars(TickRegistry)

-----------------------------------------------------------------------------

\* What activeWorkerCount counts.
Active(w) == inst[w].status = "HEALTHY" /\ inst[w].age <= StaleAge

\* A process that is gone for good is forgotten, a heartbeat that landed after its
\* farewell notwithstanding, as long as another is up to sweep.
DeadIsForgotten ==
  \A w, u \in Workers :
    <>[](proc[w] = "dead") /\ <>[](proc[u] = "up") => <>[](~ Registered(w))

\* A process that is up for good is counted in the end, after any number of hangs
\* and sweeps, unless a hang lasted until its row was purged (it then never
\* registers again).
LivingIsCounted ==
  \A w \in Workers :
    <>[](proc[w] = "up") => <>[](~ Registered(w)) \/ <>[]Active(w)
=============================================================================

-------------------------- MODULE MonitoringProofs --------------------------
(***************************************************************************)
(* What watches over the workers and the queue, for any number of them.    *)
(* Where the components promise that something ends up so, what is proved  *)
(* is that it then stays so until something real happens:                  *)
(*   WorkerRegistry  a status is earned by silence (StatusIsEarned); a     *)
(*                   worker that is up and counted stays counted, one that *)
(*                   is dead and forgotten stays forgotten (RegistryKept); *)
(*   Alerts          overlapping and failing cycles neither resolve the    *)
(*                   alert of a condition that holds nor open one for a    *)
(*                   condition that does not (AlertsKept);                 *)
(*   LiveWall        a screen that shows the data goes on doing so through *)
(*                   late ticks, failures and other screens (WallKept).    *)
(***************************************************************************)
EXTENDS WorkerRegistry, Alerts, LiveWall, TLAPS

-----------------------------------------------------------------------------
(* WorkerRegistry.                                                          *)

\* Rows of workers, and where their processes are, are what they are declared to be.
THEOREM RegistryTypeCorrect == RegistrySpec => []RegistryTypeOK
<1> USE RegistryAssumption
<1>1. RegistryInit => RegistryTypeOK
  BY DEF RegistryInit, RegistryTypeOK, NoInst
<1>2. RegistryTypeOK /\ [RegistryNext]_registryVars => RegistryTypeOK'
  <2> SUFFICES ASSUME RegistryTypeOK, [RegistryNext]_registryVars
               PROVE  RegistryTypeOK'
    OBVIOUS
  <2> USE DEF RegistryTypeOK
  <2>0. /\ Seen \in [status : {"NONE", "HEALTHY", "STALE", "OFFLINE"}, age : 0 .. PurgeAge + 1]
        /\ NoInst \in [status : {"NONE", "HEALTHY", "STALE", "OFFLINE"}, age : 0 .. PurgeAge + 1]
    BY DEF Seen, NoInst
  <2>1. ASSUME NEW w \in Workers, RegisterWorker(w) PROVE RegistryTypeOK'
    BY <2>0, <2>1 DEF RegisterWorker
  <2>2. ASSUME NEW w \in Workers, SendHeartbeat(w) PROVE RegistryTypeOK'
    BY <2>2 DEF SendHeartbeat
  <2>3. ASSUME NEW w \in Workers, LandHeartbeat(w) PROVE RegistryTypeOK'
    BY <2>0, <2>3 DEF LandHeartbeat, Heard
  <2>4. ASSUME NEW w \in Workers, Stop(w) \/ Hang(w) \/ Resume(w) \/ DieOutright(w)
        PROVE  RegistryTypeOK'
    BY <2>4 DEF Stop, Hang, Resume, DieOutright
  <2>5. ASSUME NEW w \in Workers, MarkStopped(w) PROVE RegistryTypeOK'
    BY <2>5 DEF MarkStopped
  <2>6. CASE BeginSweep
    BY <2>6 DEF BeginSweep
  <2>7. CASE Classify
    <3>1. ASSUME NEW w \in Workers
          PROVE  Reclassified(inst[w])
                   \in [status : {"NONE", "HEALTHY", "STALE", "OFFLINE"}, age : 0 .. PurgeAge + 1]
      BY DEF Reclassified
    <3> QED
      BY <2>7, <3>1 DEF Classify
  <2>8. CASE Purge
    BY <2>0, <2>8 DEF Purge
  <2>9. CASE TickRegistry
    <3>1. ASSUME NEW w \in Workers, inst[w].age <= PurgeAge
          PROVE  [inst[w] EXCEPT !.age = @ + 1]
                   \in [status : {"NONE", "HEALTHY", "STALE", "OFFLINE"}, age : 0 .. PurgeAge + 1]
      BY <3>1
    <3> QED
      BY <2>9, <3>1 DEF TickRegistry
  <2>10. CASE UNCHANGED registryVars
    BY <2>10 DEF registryVars
  <2> QED
    BY <2>1, <2>2, <2>3, <2>4, <2>5, <2>6, <2>7, <2>8, <2>9, <2>10 DEF RegistryNext, WorkerStep
<1> QED
  BY <1>1, <1>2, PTL DEF RegistrySpec

\* A row is stale only after a silence of StaleAge; one of a process that lives is
\* offline only after one of OfflineAge.
StatusEarned ==
  \A w \in Workers :
    /\ inst[w].status = "STALE" => inst[w].age > StaleAge
    /\ inst[w].status = "OFFLINE" /\ proc[w] # "dead" => inst[w].age > OfflineAge

\* The sweep never writes a worker off that was heard of lately, however its statements
\* fall between heartbeats (worker-registry.service.ts, reconcileWorkerHealth).
THEOREM StatusIsEarned == RegistrySpec => []StatusEarned
<1> USE RegistryAssumption
<1>1. RegistryInit => StatusEarned
  <2> SUFFICES ASSUME RegistryInit, NEW w \in Workers PROVE inst[w].status = "NONE"
    BY DEF StatusEarned
  <2> QED
    BY DEF RegistryInit, NoInst
<1>2. RegistryTypeOK /\ StatusEarned /\ [RegistryNext]_registryVars => StatusEarned'
  <2> SUFFICES ASSUME RegistryTypeOK, StatusEarned, [RegistryNext]_registryVars,
                      NEW u \in Workers
               PROVE  /\ inst'[u].status = "STALE" => inst'[u].age > StaleAge
                      /\ inst'[u].status = "OFFLINE" /\ proc'[u] # "dead" => inst'[u].age > OfflineAge
    BY DEF StatusEarned
  <2> USE DEF RegistryTypeOK, StatusEarned
  <2>1. ASSUME NEW w \in Workers, RegisterWorker(w) \/ LandHeartbeat(w)
        PROVE  inst'[u] = Seen \/ (inst'[u] = inst[u] /\ proc'[u] = proc[u])
    BY <2>1 DEF RegisterWorker, LandHeartbeat, Heard
  <2>2. ASSUME NEW w \in Workers,
               SendHeartbeat(w) \/ Stop(w) \/ Hang(w) \/ Resume(w) \/ DieOutright(w)
        PROVE  inst'[u] = inst[u] /\ (proc'[u] # "dead" => proc[u] # "dead")
    BY <2>2 DEF SendHeartbeat, Stop, Hang, Resume, DieOutright
  <2>3. ASSUME NEW w \in Workers, MarkStopped(w)
        PROVE  IF u = w THEN proc'[u] = "dead" /\ inst'[u].status \in {"NONE", "OFFLINE"}
               ELSE inst'[u] = inst[u] /\ proc'[u] = proc[u]
    BY <2>3 DEF MarkStopped, Registered
  <2>4. CASE Classify
    BY <2>4 DEF Classify, Reclassified
  <2>5. CASE Purge
    BY <2>5 DEF Purge, NoInst
  <2>6. CASE TickRegistry
    BY <2>6 DEF TickRegistry
  <2>7. CASE BeginSweep \/ UNCHANGED registryVars
    BY <2>7 DEF BeginSweep, registryVars
  <2> QED
    BY <2>1, <2>2, <2>3, <2>4, <2>5, <2>6, <2>7 DEF RegistryNext, WorkerStep, Seen
<1> QED
  BY <1>1, <1>2, RegistryTypeCorrect, PTL DEF RegistrySpec

\* While it stays up, a worker that is counted stays counted; one that is dead and
\* forgotten is never registered again, late heartbeats notwithstanding.
RegistryKept ==
  [][\A w \in Workers :
       /\ proc[w] = "up" /\ Active(w) /\ proc'[w] = "up" => Active(w)'
       /\ proc[w] = "dead" /\ ~ Registered(w) => proc'[w] = "dead" /\ ~ Registered(w)']_registryVars

\* What DeadIsForgotten and LivingIsCounted end in, the registry keeps.
THEOREM RegistryIsKept == RegistrySpec => RegistryKept
<1> USE RegistryAssumption
<1>1. ASSUME RegistryTypeOK, RegistryNext, NEW u \in Workers
      PROVE  /\ proc[u] = "up" /\ Active(u) /\ proc'[u] = "up" => Active(u)'
             /\ proc[u] = "dead" /\ ~ Registered(u) => proc'[u] = "dead" /\ ~ Registered(u)'
  <2> USE <1>1 DEF RegistryTypeOK, Active, Registered
  <2>1. ASSUME NEW w \in Workers, RegisterWorker(w)
        PROVE  (inst'[u] = Seen /\ proc[u] = "new") \/ (inst'[u] = inst[u] /\ proc'[u] = proc[u])
    BY <2>1 DEF RegisterWorker
  <2>2. ASSUME NEW w \in Workers, LandHeartbeat(w)
        PROVE  proc'[u] = proc[u] /\ (inst'[u] = inst[u] \/ (inst'[u] = Seen /\ inst[u].status # "NONE"))
    BY <2>2 DEF LandHeartbeat, Heard
  <2>3. ASSUME NEW w \in Workers,
               SendHeartbeat(w) \/ Stop(w) \/ Hang(w) \/ Resume(w) \/ DieOutright(w)
        PROVE  inst'[u] = inst[u] /\ (proc[u] = "dead" => proc'[u] = "dead")
    BY <2>3 DEF SendHeartbeat, Stop, Hang, Resume, DieOutright
  <2>4. ASSUME NEW w \in Workers, MarkStopped(w)
        PROVE  /\ proc'[u] = "dead" \/ (inst'[u] = inst[u] /\ proc'[u] = proc[u])
               /\ inst[u].status = "NONE" => inst'[u] = inst[u]
    BY <2>4 DEF MarkStopped
  <2>5. CASE Classify
    BY <2>5 DEF Classify, Reclassified
  <2>6. CASE Purge
    BY <2>6 DEF Purge, Purged, NoInst
  <2>7. CASE TickRegistry
    BY <2>7 DEF TickRegistry
  <2>8. CASE BeginSweep
    BY <2>8 DEF BeginSweep
  <2> QED
    BY <2>1, <2>2, <2>3, <2>4, <2>5, <2>6, <2>7, <2>8 DEF RegistryNext, WorkerStep, Seen
<1>2. RegistryTypeOK /\ [RegistryNext]_registryVars =>
        [\A w \in Workers :
           /\ proc[w] = "up" /\ Active(w) /\ proc'[w] = "up" => Active(w)'
           /\ proc[w] = "dead" /\ ~ Registered(w) => proc'[w] = "dead" /\ ~ Registered(w)']_registryVars
  BY <1>1
<1> QED
  BY <1>2, RegistryTypeCorrect, PTL DEF RegistrySpec, RegistryKept

-----------------------------------------------------------------------------
(* Alerts.                                                                  *)

Cycles == [step : {"idle", "detect", "clear"} \cup Faults, todo : SUBSET Faults,
           holding : SUBSET Faults, found : Statuses, raised : SUBSET Faults]

\* A cycle that rests, and one that begins.
LEMMA BetweenIsCycle ==
  LET begun == [Between EXCEPT !.step = "detect", !.todo = Faults]
  IN  /\ Between \in Cycles /\ Between.step = "idle"
      /\ begun \in Cycles /\ begun.step = "detect" /\ begun.todo = Faults /\ begun.holding = {}
      /\ Between.holding = {}
BY DEF Between, Cycles, Statuses

\* A cycle that has raised an alert goes on.
LEMMA CycleGoesOn ==
  ASSUME NEW c \in Cycles, NEW raised \in SUBSET Faults
  PROVE  [c EXCEPT !.step = "detect", !.found = "NONE", !.raised = raised] \in Cycles
BY DEF Cycles, Statuses

\* Rows of alerts and detector cycles are what they are declared to be.
THEOREM AlertsTypeCorrect == AlertsSpec => []AlertsTypeOK
<1> USE AlertsAssumption
<1>1. AlertsInit => AlertsTypeOK
  BY BetweenIsCycle DEF AlertsInit, AlertsStart, AlertsTypeOK, Statuses, Cycles
<1>2. AlertsTypeOK /\ [AlertsNext]_alertVars => AlertsTypeOK'
  <2> SUFFICES ASSUME AlertsTypeOK, [AlertsNext]_alertVars
               PROVE  AlertsTypeOK'
    OBVIOUS
  <2>0. /\ faulty \subseteq Faults /\ alerts \in [Faults -> Statuses]
        /\ cycle \in [Detectors -> Cycles] /\ mishaps \in 0 .. MaxMishaps
    BY DEF AlertsTypeOK, Cycles
  <2> SUFFICES /\ faulty' \subseteq Faults /\ alerts' \in [Faults -> Statuses]
               /\ cycle' \in [Detectors -> Cycles] /\ mishaps' \in 0 .. MaxMishaps
    BY DEF AlertsTypeOK, Cycles
  <2>1. ASSUME NEW d \in Detectors, BeginCycle(d) \/ EndCycle(d)
        PROVE  UNCHANGED <<faulty, alerts, mishaps>> /\ cycle' \in [Detectors -> Cycles]
    BY <2>0, <2>1, BetweenIsCycle DEF BeginCycle, EndCycle
  <2>2. ASSUME NEW d \in Detectors, Detect(d)
        PROVE  UNCHANGED <<faulty, alerts, mishaps>> /\ cycle' \in [Detectors -> Cycles]
    <3>1. PICK ks \in SUBSET cycle[d].todo :
            cycle' = [cycle EXCEPT ![d].todo = @ \ ks, ![d].holding = ks \cap faulty]
      BY <2>2 DEF Detect
    <3>2. ks \in SUBSET Faults
      BY <2>0, <3>1 DEF Cycles
    <3>3. cycle' \in [Detectors -> Cycles]
      BY <2>0, <3>1, <3>2 DEF Cycles
    <3> QED
      BY <2>2, <3>3 DEF Detect
  <2>a. ASSUME NEW d \in Detectors, LookUp(d)
        PROVE  UNCHANGED <<faulty, alerts, mishaps>> /\ cycle' \in [Detectors -> Cycles]
    <3>1. PICK k \in cycle[d].holding :
            cycle' = [cycle EXCEPT ![d].holding = @ \ {k}, ![d].step = k, ![d].found = alerts[k]]
      BY <2>a DEF LookUp
    <3>2. k \in Faults /\ alerts[k] \in Statuses
      BY <2>0, <3>1 DEF Cycles
    <3>3. PICK step, found :
            /\ cycle' = [cycle EXCEPT ![d].holding = @ \ {k}, ![d].step = step, ![d].found = found]
            /\ step \in {"idle", "detect", "clear"} \cup Faults /\ found \in Statuses
      BY <3>1, <3>2
    <3>4. cycle' \in [Detectors -> Cycles]
      BY <2>0, <3>3 DEF Cycles
    <3> QED
      BY <2>a, <3>4 DEF LookUp
  <2>3. ASSUME NEW d \in Detectors, Raise(d)
        PROVE  /\ UNCHANGED <<faulty, mishaps>> /\ cycle' \in [Detectors -> Cycles]
               /\ alerts' \in [Faults -> Statuses]
    <3> DEFINE k == cycle[d].step
    <3>1. k \in Faults /\ Raised(cycle[d].found, alerts[k]) \in Statuses /\ "NONE" \in Statuses
      BY <2>0, <2>3 DEF Raise, Raised, Statuses
    <3>2. PICK raised \in SUBSET Faults :
            cycle' = [cycle EXCEPT ![d].step = "detect", ![d].found = "NONE", ![d].raised = raised]
      <4>1. cycle[d].raised \cup {k} \in SUBSET Faults
        BY <2>0, <3>1 DEF Cycles
      <4> QED
        BY <2>3, <4>1 DEF Raise
    <3>3. cycle' \in [Detectors -> Cycles]
      <4> DEFINE next == [cycle[d] EXCEPT !.step = "detect", !.found = "NONE", !.raised = raised]
      <4>1. next \in Cycles
        BY <2>0, CycleGoesOn
      <4>2. cycle' = [cycle EXCEPT ![d] = next]
        BY <3>2, Zenon
      <4> HIDE DEF next
      <4> QED
        BY <2>0, <4>1, <4>2
    <3>4. alerts' \in [Faults -> Statuses] /\ UNCHANGED <<faulty, mishaps>>
      <4>1. alerts' = [alerts EXCEPT ![k] = Raised(cycle[d].found, alerts[k])]
            /\ UNCHANGED <<faulty, mishaps>>
        BY <2>3 DEF Raise
      <4> HIDE DEF k
      <4> QED
        BY <2>0, <3>1, <4>1
    <3> QED
      BY <3>3, <3>4
  <2>4. ASSUME NEW d \in Detectors, ReadUnresolved(d)
        PROVE  UNCHANGED <<faulty, alerts, mishaps>> /\ cycle' \in [Detectors -> Cycles]
    <3>1. Cleared(d) \in SUBSET Faults
      BY DEF Cleared, Unresolved
    <3>2. PICK todo \in SUBSET Faults :
            cycle' = [cycle EXCEPT ![d].step = "clear", ![d].todo = todo]
      BY <2>4, <3>1 DEF ReadUnresolved
    <3>3. cycle' \in [Detectors -> Cycles]
      BY <2>0, <3>2 DEF Cycles
    <3> QED
      BY <2>4, <3>3 DEF ReadUnresolved
  <2>5. ASSUME NEW d \in Detectors, AutoResolve(d)
        PROVE  /\ UNCHANGED <<faulty, mishaps>> /\ cycle' \in [Detectors -> Cycles]
               /\ alerts' \in [Faults -> Statuses]
    BY <2>0, <2>5 DEF AutoResolve, Cycles, Statuses
  <2>6. ASSUME NEW d \in Detectors, FailCycle(d)
        PROVE  UNCHANGED <<faulty, alerts>> /\ cycle' \in [Detectors -> Cycles]
               /\ mishaps' \in 0 .. MaxMishaps
    BY <2>0, <2>6, BetweenIsCycle DEF FailCycle, Mishap
  <2>7. CASE ConditionChanges
    BY <2>0, <2>7 DEF ConditionChanges, Mishap
  <2>8. CASE AcknowledgeAlert \/ ResolveAlert
    BY <2>0, <2>8 DEF AcknowledgeAlert, ResolveAlert, Mishap, Statuses
  <2>9. CASE UNCHANGED alertVars
    BY <2>0, <2>9 DEF alertVars
  <2> QED
    BY <2>0, <2>1, <2>2, <2>a, <2>3, <2>4, <2>5, <2>6, <2>7, <2>8, <2>9 DEF AlertsNext, CycleStep
<1> QED
  BY <1>1, <1>2, PTL DEF AlertsSpec

\* The alert of a condition that holds is unresolved, and no cycle is going to
\* resolve it: each has still to look at the condition or has seen it.
Told(k) ==
  /\ k \in faulty /\ k \in Unresolved
  /\ \A d \in Detectors :
       /\ cycle[d].step \in {"detect"} \cup Faults =>
            k \in cycle[d].todo \cup cycle[d].holding \cup cycle[d].raised \cup {cycle[d].step}
       /\ cycle[d].step = "clear" => k \notin cycle[d].todo

\* That of a condition that does not is resolved, if there is one, and no cycle has
\* seen it and is about to raise it.
Quiet(k) ==
  /\ k \notin faulty /\ k \notin Unresolved
  /\ \A d \in Detectors : cycle[d].step # k /\ k \notin cycle[d].holding

StaffResolve(k)     == ResolveAlert /\ alerts'[k] = "RESOLVED"
StaffAcknowledge(k) == AcknowledgeAlert /\ alerts'[k] = "ACKNOWLEDGED"

\* What the cycles have told they go on telling, until the condition changes or staff
\* write the alert.
AlertsKept ==
  [][\A k \in Faults :
       /\ Told(k) /\ k \in faulty' /\ ~ StaffResolve(k) => Told(k)'
       /\ Quiet(k) /\ k \notin faulty' /\ ~ StaffAcknowledge(k) => Quiet(k)']_alertVars

\* What AlertsFollow ends in, the detectors keep.
THEOREM AlertsAreKept == AlertsSpec => AlertsKept
<1> USE AlertsAssumption
<1>1. ASSUME AlertsTypeOK, AlertsNext, NEW k \in Faults
      PROVE  /\ Told(k) /\ k \in faulty' /\ ~ StaffResolve(k) => Told(k)'
             /\ Quiet(k) /\ k \notin faulty' /\ ~ StaffAcknowledge(k) => Quiet(k)'
  <2>0. /\ alerts \in [Faults -> Statuses] /\ cycle \in [Detectors -> Cycles]
        /\ k \notin {"idle", "detect", "clear"}
    BY <1>1 DEF AlertsTypeOK, Cycles
  <2> DEFINE Goal == (Told(k) => Told(k)') /\ (Quiet(k) => Quiet(k)')
  <2> USE DEF Told, Quiet, Unresolved
  <2>1. ASSUME NEW d \in Detectors, BeginCycle(d) \/ EndCycle(d) \/ FailCycle(d) PROVE Goal
    <3>1. /\ faulty' = faulty /\ alerts' = alerts
          /\ \/ cycle' = [cycle EXCEPT ![d] = [Between EXCEPT !.step = "detect", !.todo = Faults]]
             \/ cycle' = [cycle EXCEPT ![d] = Between]
      BY <2>1 DEF BeginCycle, EndCycle, FailCycle
    <3>2. \A e \in Detectors : e # d => cycle'[e] = cycle[e]
      BY <2>0, <3>1
    <3>3. /\ cycle'[d].holding = {}
          /\ \/ cycle'[d].step = "detect" /\ cycle'[d].todo = Faults
             \/ cycle'[d].step = "idle"
      <4> DEFINE begun == [Between EXCEPT !.step = "detect", !.todo = Faults]
      <4> HIDE DEF begun
      <4>1. cycle'[d] = begun \/ cycle'[d] = Between
        BY <2>0, <3>1 DEF begun
      <4> QED
        BY <4>1, BetweenIsCycle DEF begun
    <3>4. faulty' = faulty /\ alerts' = alerts
      BY <3>1
    <3>5. Told(k) => Told(k)'
      <4> SUFFICES ASSUME Told(k), NEW e \in Detectors
                   PROVE  /\ cycle'[e].step \in {"detect"} \cup Faults =>
                               k \in cycle'[e].todo \cup cycle'[e].holding
                                       \cup cycle'[e].raised \cup {cycle'[e].step}
                          /\ cycle'[e].step = "clear" => k \notin cycle'[e].todo
        BY <3>4
      <4> QED
        BY <3>2, <3>3
    <3>6. Quiet(k) => Quiet(k)'
      BY <2>0, <3>2, <3>3, <3>4
    <3> QED
      BY <3>5, <3>6
  <2>2. ASSUME NEW d \in Detectors, Detect(d) PROVE Goal
    <3>1. PICK ks \in SUBSET cycle[d].todo :
            cycle' = [cycle EXCEPT ![d].todo = @ \ ks, ![d].holding = ks \cap faulty]
      BY <2>2 DEF Detect
    <3>2. /\ faulty' = faulty /\ alerts' = alerts
          /\ cycle[d].step = "detect" /\ cycle[d].holding = {}
          /\ \A e \in Detectors : e # d => cycle'[e] = cycle[e]
          /\ cycle'[d].todo = cycle[d].todo \ ks /\ cycle'[d].holding = ks \cap faulty
          /\ cycle'[d].raised = cycle[d].raised /\ cycle'[d].step = "detect"
      BY <2>0, <2>2, <3>1 DEF Detect, Cycles
    <3> QED
      BY <2>0, <3>2
  <2>a. ASSUME NEW d \in Detectors, LookUp(d) PROVE Goal
    <3>1. PICK i \in cycle[d].holding :
            cycle' = [cycle EXCEPT ![d].holding = @ \ {i}, ![d].step = i, ![d].found = alerts[i]]
      BY <2>a DEF LookUp
    <3>2. /\ i \in Faults /\ faulty' = faulty /\ alerts' = alerts /\ cycle[d].step = "detect"
          /\ \A e \in Detectors : e # d => cycle'[e] = cycle[e]
          /\ cycle'[d].todo = cycle[d].todo /\ cycle'[d].raised = cycle[d].raised
          /\ cycle'[d].holding = cycle[d].holding \ {i} /\ cycle'[d].step = i
      BY <2>0, <2>a, <3>1 DEF LookUp, Cycles
    <3> QED
      BY <2>0, <3>2
  <2>3. ASSUME NEW d \in Detectors, Raise(d) PROVE Goal
    <3> DEFINE i == cycle[d].step
    <3>1. /\ i \in Faults /\ faulty' = faulty
          /\ alerts' = [alerts EXCEPT ![i] = Raised(cycle[d].found, @)]
          /\ \A e \in Detectors : e # d => cycle'[e] = cycle[e]
          /\ cycle'[d].todo = cycle[d].todo /\ cycle'[d].raised = cycle[d].raised \cup {i}
          /\ cycle'[d].holding = cycle[d].holding
          /\ cycle'[d].step = "detect"
      BY <2>0, <2>3 DEF Raise, Cycles
    <3>2. /\ \A x \in Faults : x # i => alerts'[x] = alerts[x]
          /\ alerts[i] \in {"OPEN", "ACKNOWLEDGED"} => alerts'[i] \in {"OPEN", "ACKNOWLEDGED"}
      BY <2>0, <3>1 DEF Raised
    <3> QED
      BY <2>0, <3>1, <3>2
  <2>4. ASSUME NEW d \in Detectors, ReadUnresolved(d) PROVE Goal
    <3>1. /\ faulty' = faulty /\ alerts' = alerts
          /\ cycle[d].step = "detect" /\ cycle[d].todo = {}
          /\ cycle[d].holding = {} /\ cycle'[d].holding = {}
          /\ \A e \in Detectors : e # d => cycle'[e] = cycle[e]
          /\ cycle'[d].step = "clear" /\ cycle'[d].todo = Unresolved \ cycle[d].raised
      BY <2>0, <2>4 DEF ReadUnresolved, Cleared, Cycles
    <3> QED
      BY <2>0, <3>1
  <2>5. ASSUME NEW d \in Detectors, AutoResolve(d) PROVE Goal
    <3>1. PICK i \in cycle[d].todo :
            /\ alerts' = [alerts EXCEPT ![i] = "RESOLVED"]
            /\ cycle' = [cycle EXCEPT ![d].todo = @ \ {i}]
      BY <2>5 DEF AutoResolve
    <3>2. /\ i \in Faults /\ faulty' = faulty /\ cycle[d].step = "clear"
          /\ \A e \in Detectors : e # d => cycle'[e] = cycle[e]
          /\ cycle'[d].step = "clear" /\ cycle'[d].todo = cycle[d].todo \ {i}
          /\ cycle'[d].holding = cycle[d].holding
          /\ \A x \in Faults : x # i => alerts'[x] = alerts[x]
          /\ alerts'[i] = "RESOLVED"
      BY <2>0, <2>5, <3>1 DEF AutoResolve, Cycles
    <3> QED
      BY <2>0, <3>1, <3>2
  <2>6. CASE ConditionChanges
    <3>1. alerts' = alerts /\ cycle' = cycle
      BY <2>6 DEF ConditionChanges
    <3> QED
      BY <3>1
  <2>7. CASE AcknowledgeAlert
    <3>1. PICK i \in Faults : alerts' = [alerts EXCEPT ![i] = "ACKNOWLEDGED"]
      BY <2>7 DEF AcknowledgeAlert
    <3>2. faulty' = faulty /\ cycle' = cycle /\ alerts'[i] = "ACKNOWLEDGED"
          /\ \A x \in Faults : x # i => alerts'[x] = alerts[x]
      BY <2>0, <2>7, <3>1 DEF AcknowledgeAlert
    <3> QED
      BY <2>7, <3>2 DEF StaffAcknowledge
  <2>8. CASE ResolveAlert
    <3>1. PICK i \in Faults : alerts' = [alerts EXCEPT ![i] = "RESOLVED"]
      BY <2>8 DEF ResolveAlert
    <3>2. faulty' = faulty /\ cycle' = cycle /\ alerts'[i] = "RESOLVED"
          /\ \A x \in Faults : x # i => alerts'[x] = alerts[x]
      BY <2>0, <2>8, <3>1 DEF ResolveAlert
    <3> QED
      BY <2>8, <3>2 DEF StaffResolve
  <2> HIDE DEF Told, Quiet
  <2> QED
    BY <1>1, <2>1, <2>2, <2>a, <2>3, <2>4, <2>5, <2>6, <2>7, <2>8 DEF AlertsNext, CycleStep
<1>2. AlertsTypeOK /\ [AlertsNext]_alertVars =>
        [\A k \in Faults :
           /\ Told(k) /\ k \in faulty' /\ ~ StaffResolve(k) => Told(k)'
           /\ Quiet(k) /\ k \notin faulty' /\ ~ StaffAcknowledge(k) => Quiet(k)']_alertVars
  BY <1>1
<1> QED
  BY <1>2, AlertsTypeCorrect, PTL DEF AlertsSpec, AlertsKept

-----------------------------------------------------------------------------
(* LiveWall.                                                                *)

Memos   == [MemoTiles -> [at : 0 .. MaxData, age : 0 .. OldAge]]
Frames  == Snapshots \cup {NoFrame}
Screens == [here : BOOLEAN, shows : Frames]

\* A snapshot is one, and asking keeps the memo one.
LEMMA AskedIsMemo ==
  ASSUME WallTypeOK
  PROVE  /\ Asked \in Memos
         /\ \A lost \in SUBSET LiveTiles : ComputeSnapshot(lost) \in Snapshots
<1> USE WallAssumption DEF WallTypeOK
<1>1. 0 \in 0 .. OldAge /\ data \in 0 .. MaxData
  BY DEF OldAge
<1>2. Asked \in Memos
  BY <1>1 DEF Asked, Memos
<1>3. ASSUME NEW lost \in SUBSET LiveTiles
      PROVE  ComputeSnapshot(lost) \in Snapshots
  <2>1. \A t \in MemoTiles : Asked[t].at \in 0 .. MaxData
    BY <1>2 DEF Memos
  <2>2. 0 .. MaxData \subseteq 0 .. MaxData + 1 /\ Missing \in 0 .. MaxData + 1
    BY DEF Missing
  <2> QED
    BY <1>1, <2>1, <2>2 DEF ComputeSnapshot, Snapshots
<1> QED
  BY <1>2, <1>3

\* The memo, the frames and the screens are what they are declared to be.
THEOREM WallTypeCorrect == WallSpec => []WallTypeOK
<1> USE WallAssumption
<1>0. OldAge \in Nat
  BY DEF OldAge
<1>1. WallInit => WallTypeOK
  BY <1>0 DEF WallInit, WallTypeOK, Away
<1>2. WallTypeOK /\ [WallNext]_wallVars => WallTypeOK'
  <2> SUFFICES ASSUME WallTypeOK, [WallNext]_wallVars
               PROVE  WallTypeOK'
    OBVIOUS
  <2>0. /\ data \in 0 .. MaxData /\ memo \in Memos /\ ticking \in [Ticks -> Frames]
        /\ payload \in [frame : Frames, age : 0 .. OldAge] /\ screens \in [Viewers -> Screens]
        /\ upsets \in 0 .. MaxUpsets
    BY DEF WallTypeOK, Memos, Frames, Screens
  <2> SUFFICES /\ data' \in 0 .. MaxData /\ memo' \in Memos /\ ticking' \in [Ticks -> Frames]
               /\ payload' \in [frame : Frames, age : 0 .. OldAge]
               /\ screens' \in [Viewers -> Screens] /\ upsets' \in 0 .. MaxUpsets
    BY DEF WallTypeOK, Memos, Frames, Screens
  <2>1. Asked \in Memos /\ \A lost \in SUBSET LiveTiles : ComputeSnapshot(lost) \in Frames
    BY AskedIsMemo DEF Frames
  <2>2. /\ NoFrame \in Frames /\ Away \in Screens
        /\ [frame |-> NoFrame, age |-> OldAge] \in [frame : Frames, age : 0 .. OldAge]
    BY <1>0 DEF Frames, Screens, Away
  <2>3. Upset => upsets' \in 0 .. MaxUpsets
    BY <2>0 DEF Upset
  <2> HIDE DEF NoFrame
  <2>4. ASSUME NEW k \in Ticks, TimerTick(k)
        PROVE  /\ UNCHANGED <<data, payload, screens>> /\ memo' \in Memos
               /\ ticking' \in [Ticks -> Frames] /\ upsets' \in 0 .. MaxUpsets
    BY <2>0, <2>1, <2>3, <2>4 DEF TimerTick, StartTick
  <2>5. ASSUME NEW k \in Ticks, EndTick(k)
        PROVE  /\ UNCHANGED <<data, memo, upsets>> /\ ticking' \in [Ticks -> Frames]
               /\ payload' \in [frame : Frames, age : 0 .. OldAge] /\ screens' \in [Viewers -> Screens]
    <3>1. ticking[k] \in Frames /\ 0 \in 0 .. OldAge
      BY <1>0, <2>0
    <3>2. payload' \in [frame : Frames, age : 0 .. OldAge] /\ ticking' \in [Ticks -> Frames]
      BY <2>0, <2>2, <2>5, <3>1 DEF EndTick
    <3>3. screens' \in [Viewers -> Screens]
      <4>1. \A v \in Viewers : screens[v] \in Screens /\ [screens[v] EXCEPT !.shows = ticking[k]] \in Screens
        BY <2>0, <3>1 DEF Screens
      <4> QED
        BY <2>5, <4>1 DEF EndTick
    <3> QED
      BY <2>5, <3>2, <3>3 DEF EndTick
  <2>6. ASSUME NEW k \in Ticks, FailTick(k)
        PROVE  /\ UNCHANGED <<data, payload, screens>> /\ memo' \in Memos
               /\ ticking' \in [Ticks -> Frames] /\ upsets' \in 0 .. MaxUpsets
    <3>1. PICK t \in MemoTiles : memo' = [memo EXCEPT ![t].age = OldAge]
      BY <2>6 DEF FailTick
    <3>2. memo' \in Memos
      BY <1>0, <2>0, <3>1 DEF Memos
    <3> QED
      BY <2>0, <2>2, <2>3, <2>6, <3>2 DEF FailTick
  <2>7. ASSUME NEW v \in Viewers, JoinPrimed(v)
        PROVE  /\ UNCHANGED <<data, memo, ticking, payload>>
               /\ screens' \in [Viewers -> Screens] /\ upsets' \in 0 .. MaxUpsets
    <3>1. [here |-> TRUE, shows |-> payload.frame] \in Screens
      BY <2>0 DEF Screens
    <3> QED
      BY <2>0, <2>3, <2>7, <3>1 DEF JoinPrimed
  <2>8. ASSUME NEW v \in Viewers, JoinBlank(v)
        PROVE  /\ UNCHANGED <<data, payload>> /\ memo' \in Memos /\ ticking' \in [Ticks -> Frames]
               /\ screens' \in [Viewers -> Screens] /\ upsets' \in 0 .. MaxUpsets
    <3>1. [here |-> TRUE, shows |-> NoFrame] \in Screens
      BY <2>2 DEF Screens
    <3> QED
      BY <2>0, <2>1, <2>3, <2>8, <3>1 DEF JoinBlank
  <2>9. ASSUME NEW v \in Viewers, Leave(v)
        PROVE  /\ UNCHANGED <<data, memo, ticking>>
               /\ payload' \in [frame : Frames, age : 0 .. OldAge]
               /\ screens' \in [Viewers -> Screens] /\ upsets' \in 0 .. MaxUpsets
    BY <2>0, <2>2, <2>3, <2>9 DEF Leave
  <2>10. CASE DataChanges
    BY <2>0, <2>10 DEF DataChanges
  <2>11. CASE TimePasses
    <3>1. \A age \in 0 .. OldAge : Aged(age) \in 0 .. OldAge
      BY <1>0 DEF Aged
    <3>2. memo' \in Memos
      <4>1. \A t \in MemoTiles : [memo[t] EXCEPT !.age = Aged(@)] \in [at : 0 .. MaxData, age : 0 .. OldAge]
        BY <2>0, <3>1 DEF Memos
      <4> QED
        BY <2>11, <4>1 DEF TimePasses, Memos
    <3>3. payload' \in [frame : Frames, age : 0 .. OldAge]
      BY <2>0, <2>11, <3>1 DEF TimePasses
    <3> QED
      BY <2>0, <2>11, <3>2, <3>3 DEF TimePasses
  <2>12. CASE UNCHANGED wallVars
    BY <2>0, <2>12 DEF wallVars
  <2> QED
    BY <2>0, <2>4, <2>5, <2>6, <2>7, <2>8, <2>9, <2>10, <2>11, <2>12 DEF WallNext
<1> QED
  BY <1>1, <1>2, PTL DEF WallSpec

Truth == [t \in Tiles |-> data]

\* A screen shows the data, and nothing older is left in the memo or under way.
CaughtUp(v) ==
  /\ screens[v].here /\ screens[v].shows = Truth
  /\ \A t \in MemoTiles : Hit(t) => memo[t].at = data
  /\ \A k \in Ticks : ticking[k] \in {NoFrame, Truth}

\* No snapshot under way lacks a tile.
Whole == \A k \in Ticks, t \in Tiles : ticking[k] # NoFrame => ticking[k][t] # Missing

\* A screen that has caught up stays so while it is connected, the data stays and no
\* query fails: late ticks, keepalives, failing memos and other screens notwithstanding.
WallKept ==
  [][\A v \in Viewers :
       CaughtUp(v) /\ data' = data /\ screens'[v].here /\ Whole' => CaughtUp(v)']_wallVars

\* A snapshot of the data without a tile has a hole; with all of them and a memo that is
\* right it is the data.
LEMMA SnapshotTells ==
  ASSUME NEW lost \in SUBSET LiveTiles, \A t \in MemoTiles : Hit(t) => memo[t].at = data
  PROVE  /\ \A t \in lost : t \in Tiles /\ ComputeSnapshot(lost)[t] = Missing
         /\ lost = {} => ComputeSnapshot(lost) = Truth
         /\ \A t \in MemoTiles : Asked[t].at = data
<1>1. \A t \in MemoTiles : Asked[t].at = data
  BY DEF Asked
<1>2. \A t \in lost : t \in Tiles /\ ComputeSnapshot(lost)[t] = Missing
  BY DEF Tiles, ComputeSnapshot
<1>3. lost = {} => ComputeSnapshot(lost) = Truth
  BY <1>1 DEF ComputeSnapshot, Truth
<1> QED
  BY <1>1, <1>2, <1>3

\* What ViewersCatchUp ends in, the wall keeps.
THEOREM WallIsKept == WallSpec => WallKept
<1> USE WallAssumption
<1>1. ASSUME WallTypeOK, WallNext, NEW v \in Viewers,
             CaughtUp(v), data' = data, screens'[v].here, Whole'
      PROVE  CaughtUp(v)'
  <2>1. /\ memo \in Memos /\ ticking \in [Ticks -> Frames] /\ screens \in [Viewers -> Screens]
    BY <1>1 DEF WallTypeOK, Memos, Frames, Screens
  <2>2. Truth' = Truth
    BY <1>1 DEF Truth
  <2> SUFFICES /\ screens'[v].shows = Truth
               /\ \A t \in MemoTiles : memo'[t].age < MemoTtl => memo'[t].at = data
               /\ \A k \in Ticks : ticking'[k] \in {NoFrame, Truth}
    BY <1>1, <2>2 DEF CaughtUp, Hit
  <2>3. /\ screens[v].here /\ screens[v].shows = Truth
        /\ \A t \in MemoTiles : memo[t].age < MemoTtl => memo[t].at = data
        /\ \A t \in MemoTiles : Hit(t) => memo[t].at = data
        /\ \A k \in Ticks : ticking[k] \in {NoFrame, Truth}
    BY <1>1 DEF CaughtUp, Hit
  <2> HIDE DEF NoFrame, Truth
  <2>4. ASSUME NEW k \in Ticks, NEW lost \in SUBSET LiveTiles, ticking[k] = NoFrame,
               ticking' = [ticking EXCEPT ![k] = ComputeSnapshot(lost)], memo' = Asked
        PROVE  /\ \A t \in MemoTiles : memo'[t].at = data
               /\ \A i \in Ticks : ticking'[i] \in {NoFrame, Truth}
    <3>1. /\ \A t \in lost : t \in Tiles /\ ComputeSnapshot(lost)[t] = Missing
          /\ lost = {} => ComputeSnapshot(lost) = Truth
          /\ \A t \in MemoTiles : Asked[t].at = data
      BY <2>3, SnapshotTells
    <3>2. ticking'[k] = ComputeSnapshot(lost) /\ \A i \in Ticks : i # k => ticking'[i] = ticking[i]
      BY <2>1, <2>4
    <3>3. ticking'[k] \in {NoFrame, Truth}
      <4>1. CASE ticking'[k] = NoFrame
        BY <4>1
      <4>2. CASE ticking'[k] # NoFrame
        <5>1. \A t \in Tiles : ticking'[k][t] # Missing
          BY <1>1, <4>2 DEF Whole
        <5>2. lost = {}
          BY <3>1, <3>2, <5>1
        <5> QED
          BY <3>1, <3>2, <5>2
      <4> QED
        BY <4>1, <4>2
    <3> QED
      BY <2>3, <2>4, <3>1, <3>2, <3>3
  <2>5. ASSUME NEW k \in Ticks, TimerTick(k)
        PROVE  /\ screens' = screens /\ \A t \in MemoTiles : memo'[t].at = data
               /\ \A i \in Ticks : ticking'[i] \in {NoFrame, Truth}
    BY <2>4, <2>5 DEF TimerTick, StartTick
  <2>6. ASSUME NEW k \in Ticks, EndTick(k)
        PROVE  /\ memo' = memo /\ screens'[v].shows = Truth
               /\ \A i \in Ticks : ticking'[i] \in {NoFrame, Truth}
    <3>1. ticking[k] = Truth
      BY <2>3, <2>6 DEF EndTick
    <3>2. screens'[v] = screens[v] \/ screens'[v] = [screens[v] EXCEPT !.shows = Truth]
      BY <2>6, <3>1 DEF EndTick
    <3>3. screens'[v].shows = Truth
      BY <2>1, <2>3, <3>2 DEF Screens
    <3>4. \A i \in Ticks : ticking'[i] \in {NoFrame, Truth}
      BY <2>1, <2>3, <2>6 DEF EndTick
    <3> QED
      BY <2>6, <3>3, <3>4 DEF EndTick
  <2>7. ASSUME NEW k \in Ticks, FailTick(k)
        PROVE  /\ screens' = screens /\ \A i \in Ticks : ticking'[i] \in {NoFrame, Truth}
               /\ \A t \in MemoTiles : memo'[t].age < MemoTtl => memo'[t].at = data
    <3>1. PICK t \in MemoTiles : memo' = [memo EXCEPT ![t].age = OldAge]
      BY <2>7 DEF FailTick
    <3>2. memo'[t].age = OldAge /\ ~ (OldAge < MemoTtl)
          /\ \A i \in MemoTiles : i # t => memo'[i] = memo[i]
      BY <2>1, <3>1 DEF Memos, OldAge
    <3> QED
      BY <2>1, <2>3, <2>7, <3>2 DEF FailTick
  <2>8. ASSUME NEW u \in Viewers, JoinPrimed(u)
        PROVE  memo' = memo /\ ticking' = ticking /\ screens'[v] = screens[v]
    BY <2>1, <2>3, <2>8 DEF JoinPrimed
  <2>9. ASSUME NEW u \in Viewers, JoinBlank(u)
        PROVE  /\ screens'[v] = screens[v] /\ \A t \in MemoTiles : memo'[t].at = data
               /\ \A i \in Ticks : ticking'[i] \in {NoFrame, Truth}
    <3>1. screens'[v] = screens[v]
      BY <2>1, <2>3, <2>9 DEF JoinBlank
    <3> QED
      BY <2>4, <2>9, <3>1 DEF JoinBlank
  <2>10. ASSUME NEW u \in Viewers, Leave(u)
         PROVE  memo' = memo /\ ticking' = ticking /\ screens'[v] = screens[v]
    <3>1. Away.here = FALSE
      BY DEF Away
    <3>2. screens' = [screens EXCEPT ![u] = Away]
      BY <2>10 DEF Leave
    <3> HIDE DEF Away
    <3>3. u # v
      BY <1>1, <2>1, <3>1, <3>2
    <3> QED
      BY <2>1, <2>10, <3>2, <3>3 DEF Leave
  <2>11. CASE DataChanges
    BY <1>1, <2>11 DEF DataChanges, WallTypeOK
  <2>12. CASE TimePasses
    <3>1. \A t \in MemoTiles : memo[t].age \in 0 .. OldAge /\ OldAge \in Nat
      BY <2>1 DEF Memos, OldAge
    <3>2. \A t \in MemoTiles : memo'[t].at = memo[t].at /\ memo'[t].age = Aged(memo[t].age)
      BY <2>1, <2>12 DEF TimePasses, Memos
    <3>3. \A t \in MemoTiles : memo'[t].age < MemoTtl => memo[t].age < MemoTtl
      BY <3>1, <3>2 DEF Aged
    <3> QED
      BY <2>3, <2>12, <3>2, <3>3 DEF TimePasses
  <2> QED
    BY <1>1, <2>3, <2>5, <2>6, <2>7, <2>8, <2>9, <2>10, <2>11, <2>12 DEF WallNext
<1>2. WallTypeOK /\ [WallNext]_wallVars =>
        [\A v \in Viewers :
           CaughtUp(v) /\ data' = data /\ screens'[v].here /\ Whole' => CaughtUp(v)']_wallVars
  BY <1>1
<1> QED
  BY <1>2, WallTypeCorrect, PTL DEF WallSpec, WallKept
=============================================================================

------------------------------- MODULE Alerts -------------------------------
(***************************************************************************)
(* The operational alerts (observability/alert.service.ts): every worker   *)
(* process has an orchestrator that runs the detectors once a minute, so   *)
(* several cycles overlap; conditions are read in one statement, an alert  *)
(* is found in a later one and written in the next, and staff work on the  *)
(* same rows.                                                              *)
(*                                                                         *)
(* An alert is known by its dedupeKey; there is one per condition.         *)
(***************************************************************************)
EXTENDS Naturals

CONSTANTS
  Faults,     \* conditions the detectors look for
  Detectors,  \* orchestrators
  MaxMishaps  \* bound on failed cycles and on what staff and the system do

\* The keys of alerts are no names of steps.
ASSUME AlertsAssumption ==
  /\ Faults \cap {"idle", "detect", "clear"} = {}
  /\ MaxMishaps \in Nat

VARIABLES
  faulty,  \* the conditions that hold
  alerts,  \* the status of each SystemAlert row
  cycle,   \* where each detector cycle is
  mishaps

alertVars == <<faulty, alerts, cycle, mishaps>>

Statuses == {"NONE", "OPEN", "ACKNOWLEDGED", "RESOLVED"}

Between == [step |-> "idle", todo |-> {}, holding |-> {}, found |-> "NONE", raised |-> {}]

AlertsTypeOK ==
  /\ faulty \subseteq Faults
  /\ alerts \in [Faults -> Statuses]
  /\ cycle \in [Detectors ->
       [step : {"idle", "detect", "clear"} \cup Faults, todo : SUBSET Faults,
        holding : SUBSET Faults, found : Statuses, raised : SUBSET Faults]]
  /\ mishaps \in 0 .. MaxMishaps

AlertsStart(faults) ==
  /\ faulty = faults
  /\ alerts = [k \in Faults |-> "NONE"]
  /\ cycle = [d \in Detectors |-> Between]
  /\ mishaps = 0

AlertsInit == \E faults \in SUBSET Faults : AlertsStart(faults)

Unresolved == {k \in Faults : alerts[k] \in {"OPEN", "ACKNOWLEDGED"}}

-----------------------------------------------------------------------------
(* A detector cycle (runAlertDetectors).                                    *)

BeginCycle(d) ==
  /\ cycle[d].step = "idle"
  /\ cycle' = [cycle EXCEPT ![d] = [Between EXCEPT !.step = "detect", !.todo = Faults]]
  /\ UNCHANGED <<faulty, alerts, mishaps>>

\* One query reads some of the conditions, those of all workspaces say.
Detect(d) ==
  /\ cycle[d].step = "detect" /\ cycle[d].holding = {}
  /\ \E ks \in SUBSET cycle[d].todo \ {{}} :
       cycle' = [cycle EXCEPT ![d].todo = @ \ ks, ![d].holding = ks \cap faulty]
  /\ UNCHANGED <<faulty, alerts, mishaps>>

\* One by one the alerts of those that held are looked up, resolved ones too.
LookUp(d) ==
  /\ cycle[d].step = "detect"
  /\ \E k \in cycle[d].holding :
       cycle' = [cycle EXCEPT ![d].holding = @ \ {k}, ![d].step = k, ![d].found = alerts[k]]
  /\ UNCHANGED <<faulty, alerts, mishaps>>

\* Mutant: a resolved alert is counted on but not opened again.
NeverReopened(found, now) == IF now = "NONE" THEN "OPEN" ELSE now

\* What raiseAlert makes of the row, by what it found.  Where another detector has
\* created it meanwhile (P2002), only its occurrences are counted.
Raised(found, now) == IF now = "NONE" \/ found = "RESOLVED" THEN "OPEN" ELSE now

Raise(d) ==
  /\ cycle[d].step \in Faults
  /\ LET k == cycle[d].step
     IN  /\ alerts' = [alerts EXCEPT ![k] = Raised(cycle[d].found, @)]
         /\ cycle' = [cycle EXCEPT ![d].step = "detect", ![d].found = "NONE",
                                   ![d].raised = @ \cup {k}]
  /\ UNCHANGED <<faulty, mishaps>>

\* The alerts whose condition this cycle has not seen.
Cleared(d) == Unresolved \ cycle[d].raised

ReadUnresolved(d) ==
  /\ cycle[d].step = "detect" /\ cycle[d].todo = {} /\ cycle[d].holding = {}
  /\ cycle' = [cycle EXCEPT ![d].step = "clear", ![d].todo = Cleared(d)]
  /\ UNCHANGED <<faulty, alerts, mishaps>>

\* One by one and by id, whatever has become of the row.
AutoResolve(d) ==
  /\ cycle[d].step = "clear"
  /\ \E k \in cycle[d].todo :
       /\ alerts' = [alerts EXCEPT ![k] = "RESOLVED"]
       /\ cycle' = [cycle EXCEPT ![d].todo = @ \ {k}]
  /\ UNCHANGED <<faulty, mishaps>>

EndCycle(d) ==
  /\ cycle[d].step = "clear" /\ cycle[d].todo = {}
  /\ cycle' = [cycle EXCEPT ![d] = Between]
  /\ UNCHANGED <<faulty, alerts, mishaps>>

-----------------------------------------------------------------------------
(* What else happens.                                                       *)

Mishap == mishaps < MaxMishaps /\ mishaps' = mishaps + 1

\* A statement fails or the process dies; the orchestrator begins anew.
FailCycle(d) ==
  /\ cycle[d].step # "idle"
  /\ cycle' = [cycle EXCEPT ![d] = Between]
  /\ Mishap
  /\ UNCHANGED <<faulty, alerts>>

ConditionChanges ==
  /\ \E k \in Faults : faulty' = IF k \in faulty THEN faulty \ {k} ELSE faulty \cup {k}
  /\ Mishap
  /\ UNCHANGED <<alerts, cycle>>

\* By id, with no look at the status: a resolved alert may be acknowledged.
AcknowledgeAlert ==
  /\ \E k \in Faults : alerts[k] # "NONE" /\ alerts' = [alerts EXCEPT ![k] = "ACKNOWLEDGED"]
  /\ Mishap
  /\ UNCHANGED <<faulty, cycle>>

ResolveAlert ==
  /\ \E k \in Faults : alerts[k] # "NONE" /\ alerts' = [alerts EXCEPT ![k] = "RESOLVED"]
  /\ Mishap
  /\ UNCHANGED <<faulty, cycle>>

CycleStep(d) ==
  \/ BeginCycle(d) \/ Detect(d) \/ LookUp(d) \/ Raise(d)
  \/ ReadUnresolved(d) \/ AutoResolve(d) \/ EndCycle(d)

AlertsNext ==
  \/ \E d \in Detectors : CycleStep(d) \/ FailCycle(d)
  \/ ConditionChanges \/ AcknowledgeAlert \/ ResolveAlert

AlertsSpec == AlertsInit /\ [][AlertsNext]_alertVars

\* The orchestrators go round; failures do not go on for ever (MaxMishaps).
AlertsFairness == \A d \in Detectors : WF_alertVars(CycleStep(d))

-----------------------------------------------------------------------------

\* Overlapping cycles, failures and staff notwithstanding, the alerts end up telling
\* what is the case: a condition that stays has an unresolved alert for good, one that
\* is gone for good has none.
AlertsFollow ==
  \A k \in Faults :
    /\ <>[](k \in faulty) => <>[](k \in Unresolved)
    /\ <>[](k \notin faulty) => <>[](k \notin Unresolved)
=============================================================================

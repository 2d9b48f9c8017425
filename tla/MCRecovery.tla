----------------------------- MODULE MCRecovery -----------------------------
(* Instance for TLC of what has to come right again: the registration whose  *)
(* exam is completed, and the circuit breaker of its workspace.  They share  *)
(* no state: a behaviour follows one of them ("followed"), the other rests.  *)
EXTENDS RegistrationSync, CircuitBreaker

VARIABLE followed

recoveryVars == <<followed, vars, breakerVars>>

\* The exam of a registration that rests is not over.
RecoveryInit ==
  /\ followed \in {"registration", "breaker"}
  /\ Init /\ BreakerInit
  /\ followed = "breaker" => actual = "IN_PROGRESS"

Registers(step) == followed = "registration" /\ step /\ UNCHANGED <<followed, breakerVars>>
Breaks(step)    == followed = "breaker" /\ step /\ UNCHANGED <<followed, vars>>

RecoveryNext == Registers(Next) \/ Breaks(BreakerNext)

\* Fairness and BreakerFairness, of the component that is followed.  One strong
\* fairness condition serves a step of each: they are never followed together.
\* There are no MANUAL jobs where no operator acts.
RecoveryFairness ==
  /\ \A a \in Actors :
       /\ WF_recoveryVars(Registers(Proceeds(a)))
       /\ SF_recoveryVars(Registers(BeginStatus(a)) \/ Breaks(\E r \in Reporters : HalfOpen(r)))
       /\ SF_recoveryVars(Registers(BeginResults(a)) \/ Breaks(\E r \in Reporters : CallSucceeds(r)))
       /\ SF_recoveryVars(Registers(FetchStatus(a)) \/ Breaks(\E r \in Reporters : CallUnanswered(r)))
       /\ SF_recoveryVars(Registers(StoreResults(a)) \/ Breaks(\E r \in Reporters : Outcome(r)))
  /\ \A t \in JobTypes \ {"MANUAL"} :
       SF_recoveryVars(Registers(\E r \in Runners : Start(r, t)))
  /\ \A s \in Schedulers : /\ WF_recoveryVars(Registers(TickStep(s)))
                           /\ SF_recoveryVars(Registers(\E m \in Modes : TickRead(s, m)))
  /\ WF_recoveryVars(Registers(BecomeDue))
  /\ WF_recoveryVars(Registers(ReviewMove \/ ReviewFlag))
  /\ WF_recoveryVars(Breaks(\E r \in Reporters : Check(r)))
  /\ WF_recoveryVars(Breaks(ProbeTime))

RecoverySpec == RecoveryInit /\ [][RecoveryNext]_recoveryVars /\ RecoveryFairness
=============================================================================

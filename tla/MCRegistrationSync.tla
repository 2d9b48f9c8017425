------------------------- MODULE MCRegistrationSync -------------------------
(* Instance of RegistrationSync for TLC.                                    *)
EXTENDS RegistrationSync, TLC

\* Runners are interchangeable; safety runs only.
AnyRunner == Permutations(Runners)

\* A web request or a lost runner or tick, not both.
OneDisturbance == calls + crashes <= 1
=============================================================================

----------------------------- MODULE MCAttention -----------------------------
(* Instance for TLC of the attention queue: registrations with one issue, and *)
(* another one besides.                                                       *)
EXTENDS Attention

Fine == [error |-> "", shortCode |-> FALSE, mapped |-> TRUE, sync |-> "COMPLETED", retries |-> 0,
         status |-> "IN_PROGRESS", old |-> FALSE, results |-> 0, absent |-> FALSE, linked |-> TRUE]
SampleConditions == {[Fine EXCEPT !.error = e, !.sync = "MANUAL_REVIEW"] : e \in {"", "NOT_FOUND"}}
=============================================================================

--------------------------- MODULE IdempotentRuns ---------------------------
(***************************************************************************)
(* What a client_request_id promises: one run at a time, no run after one  *)
(* was sealed, and a run that is lost unsealed may be run again.           *)
(***************************************************************************)
EXTENDS Naturals

CONSTANT Ids

VARIABLES
  fate,   \* none, running or sealed
  spent   \* runs begun

vars == <<fate, spent>>

Init ==
  /\ fate = [i \in Ids |-> "none"]
  /\ spent = [i \in Ids |-> 0]

Begin(i) ==
  /\ fate[i] = "none"
  /\ fate' = [fate EXCEPT ![i] = "running"]
  /\ spent' = [spent EXCEPT ![i] = @ + 1]

Seal(i) ==
  /\ fate[i] = "running"
  /\ fate' = [fate EXCEPT ![i] = "sealed"]
  /\ UNCHANGED spent

\* The runs of I end without a seal.
Lose(I) ==
  /\ \A i \in I : fate[i] = "running"
  /\ fate' = [i \in Ids |-> IF i \in I THEN "none" ELSE fate[i]]
  /\ UNCHANGED spent

Next ==
  \/ \E i \in Ids : Begin(i) \/ Seal(i)
  \/ \E I \in SUBSET Ids : Lose(I)

Spec == Init /\ [][Next]_vars
=============================================================================

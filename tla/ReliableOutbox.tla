--------------------------- MODULE ReliableOutbox ---------------------------
(***************************************************************************)
(* What the webhook outbox promises for an endpoint that stays active: a   *)
(* published delivery stays pending until the receiver acknowledged it or  *)
(* MaxAttempts attempts were spent; it may reach the receiver more than    *)
(* once while it is pending, and never again after its fate is settled.    *)
(***************************************************************************)
EXTENDS Naturals

CONSTANTS Deliveries, MaxAttempts

VARIABLES
  fate,   \* none, pending, delivered or dead
  spent,  \* attempts made
  got     \* the receiver has it

vars == <<fate, spent, got>>

Init ==
  /\ fate = [d \in Deliveries |-> "none"]
  /\ spent = [d \in Deliveries |-> 0]
  /\ got = [d \in Deliveries |-> FALSE]

Publish(S) ==
  /\ \A d \in S : fate[d] = "none"
  /\ fate' = [d \in Deliveries |-> IF d \in S THEN "pending" ELSE fate[d]]
  /\ UNCHANGED <<spent, got>>

Attempt(d) ==
  /\ fate[d] = "pending"
  /\ spent' = [spent EXCEPT ![d] = @ + 1]
  /\ UNCHANGED <<fate, got>>

Arrive(d) ==
  /\ fate[d] = "pending" /\ spent[d] > 0
  /\ got' = [got EXCEPT ![d] = TRUE]
  /\ UNCHANGED <<fate, spent>>

Acknowledge(d) ==
  /\ fate[d] = "pending" /\ got[d]
  /\ fate' = [fate EXCEPT ![d] = "delivered"]
  /\ UNCHANGED <<spent, got>>

GiveUp(d) ==
  /\ fate[d] = "pending" /\ spent[d] >= MaxAttempts
  /\ fate' = [fate EXCEPT ![d] = "dead"]
  /\ UNCHANGED <<spent, got>>

Next ==
  \/ \E S \in SUBSET Deliveries : Publish(S)
  \/ \E d \in Deliveries : Attempt(d) \/ Arrive(d) \/ Acknowledge(d) \/ GiveUp(d)

Spec == Init /\ [][Next]_vars
=============================================================================

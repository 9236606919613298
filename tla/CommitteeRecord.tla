-------------------------- MODULE CommitteeRecord --------------------------
(***************************************************************************)
(* What the committee promises of a packet.  A request looks at the packet *)
(* and writes later; nothing keeps two requests that have looked apart, so *)
(* the promise is about what they saw: nobody submits what they have found *)
(* submitted, or decides for good on what they have found unsubmitted,     *)
(* submitted by themselves, or decided.                                    *)
(***************************************************************************)
CONSTANTS Packets, Windows, Person, Verdicts, Nobody

VARIABLES
  submitter,   \* who submitted the packet, Nobody before
  outcome,     \* its final decisions: one, or one of each who looked before it
  looks        \* who has looked at a packet, and to do what

vars == <<submitter, outcome, looks>>

Init ==
  /\ submitter = [p \in Packets |-> Nobody]
  /\ outcome = [p \in Packets |-> {}]
  /\ looks = {}

Looked(w, p, to) == [by |-> w, on |-> p, to |-> to]

Look(w, p, to) ==
  /\ CASE to = "submit" -> submitter[p] = Nobody
       [] to = "decide" -> submitter[p] \notin {Nobody, Person[w]} /\ outcome[p] = {}
  /\ looks' = looks \cup {Looked(w, p, to)}
  /\ UNCHANGED <<submitter, outcome>>

Forget(w, p, to) ==
  /\ looks' = looks \ {Looked(w, p, to)}
  /\ UNCHANGED <<submitter, outcome>>

Submit(w, p) ==
  /\ Looked(w, p, "submit") \in looks
  /\ submitter' = [submitter EXCEPT ![p] = Person[w]]
  /\ looks' = looks \ {Looked(w, p, "submit")}
  /\ UNCHANGED outcome

Decide(w, p, verdict) ==
  /\ Looked(w, p, "decide") \in looks
  /\ outcome' = [outcome EXCEPT ![p] = @ \cup {[by |-> Person[w], what |-> verdict]}]
  /\ looks' = looks \ {Looked(w, p, "decide")}
  /\ UNCHANGED submitter

Next == \E w \in Windows, p \in Packets :
  \/ \E to \in {"submit", "decide"} : Look(w, p, to) \/ Forget(w, p, to)
  \/ Submit(w, p)
  \/ \E verdict \in Verdicts : Decide(w, p, verdict)

Spec == Init /\ [][Next]_vars
=============================================================================

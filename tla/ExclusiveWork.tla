--------------------------- MODULE ExclusiveWork ---------------------------
(***************************************************************************)
(* What the job queue promises: a submitted job is worked on by at most    *)
(* one worker at a time and at most MaxAttempts times; it is put back only *)
(* by its holder or once its holder is gone; and it ends done or buried.   *)
(***************************************************************************)
EXTENDS Naturals

CONSTANTS Jobs, Workers, MaxAttempts

VARIABLES
  stage,    \* none, waiting, held, done or buried
  tries,    \* how often the job was taken
  holders   \* the live workers that are on it

vars == <<stage, tries, holders>>

Init ==
  /\ stage = [j \in Jobs |-> "none"]
  /\ tries = [j \in Jobs |-> 0]
  /\ holders = [j \in Jobs |-> {}]

Submit(j) ==
  /\ stage[j] = "none"
  /\ stage' = [stage EXCEPT ![j] = "waiting"]
  /\ UNCHANGED <<tries, holders>>

Take(w, j) ==
  /\ stage[j] = "waiting" /\ holders[j] = {} /\ tries[j] < MaxAttempts
  /\ stage' = [stage EXCEPT ![j] = "held"]
  /\ tries' = [tries EXCEPT ![j] = @ + 1]
  /\ holders' = [holders EXCEPT ![j] = {w}]

Finish(w, j) ==
  /\ stage[j] = "held" /\ holders[j] = {w}
  /\ stage' = [stage EXCEPT ![j] = "done"]
  /\ holders' = [holders EXCEPT ![j] = {}]
  /\ UNCHANGED tries

\* What becomes of a job whose attempt ended without success.
Returned(j) == IF tries[j] < MaxAttempts THEN "waiting" ELSE "buried"

PutBack(w, j) ==
  /\ stage[j] = "held" /\ holders[j] = {w}
  /\ stage' = [stage EXCEPT ![j] = Returned(j)]
  /\ holders' = [holders EXCEPT ![j] = {}]
  /\ UNCHANGED tries

Lose(w, j) ==
  /\ stage[j] = "held" /\ holders[j] = {w}
  /\ holders' = [holders EXCEPT ![j] = {}]
  /\ UNCHANGED <<stage, tries>>

\* One recovery pass returns several orphans at once.
Reclaim(S) ==
  /\ \A j \in S : stage[j] = "held" /\ holders[j] = {}
  /\ stage' = [j \in Jobs |-> IF j \in S THEN Returned(j) ELSE stage[j]]
  /\ UNCHANGED <<tries, holders>>

Next ==
  \/ \E j \in Jobs : Submit(j)
  \/ \E w \in Workers, j \in Jobs : Take(w, j) \/ Finish(w, j) \/ PutBack(w, j) \/ Lose(w, j)
  \/ \E S \in SUBSET Jobs : Reclaim(S)

Spec == Init /\ [][Next]_vars
=============================================================================

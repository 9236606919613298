----------------------------- MODULE VersionLog -----------------------------
(***************************************************************************)
(* What the versioned histories of a workspace promise: every stream is a  *)
(* log, and a request either appends all the versions it writes, next to   *)
(* each other at the end of their logs and all at once, or none of them.   *)
(***************************************************************************)
EXTENDS Naturals, Sequences

CONSTANTS
  Writers, Streams,
  Share  \* Share[w][s]: how many versions of s the request of w writes

VARIABLES
  log,   \* for each stream, the author of each version
  done   \* the requests whose versions are in the logs

vars == <<log, done>>

\* l with n versions by w at its end.
Extended(l, w, n) ==
  [v \in 1..(Len(l) + n) |-> IF v <= Len(l) THEN l[v] ELSE w]

Init ==
  /\ log = [s \in Streams |-> <<>>]
  /\ done = {}

Write(w) ==
  /\ w \notin done
  /\ log' = [s \in Streams |-> Extended(log[s], w, Share[w][s])]
  /\ done' = done \cup {w}

Next == \E w \in Writers : Write(w)

Spec == Init /\ [][Next]_vars
=============================================================================

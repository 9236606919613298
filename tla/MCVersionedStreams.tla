------------------------- MODULE MCVersionedStreams -------------------------
(* Small instances of VersionedStreams for TLC. *)
EXTENDS VersionedStreams, TLC

CONSTANTS a1, a2, p1, p2, e1, e2, e3, u1, u2, u3, ev, run, pack, doc, base1, upside

MCPlan ==
  (a1 :> <<ev, ev, run, pack>>) @@ (a2 :> <<ev, run, pack>>)
    @@ (p1 :> <<run>>) @@ (p2 :> <<run>>)
    @@ (e1 :> <<base1, upside>>) @@ (e2 :> <<upside, base1>>) @@ (e3 :> <<base1>>)
    @@ (u1 :> <<doc>>) @@ (u2 :> <<doc>>) @@ (u3 :> <<doc>>)

\* u1 and u2 upload the same file.
MCContent == [w \in Writers |-> IF w \in {u1, u2} THEN "same" ELSE "other"]

MCCrews == {{a1, a2, p1, p2}, {e1, e2, e3}, {u1, u2, u3}}
=============================================================================

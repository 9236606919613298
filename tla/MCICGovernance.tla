--------------------------- MODULE MCICGovernance ---------------------------
(* Instances of ICGovernance for TLC. *)
EXTENDS ICGovernance, TLC

CONSTANTS A, B, Bot, a1, a2, b1, c1, t1, t2, r1, r2, g1, g2, k1, k2

MCPerson == [w \in {a1, a2, b1, c1} |-> IF w = b1 THEN B ELSE IF w = c1 THEN Bot ELSE A]
MCStageOf == [g \in {g1, g2} |-> IF g = g1 THEN "sourcing" ELSE "ic_review"]
MCNeeds == [t \in {k1, k2} |-> IF t = k2 THEN {k1} ELSE {}]

Early(windows, kinds) == [windows |-> windows, kinds |-> kinds, begun |-> FALSE]
Late(windows, kinds) == [windows |-> windows, kinds |-> kinds, begun |-> TRUE]
Two == {a1, b1}
Three == {a1, a2, b1}

RoomAgendas == {
  Early(Three, {"upload", "propose", "redact"}),
  Late(Three, {"propose", "redact", "review"}),
  Early(Windows, {"upload", "extract", "review"})}
DealAgendas == {
  Early(Two, {"edit", "advance", "gate"}),
  Early(Three, {"send", "respond", "accept"}),
  Early(Two, {"revise"}), Early(Two, {"task"})}
CommitteeAgendas == {
  Late(Two, {"verdict", "review", "assemble", "submit"}),
  Late(Two, {"verdict", "gate", "staff", "assemble", "submit"}),
  Late(Two, {"review", "assemble", "submit", "export"}),
  Late(Two, {"assemble", "submit", "export", "edit"}),
  Late(Two, {"assemble", "submit", "comment", "resolve", "decide"}),
  Late(Two, {"assemble", "submit", "decide", "edit"}),
  Late(Two, {"assemble", "submit", "decide", "condition", "advance", "export"}),
  Late(Three, {"assemble", "submit", "decide", "condition", "export"})}
AllAgendas == RoomAgendas \cup DealAgendas \cup CommitteeAgendas

Twins == Permutations(Texts) \cup Permutations(Proposals) \cup Permutations({a1, a2})
=============================================================================

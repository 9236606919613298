---------------------------- MODULE MCFilingFeed ----------------------------
(* Small instances of FilingFeed for TLC. *)
EXTENDS FilingFeed, TLC

CONSTANTS c1, c2, worker, user, s1, s2

Mix(actors, backlog1, latest1, backlog2, latest2, rows, most) ==
  [actors |-> actors, backlog |-> c1 :> backlog1 @@ c2 :> backlog2,
   latest |-> c1 :> latest1 @@ c2 :> latest2, rows |-> rows, faults |-> most]

MCAgendas == {
  \* Two refreshes over two entries: one claim each, and circles of locks.
  Mix({worker, user, s1}, 1, 2, 1, 1, 1, 0),
  \* Two refreshes of one entry that is removed and added again.
  Mix({worker, user}, 0, 2, 0, 0, 2, 0),
  \* More filings between two refreshes than the feed shows.
  Mix({worker, s1}, 1, 4, 0, 0, 1, 1),
  \* Two syncs over the same events.
  Mix({worker, s1, s2, Other}, 1, 2, 0, 0, 1, 1)}
=============================================================================

-------------------------- MODULE AgentRuns_proofs --------------------------
(***************************************************************************)
(* Proofs about AgentRuns, for any clicks, ids and objectives and any      *)
(* number of faults: what a request id promises, and that a click shows    *)
(* its own run.                                                            *)
(***************************************************************************)
EXTENDS AgentRuns, TLAPS

-----------------------------------------------------------------------------
(* Posts.                                                                  *)

LEMMA PostShape ==
  /\ \A p \in Posts : p[1] \in Clicks /\ IdOf(p) \in Ids /\ ObjectiveOf(p) \in Objectives
  /\ \A k \in Clicks : <<k, "plain">> \in Posts
  /\ \A k \in Consoles : k \in Clicks /\ <<k, "stream">> \in Posts
<1>1. \A p \in Posts : p[1] \in Clicks
  BY DEF Posts, Clicks
<1>2. \A k \in Consoles : k \in Clicks /\ <<k, "stream">> \in Posts
  BY DEF Posts, Clicks
<1>3. \A k \in Clicks : <<k, "plain">> \in Posts
  BY DEF Posts
<1>4. QED BY <1>1, <1>2, <1>3 DEF IdOf, ObjectiveOf, Ids, Objectives

LEMMA PostOf ==
  ASSUME NEW k, NEW route
  PROVE  IdOf(<<k, route>>) = Id[k] /\ ObjectiveOf(<<k, route>>) = Objective[k]
BY DEF IdOf, ObjectiveOf

\* The post that Submit makes.
LEMMA SubmittedPost ==
  ASSUME NEW k \in Clicks
  PROVE  <<k, IF k \in Consoles THEN "stream" ELSE "plain">> \in Posts
BY PostShape

-----------------------------------------------------------------------------
(* The inductive invariant.                                                *)

\* The post has claimed its id and not given it back.
Has(p) == Holding(p) \/ at[p] = "leaked"

\* A claimed id is in the registry, and claimed by one post.
RegistryInv ==
  /\ \A p \in Posts : Has(p) => IdOf(p) \in inflight
  /\ \A p, q \in Posts : Has(p) /\ Has(q) /\ IdOf(p) = IdOf(q) => p = q

Sealed(i, o) == \E s \in seals : s.id = i /\ s.objective = o

\* A seal is that of the run that made it; who runs found none.
SealInv ==
  /\ \A s \in seals : s.by \in Posts /\ s.id = IdOf(s.by) /\ s.objective = ObjectiveOf(s.by)
  /\ SealedOnce
  /\ \A p \in Posts : at[p] \in {"running", "executing"} => SealsOf(IdOf(p)) = {}
  /\ \A p \in Posts : at[p] = "sealed" => Sealed(IdOf(p), ObjectiveOf(p))

\* A record that is answered was asked for and is sealed.
ReplyInv ==
  /\ \A p \in Posts : reply[p] \in Objectives =>
       reply[p] = ObjectiveOf(p) /\ Sealed(IdOf(p), reply[p])
  /\ \A k \in Clicks : view[k] = "recovering" => k \in Consoles
  /\ OwnRunShown

\* A post is unsent until its click makes it.
UnsentInv ==
  /\ \A k \in Clicks : view[k] = "ready" => \A p \in Posts : p[1] = k => at[p] = "unsent"
  /\ \A k \in Consoles : view[k] \in {"posted", "reading"} => at[<<k, "plain">>] = "unsent"

RunsInv == AgentTypeOK /\ RegistryInv /\ SealInv /\ ReplyInv /\ UnsentInv

LEMMA InitRunsInv == Init => RunsInv
<1> SUFFICES ASSUME Init PROVE RunsInv
  OBVIOUS
<1>1. AgentTypeOK
  BY DEF Init, AgentTypeOK, Places, Replies, Refusals, Records, Views
<1>2. RegistryInv /\ SealInv
  BY DEF Init, RegistryInv, Has, Holding, SealInv, SealedOnce
<1>3. ReplyInv
  <2>1. "none" \notin Objectives
    BY AgentAssumption DEF Records, Refusals
  <2>2. QED BY <2>1 DEF Init, ReplyInv, OwnRunShown
<1>4. UnsentInv
  BY PostShape DEF Init, UnsentInv
<1>5. QED BY <1>1, <1>2, <1>3, <1>4 DEF RunsInv

-----------------------------------------------------------------------------
(* Types.                                                                  *)

LEMMA ServerTypes ==
  ASSUME AgentTypeOK, NEW p \in Posts, ServerStep(p)
  PROVE  AgentTypeOK'
<1> USE PostShape DEF AgentTypeOK, Places, Replies, Refusals, To, client
<1>1. CASE Duplicate(p) BY <1>1 DEF Duplicate
<1>2. CASE Claim(p) BY <1>2 DEF Claim
<1>3. CASE Replay(p) BY <1>3 DEF Replay, SealsOf, Records
<1>4. CASE Proceed(p) BY <1>4 DEF Proceed
<1>5. CASE ThreadFails(p) BY <1>5 DEF ThreadFails
<1>6. CASE LookupFails(p) BY <1>6 DEF LookupFails
<1>7. CASE Gate(p) BY <1>7 DEF Gate, Records
<1>8. CASE Execute(p) BY <1>8 DEF Execute
<1>9. CASE Seal(p) BY <1>9 DEF Seal
<1>10. CASE RunFails(p) BY <1>10 DEF RunFails
<1>11. CASE Finish(p) BY <1>11 DEF Finish, Records
<1>12. CASE Release(p) BY <1>12 DEF Release
<1>13. QED
  BY <1>1, <1>2, <1>3, <1>4, <1>5, <1>6, <1>7, <1>8, <1>9, <1>10, <1>11, <1>12
     DEF ServerStep

LEMMA ConcludeTypes ==
  ASSUME AgentTypeOK, NEW k \in Clicks, NEW r, Conclude(k, r)
  PROVE  AgentTypeOK'
BY DEF Conclude, AgentTypeOK, server, Views

LEMMA ClientTypes ==
  ASSUME AgentTypeOK, NEW k \in Clicks,
         Submit(k) \/ ClickStep(k) \/ (k \in Consoles /\ ConsoleStep(k))
  PROVE  AgentTypeOK'
<1>1. CASE Submit(k)
  <2> DEFINE p == <<k, IF k \in Consoles THEN "stream" ELSE "plain">>
  <2>1. p \in Posts
    BY SubmittedPost
  <2> HIDE DEF p
  <2>2. at' = [at EXCEPT ![p] = "sent"] /\ UNCHANGED <<inflight, reply, seals, runs, shown>>
    BY <1>1 DEF Submit, p
  <2>3. view' \in [Clicks -> Views]
    BY <1>1 DEF Submit, AgentTypeOK, Views
  <2>4. QED BY <2>1, <2>2, <2>3 DEF AgentTypeOK, Places
<1>2. CASE ReadPlain(k) BY <1>2, ConcludeTypes DEF ReadPlain
<1>3. CASE LosePlain(k) BY <1>3, ConcludeTypes DEF LosePlain
<1>4. CASE Recover(k) BY <1>4, ConcludeTypes DEF Recover
<1>5. CASE StopPolling(k) BY <1>5 DEF StopPolling, AgentTypeOK, server, Views
<1>6. CASE Open(k) BY <1>6 DEF Open, AgentTypeOK, server, Views
<1>7. CASE Read(k) BY <1>7, ConcludeTypes DEF Read
<1>8. CASE FallBack(k) BY <1>8, PostShape DEF FallBack, AgentTypeOK, Places, Views
<1>9. CASE Drop(k) BY <1>9 DEF Drop, AgentTypeOK, server, Views
<1>10. CASE ReadConflict(k) BY <1>10 DEF ReadConflict, AgentTypeOK, server, Views
<1>11. QED
  BY <1>1, <1>2, <1>3, <1>4, <1>5, <1>6, <1>7, <1>8, <1>9, <1>10 DEF ClickStep, ConsoleStep

LEMMA NextTypes == AgentTypeOK /\ [Next]_vars => AgentTypeOK'
<1> SUFFICES ASSUME AgentTypeOK, [Next]_vars PROVE AgentTypeOK'
  OBVIOUS
<1>1. ASSUME NEW p \in Posts, ServerStep(p) PROVE AgentTypeOK'
  BY <1>1, ServerTypes
<1>2. ASSUME NEW p \in Posts, Lose(p) PROVE AgentTypeOK'
  BY <1>2 DEF Lose, AgentTypeOK, Places, client
<1>3. ASSUME Restart PROVE AgentTypeOK'
  BY <1>3 DEF Restart, AgentTypeOK, Places, client
<1>4. ASSUME NEW k \in Consoles, ConsoleStep(k) PROVE AgentTypeOK'
  BY <1>4, ClientTypes, PostShape
<1>5. ASSUME NEW k \in Clicks, Submit(k) \/ ClickStep(k) PROVE AgentTypeOK'
  BY <1>5, ClientTypes
<1>6. CASE UNCHANGED vars
  BY <1>6 DEF vars, server, client, AgentTypeOK
<1>7. QED BY <1>1, <1>2, <1>3, <1>4, <1>5, <1>6 DEF Next

-----------------------------------------------------------------------------
(* The registry.                                                           *)

\* What a post may do to the registry: nothing, claim a free id, or give its
\* claim back.
LEMMA ServerRegistry ==
  ASSUME RunsInv, NEW p \in Posts, ServerStep(p)
  PROVE  /\ \A q \in Posts \ {p} : at'[q] = at[q]
         /\ \/ inflight' = inflight /\ (Has(p)' => Has(p))
            \/ IdOf(p) \notin inflight /\ inflight' = inflight \cup {IdOf(p)}
            \/ Has(p) /\ ~Has(p)' /\ inflight' = inflight \ {IdOf(p)}
<1> USE DEF RunsInv, AgentTypeOK, To, Has, Holding
<1>1. CASE Duplicate(p) BY <1>1 DEF Duplicate
<1>2. CASE Claim(p) BY <1>2 DEF Claim
<1>3. CASE Replay(p) BY <1>3 DEF Replay
<1>4. CASE Proceed(p) BY <1>4 DEF Proceed
<1>5. CASE ThreadFails(p) BY <1>5 DEF ThreadFails
<1>6. CASE LookupFails(p) BY <1>6 DEF LookupFails
<1>7. CASE Gate(p) BY <1>7 DEF Gate
<1>8. CASE Execute(p) BY <1>8 DEF Execute
<1>9. CASE Seal(p) BY <1>9 DEF Seal
<1>10. CASE RunFails(p) BY <1>10 DEF RunFails
<1>11. CASE Finish(p) BY <1>11 DEF Finish
<1>12. CASE Release(p) BY <1>12 DEF Release
<1>13. QED
  BY <1>1, <1>2, <1>3, <1>4, <1>5, <1>6, <1>7, <1>8, <1>9, <1>10, <1>11, <1>12
     DEF ServerStep

\* Clients only send posts that were not sent before.
LEMMA ClientSends ==
  ASSUME RunsInv, NEW k \in Clicks,
         Submit(k) \/ ClickStep(k) \/ (k \in Consoles /\ ConsoleStep(k))
  PROVE  /\ \A q \in Posts : at'[q] = at[q] \/ (at[q] = "unsent" /\ at'[q] = "sent")
         /\ UNCHANGED <<crowd, inflight, reply, seals, runs>>
         /\ UnsentInv'
<1> USE DEF RunsInv, AgentTypeOK
<1> DEFINE Goal == /\ \A q \in Posts : at'[q] = at[q] \/ (at[q] = "unsent" /\ at'[q] = "sent")
                   /\ UNCHANGED <<crowd, inflight, reply, seals, runs>>
                   /\ UnsentInv'
<1>1. CASE Submit(k)
  <2> DEFINE p == <<k, IF k \in Consoles THEN "stream" ELSE "plain">>
  <2>1. p \in Posts /\ p[1] = k /\ (k \in Consoles => p # <<k, "plain">>)
    BY SubmittedPost
  <2>2. at' = [at EXCEPT ![p] = "sent"] /\ view[k] = "ready"
        /\ view' = [view EXCEPT ![k] = IF k \in Consoles THEN "posted" ELSE "fallback"]
        /\ UNCHANGED <<crowd, inflight, reply, seals, runs>>
    BY <1>1 DEF Submit
  <2>3. at[p] = "unsent"
    BY <2>1, <2>2 DEF UnsentInv
  <2>4. \A q \in Posts : q # p => at'[q] = at[q]
    BY <2>1, <2>2
  <2>5. \A c \in Clicks : c # k => view'[c] = view[c]
    BY <2>2
  <2>6. view'[k] # "ready" /\ (k \in Consoles => at[<<k, "plain">>] = "unsent")
    BY <2>2, PostShape DEF UnsentInv
  <2>7. \A q \in Posts : q[1] # k => q # p
    BY <2>1
  <2>8. \A c \in Consoles : <<c, "plain">> # p
    BY <2>1
  <2> HIDE DEF p
  <2>9. UnsentInv'
    BY <2>4, <2>5, <2>6, <2>7, <2>8, PostShape DEF UnsentInv
  <2>10. QED BY <2>1, <2>2, <2>3, <2>4, <2>9
<1>2. ASSUME UNCHANGED <<crowd, inflight, at, reply, seals, runs>>,
             view' \in [Clicks -> Views],
             \A c \in Clicks \ {k} : view'[c] = view[c],
             view'[k] # "ready",
             view'[k] \in {"posted", "reading"} => view[k] \in {"posted", "reading"}
      PROVE  Goal
  BY <1>2, PostShape DEF UnsentInv
<1>3. ASSUME NEW r, Conclude(k, r) PROVE Goal
  BY <1>2, <1>3 DEF Conclude, server, Views
<1>4. CASE ClickStep(k)
  BY <1>2, <1>3, <1>4 DEF ClickStep, ReadPlain, LosePlain, Recover, StopPolling, server, Views
<1>5. CASE k \in Consoles /\ (Open(k) \/ Read(k) \/ Drop(k) \/ ReadConflict(k))
  BY <1>2, <1>3, <1>5 DEF Open, Read, Drop, ReadConflict, server, Views
<1>6. CASE k \in Consoles /\ FallBack(k)
  <2>1. at[<<k, "plain">>] = "unsent"
    BY <1>6 DEF UnsentInv, FallBack
  <2>2. \A c \in Clicks : c # k => view'[c] = view[c] /\ <<c, "plain">> # <<k, "plain">>
    BY <1>6 DEF FallBack
  <2>3. \A q \in Posts : q[1] # k => q # <<k, "plain">>
    OBVIOUS
  <2>4. view'[k] = "fallback" /\ at' = [at EXCEPT ![<<k, "plain">>] = "sent"]
        /\ UNCHANGED <<crowd, inflight, reply, seals, runs>>
    BY <1>6 DEF FallBack
  <2>5. UnsentInv'
    BY <2>2, <2>3, <2>4, PostShape DEF UnsentInv
  <2>6. QED BY <2>1, <2>4, <2>5, PostShape
<1>7. QED BY <1>1, <1>4, <1>5, <1>6 DEF ConsoleStep

\* No post goes back to unsent, and the server only serves what was sent.
LEMMA ServerUnsent ==
  ASSUME RunsInv, NEW p \in Posts, ServerStep(p)
  PROVE  at[p] # "unsent" /\ UNCHANGED client
BY DEF ServerStep, Duplicate, Claim, Replay, Proceed, ThreadFails, LookupFails, Gate, Execute,
       Seal, RunFails, Finish, Release, Holding

LEMMA StepUnsentInv ==
  ASSUME RunsInv, Next
  PROVE  UnsentInv'
<1>1. ASSUME UNCHANGED client, \A q \in Posts : at[q] = "unsent" => at'[q] = "unsent"
      PROVE  UnsentInv'
  BY <1>1, PostShape DEF RunsInv, UnsentInv, client
<1>2. ASSUME NEW p \in Posts, ServerStep(p) PROVE UnsentInv'
  BY <1>1, <1>2, ServerRegistry, ServerUnsent
<1>3. ASSUME NEW p \in Posts, Lose(p) PROVE UnsentInv'
  BY <1>1, <1>3 DEF Lose, RunsInv, AgentTypeOK
<1>4. CASE Restart
  BY <1>1, <1>4 DEF Restart, Holding
<1>5. ASSUME NEW k \in Consoles, ConsoleStep(k) PROVE UnsentInv'
  BY <1>5, ClientSends, PostShape
<1>6. ASSUME NEW k \in Clicks, Submit(k) \/ ClickStep(k) PROVE UnsentInv'
  BY <1>6, ClientSends
<1>7. QED BY <1>2, <1>3, <1>4, <1>5, <1>6 DEF Next

LEMMA StepRegistryInv ==
  ASSUME RunsInv, Next
  PROVE  RegistryInv'
<1> USE DEF RunsInv, AgentTypeOK, RegistryInv
<1>1. ASSUME inflight' = inflight, \A q \in Posts : Has(q)' => Has(q)
      PROVE  RegistryInv'
  BY <1>1
<1>2. ASSUME NEW p \in Posts, ServerStep(p) PROVE RegistryInv'
  <2>1. \A q \in Posts \ {p} : Has(q)' <=> Has(q)
    BY <1>2, ServerRegistry DEF Has, Holding
  <2>2. CASE inflight' = inflight /\ (Has(p)' => Has(p))
    BY <1>1, <2>1, <2>2
  <2>3. CASE IdOf(p) \notin inflight /\ inflight' = inflight \cup {IdOf(p)}
    <3>1. \A q \in Posts \ {p} : Has(q)' => IdOf(q) # IdOf(p)
      BY <2>1, <2>3
    <3>2. QED BY <2>1, <2>3, <3>1
  <2>4. CASE Has(p) /\ ~Has(p)' /\ inflight' = inflight \ {IdOf(p)}
    BY <2>1, <2>4
  <2>5. QED BY <1>2, <2>2, <2>3, <2>4, ServerRegistry
<1>3. ASSUME NEW p \in Posts, Lose(p) PROVE RegistryInv'
  BY <1>1, <1>3 DEF Lose, Has, Holding
<1>4. CASE Restart
  <2>1. \A q \in Posts : ~Has(q)'
    BY <1>4 DEF Restart, Has, Holding
  <2>2. QED BY <2>1
<1>5. ASSUME NEW k \in Clicks,
             Submit(k) \/ ClickStep(k) \/ (k \in Consoles /\ ConsoleStep(k))
      PROVE  RegistryInv'
  BY <1>1, <1>5, ClientSends DEF Has, Holding
<1>6. QED BY <1>2, <1>3, <1>4, <1>5, PostShape DEF Next

-----------------------------------------------------------------------------
(* The seals.                                                              *)

\* Only Seal writes a seal; who begins to run saw none, and no step of
\* another post can have written one since.
LEMMA ServerSeals ==
  ASSUME RunsInv, NEW p \in Posts, ServerStep(p), ~Seal(p)
  PROVE  /\ seals' = seals
         /\ at'[p] \in {"running", "executing"} => SealsOf(IdOf(p)) = {}
         /\ at'[p] # "sealed"
<1> USE DEF RunsInv, AgentTypeOK, SealInv, To
<1>1. CASE Duplicate(p) \/ Claim(p) \/ LookupFails(p) \/ ThreadFails(p)
  BY <1>1 DEF Duplicate, Claim, LookupFails, ThreadFails
<1>2. CASE Replay(p) BY <1>2 DEF Replay
<1>3. CASE Proceed(p) BY <1>3 DEF Proceed
<1>4. CASE Gate(p) \/ Execute(p) BY <1>4 DEF Gate, Execute
<1>5. CASE RunFails(p) \/ Finish(p) \/ Release(p) BY <1>5 DEF RunFails, Finish, Release
<1>6. QED BY <1>1, <1>2, <1>3, <1>4, <1>5 DEF ServerStep

LEMMA StepSealInv ==
  ASSUME RunsInv, Next
  PROVE  SealInv'
<1> USE DEF RunsInv, AgentTypeOK
<1>1. ASSUME seals' = seals,
             \A q \in Posts :
               /\ at'[q] \in {"running", "executing"} => SealsOf(IdOf(q)) = {}
               /\ at'[q] = "sealed" => at[q] = "sealed"
      PROVE  SealInv'
  BY <1>1 DEF SealInv, SealedOnce, SealsOf, Sealed
<1>2. ASSUME NEW p \in Posts, ServerStep(p), ~Seal(p) PROVE SealInv'
  BY <1>1, <1>2, ServerSeals, ServerRegistry DEF SealInv
<1>3. ASSUME NEW p \in Posts, Seal(p) PROVE SealInv'
  <2> DEFINE n == [id |-> IdOf(p), objective |-> ObjectiveOf(p), by |-> p]
  <2>1. at[p] = "executing" /\ at' = [at EXCEPT ![p] = "sealed"] /\ seals' = seals \cup {n}
    BY <1>3 DEF Seal, To
  <2>2. n.id = IdOf(p) /\ n.objective = ObjectiveOf(p) /\ n.by = p
    OBVIOUS
  <2>3. SealsOf(IdOf(p)) = {}
    BY <2>1 DEF SealInv
  <2>4. \A q \in Posts \ {p} : at'[q] = at[q]
    BY <2>1
  <2>5. \A q \in Posts \ {p} : at[q] \in {"running", "executing"} => IdOf(q) # IdOf(p)
    BY <2>1 DEF RegistryInv, Has, Holding
  <2> HIDE DEF n
  <2>6. SealedOnce'
    BY <2>1, <2>2, <2>3 DEF SealInv, SealedOnce, SealsOf
  <2>7. \A q \in Posts : at'[q] \in {"running", "executing"} => SealsOf(IdOf(q))' = {}
    BY <2>1, <2>2, <2>4, <2>5 DEF SealInv, SealsOf
  <2>8. \A q \in Posts : at'[q] = "sealed" => Sealed(IdOf(q), ObjectiveOf(q))'
    BY <2>1, <2>2, <2>4 DEF SealInv, Sealed
  <2>9. QED BY <2>1, <2>2, <2>6, <2>7, <2>8 DEF SealInv
<1>4. ASSUME NEW p \in Posts, Lose(p) PROVE SealInv'
  BY <1>1, <1>4 DEF Lose, SealInv
<1>5. CASE Restart
  BY <1>1, <1>5 DEF Restart, Holding
<1>6. ASSUME NEW k \in Clicks,
             Submit(k) \/ ClickStep(k) \/ (k \in Consoles /\ ConsoleStep(k))
      PROVE  SealInv'
  BY <1>1, <1>6, ClientSends DEF SealInv
<1>7. QED BY <1>2, <1>3, <1>4, <1>5, <1>6, PostShape DEF Next

-----------------------------------------------------------------------------
(* The answers, and what a click shows.                                    *)

LEMMA ObjectivesApart == Objectives \cap Refusals = {} /\ NotRun \notin Objectives
BY AgentAssumption DEF Records

LEMMA SealsKept == ASSUME RunsInv, Next PROVE seals \subseteq seals'
<1>1. ASSUME NEW p \in Posts, ServerStep(p) PROVE seals \subseteq seals'
  BY <1>1, ServerSeals DEF Seal
<1>2. ASSUME NEW k \in Clicks,
             Submit(k) \/ ClickStep(k) \/ (k \in Consoles /\ ConsoleStep(k))
      PROVE  seals \subseteq seals'
  BY <1>2, ClientSends
<1>3. QED BY <1>1, <1>2, PostShape DEF Next, Lose, Restart

\* A record is answered from a seal: the twin's, or the run's own.
LEMMA ServerReplies ==
  ASSUME RunsInv, NEW p \in Posts, ServerStep(p)
  PROVE  \A q \in Posts : reply'[q] \in Objectives =>
           \/ reply'[q] = reply[q]
           \/ reply'[q] = ObjectiveOf(q) /\ Sealed(IdOf(q), ObjectiveOf(q))
<1> USE ObjectivesApart DEF RunsInv, AgentTypeOK, To, Refusals
<1>1. CASE Duplicate(p) \/ Claim(p) \/ LookupFails(p) \/ ThreadFails(p)
  BY <1>1 DEF Duplicate, Claim, LookupFails, ThreadFails
<1>2. CASE Replay(p) BY <1>2 DEF Replay, SealsOf, Sealed
<1>3. CASE Proceed(p) BY <1>3 DEF Proceed
<1>4. CASE Gate(p) \/ Execute(p) BY <1>4 DEF Gate, Execute
<1>5. CASE Seal(p) \/ RunFails(p) \/ Release(p) BY <1>5 DEF Seal, RunFails, Release
<1>6. CASE Finish(p) BY <1>6 DEF Finish, SealInv
<1>7. QED BY <1>1, <1>2, <1>3, <1>4, <1>5, <1>6 DEF ServerStep

\* A click that ends with a run ends with one of its own.
LEMMA OwnConclusion ==
  ASSUME RunsInv, NEW k \in Clicks, NEW r, Conclude(k, r),
         r \in Objectives => r = Objective[k] /\ Sealed(Id[k], r)
  PROVE  OwnRunShown' /\ \A c \in Clicks : view'[c] = "recovering" => view[c] = "recovering"
<1>1. seals' = seals
  BY DEF Conclude, server
<1>2. \A c \in Clicks \ {k} : view'[c] = view[c] /\ shown'[c] = shown[c]
  BY DEF Conclude, RunsInv, AgentTypeOK
<1>3. view'[k] = "shown" => shown'[k] = r /\ r \in Records
  BY DEF Conclude, RunsInv, AgentTypeOK
<1>4. view'[k] # "recovering"
  BY DEF Conclude, RunsInv, AgentTypeOK
<1>5. QED
  BY <1>1, <1>2, <1>3, <1>4
     DEF RunsInv, ReplyInv, OwnRunShown, Sealed, SealsOf, Records

\* Polling the list of runs finds the click's own: the console's id is its own.
LEMMA RecoverOwn ==
  ASSUME RunsInv, NEW k \in Clicks, view[k] = "recovering", NEW s \in OwnSeals(k)
  PROVE  s.objective = Objective[k] /\ Sealed(Id[k], s.objective)
<1>1. k \in Consoles
  BY DEF RunsInv, ReplyInv
<1>2. s \in seals /\ s.id = Id[k]
  BY DEF OwnSeals, SealsOf
<1>3. s.by \in Posts /\ s.by[1] \in Clicks /\ Id[s.by[1]] = Id[k]
      /\ s.objective = Objective[s.by[1]]
  BY <1>2, PostShape DEF RunsInv, SealInv, IdOf, ObjectiveOf
<1>4. s.by[1] = k
  BY <1>1, <1>3, AgentAssumption
<1>5. QED BY <1>2, <1>3, <1>4 DEF Sealed

LEMMA ClientShows ==
  ASSUME RunsInv, NEW k \in Clicks,
         Submit(k) \/ ClickStep(k) \/ (k \in Consoles /\ ConsoleStep(k))
  PROVE  /\ OwnRunShown'
         /\ \A c \in Clicks : view'[c] = "recovering" => c \in Consoles
<1> USE DEF RunsInv
<1>1. \A c \in Clicks : view[c] = "recovering" => c \in Consoles
  BY DEF ReplyInv
<1>2. ASSUME seals' = seals, shown' = shown, view' \in [Clicks -> Views],
             \A c \in Clicks \ {k} : view'[c] = view[c],
             view'[k] # "shown", view'[k] = "recovering" => k \in Consoles
      PROVE  /\ OwnRunShown'
             /\ \A c \in Clicks : view'[c] = "recovering" => c \in Consoles
  BY <1>1, <1>2 DEF ReplyInv, OwnRunShown, SealsOf
<1>3. ASSUME NEW route, <<k, route>> \in Posts, Conclude(k, reply[<<k, route>>])
      PROVE  /\ OwnRunShown'
             /\ \A c \in Clicks : view'[c] = "recovering" => c \in Consoles
  BY <1>1, <1>3, OwnConclusion, PostOf DEF ReplyInv
<1>4. CASE Submit(k)
  <2>1. view' = [view EXCEPT ![k] = IF k \in Consoles THEN "posted" ELSE "fallback"]
        /\ shown' = shown /\ seals' = seals
    BY <1>4 DEF Submit
  <2>2. view' \in [Clicks -> Views] /\ view'[k] \notin {"shown", "recovering"}
    BY <2>1 DEF AgentTypeOK, Views
  <2>3. \A c \in Clicks \ {k} : view'[c] = view[c]
    BY <2>1 DEF AgentTypeOK
  <2>4. QED BY <1>2, <2>1, <2>2, <2>3
<1>5. CASE ReadPlain(k) BY <1>3, <1>5, PostShape DEF ReadPlain
<1>6. CASE LosePlain(k)
  BY <1>1, <1>6, OwnConclusion, ObjectivesApart DEF LosePlain, Refusals
<1>7. CASE Recover(k)
  <2>1. PICK s \in OwnSeals(k) : Conclude(k, s.objective)
    BY <1>7 DEF Recover
  <2>2. s.objective = Objective[k] /\ Sealed(Id[k], s.objective)
    BY <1>7, RecoverOwn DEF Recover
  <2>3. QED BY <1>1, <2>1, <2>2, OwnConclusion
<1>8. CASE StopPolling(k) BY <1>2, <1>8 DEF StopPolling, AgentTypeOK, server, Views
<1>9. CASE k \in Consoles /\ Read(k) BY <1>3, <1>9, PostShape DEF Read
<1>10. CASE k \in Consoles /\ (Open(k) \/ FallBack(k) \/ Drop(k) \/ ReadConflict(k))
  BY <1>2, <1>10 DEF Open, FallBack, Drop, ReadConflict, AgentTypeOK, server, Views
<1>11. QED
  BY <1>4, <1>5, <1>6, <1>7, <1>8, <1>9, <1>10 DEF ClickStep, ConsoleStep

LEMMA StepReplyInv ==
  ASSUME RunsInv, Next
  PROVE  ReplyInv'
<1> USE DEF RunsInv
<1>1. ASSUME \A q \in Posts : reply'[q] \in Objectives =>
               \/ reply'[q] = reply[q]
               \/ reply'[q] = ObjectiveOf(q) /\ Sealed(IdOf(q), ObjectiveOf(q))
      PROVE  \A q \in Posts : reply'[q] \in Objectives =>
               reply'[q] = ObjectiveOf(q) /\ Sealed(IdOf(q), reply[q])'
  BY <1>1, SealsKept DEF ReplyInv, Sealed
<1>2. ASSUME UNCHANGED client
      PROVE  /\ OwnRunShown'
             /\ \A c \in Clicks : view'[c] = "recovering" => c \in Consoles
  BY <1>2, SealsKept DEF ReplyInv, OwnRunShown, SealsOf, client
<1>3. ASSUME NEW p \in Posts, ServerStep(p) PROVE ReplyInv'
  BY <1>1, <1>2, <1>3, ServerReplies, ServerUnsent DEF ReplyInv
<1>4. ASSUME (\E p \in Posts : Lose(p)) \/ Restart PROVE ReplyInv'
  BY <1>1, <1>2, <1>4 DEF ReplyInv, Lose, Restart
<1>5. ASSUME NEW k \in Clicks,
             Submit(k) \/ ClickStep(k) \/ (k \in Consoles /\ ConsoleStep(k))
      PROVE  ReplyInv'
  BY <1>1, <1>5, ClientSends, ClientShows DEF ReplyInv
<1>6. QED BY <1>3, <1>4, <1>5, PostShape DEF Next

LEMMA StepRunsInv == RunsInv /\ [Next]_vars => RunsInv'
<1> SUFFICES ASSUME RunsInv, [Next]_vars PROVE RunsInv'
  OBVIOUS
<1>1. CASE Next
  BY <1>1, NextTypes, StepRegistryInv, StepSealInv, StepReplyInv, StepUnsentInv DEF RunsInv
<1>2. CASE UNCHANGED vars
  <2>1. AgentTypeOK'
    BY <1>2, NextTypes DEF RunsInv
  <2>2. UNCHANGED <<inflight, at, reply, seals, view, shown>>
    BY <1>2 DEF vars, server, client
  <2>3. RegistryInv' /\ UnsentInv'
    BY <2>2 DEF RunsInv, RegistryInv, Has, Holding, UnsentInv
  <2>4. SealInv'
    BY <2>2 DEF RunsInv, SealInv, SealedOnce, Sealed, SealsOf
  <2>5. ReplyInv'
    BY <2>2 DEF RunsInv, ReplyInv, OwnRunShown, Sealed, SealsOf
  <2>6. QED BY <2>1, <2>3, <2>4, <2>5 DEF RunsInv
<1>3. QED BY <1>1, <1>2

-----------------------------------------------------------------------------
(* Theorems.                                                               *)

\* Every reachable state of the routes, the registry and the clients has its
\* types.
THEOREM AgentTypeCorrect == Spec => []AgentTypeOK
<1>1. RunsInv => AgentTypeOK
  BY DEF RunsInv
<1>2. QED BY InitRunsInv, StepRunsInv, <1>1, PTL DEF Spec

\* A request id is sealed at most once, for any number of posts, retries,
\* failures and restarts.
THEOREM IdSealedOnce == Spec => []SealedOnce
<1>1. RunsInv => SealedOnce
  BY DEF RunsInv, SealInv
<1>2. QED BY InitRunsInv, StepRunsInv, <1>1, PTL DEF Spec

\* A click shows a gated record or a sealed run of its own objective and id,
\* never another one's, however it came by it.
THEOREM ClickShowsItsRun == Spec => []OwnRunShown
<1>1. RunsInv => OwnRunShown
  BY DEF RunsInv, ReplyInv
<1>2. QED BY InitRunsInv, StepRunsInv, <1>1, PTL DEF Spec

-----------------------------------------------------------------------------
(* Refinement: each step is a step of IdempotentRuns on the fate of every  *)
(* id, or leaves it alone.                                                 *)

LEMMA InitPromise == Init => Promise!Init
BY DEF Init, Promise!Init, Fate, SealsOf

\* The fate of an id, from its seals and from who executes it.
LEMMA FateOf ==
  ASSUME NEW i \in Ids
  PROVE  /\ Fate[i] = "sealed" <=> SealsOf(i) # {}
         /\ Fate[i] = "running" <=> /\ SealsOf(i) = {}
                                    /\ \E p \in Posts : at[p] = "executing" /\ IdOf(p) = i
         /\ Fate[i] \in {"none", "running", "sealed"}
BY DEF Fate

LEMMA StutterPromise ==
  ASSUME runs' = runs, seals' = seals,
         \A q \in Posts : at'[q] = "executing" <=> at[q] = "executing"
  PROVE  UNCHANGED Promise!vars
BY DEF Promise!vars, Fate, SealsOf

\* A run has its id to itself.
LEMMA SoleRun ==
  ASSUME RunsInv, NEW p \in Posts, at[p] \in {"running", "executing"},
         NEW q \in Posts \ {p}, at[q] \in {"running", "executing"}
  PROVE  IdOf(q) # IdOf(p)
BY DEF RunsInv, RegistryInv, Has, Holding

LEMMA ExecuteBegins ==
  ASSUME RunsInv, NEW p \in Posts, Execute(p)
  PROVE  Promise!Begin(IdOf(p))
<1> USE PostShape DEF RunsInv, AgentTypeOK
<1>1. at[p] = "running" /\ at' = [at EXCEPT ![p] = "executing"] /\ seals' = seals
      /\ runs' = [runs EXCEPT ![IdOf(p)] = @ + 1]
  BY DEF Execute, To
<1>2. SealsOf(IdOf(p)) = {} /\ ~\E q \in Posts : at[q] = "executing" /\ IdOf(q) = IdOf(p)
  BY <1>1, SoleRun DEF SealInv
<1>3. Fate[IdOf(p)] = "none"
  BY <1>2, FateOf
<1>4. Fate' = [Fate EXCEPT ![IdOf(p)] = "running"]
  <2>1. \A i \in Ids : SealsOf(i)' = SealsOf(i)
    BY <1>1 DEF SealsOf
  <2>2. \A q \in Posts \ {p} : at'[q] = at[q]
    BY <1>1
  <2>3. at'[p] = "executing" /\ at[p] # "executing"
    BY <1>1
  <2>4. QED BY <1>2, <2>1, <2>2, <2>3 DEF Fate
<1>5. QED BY <1>1, <1>3, <1>4 DEF Promise!Begin

LEMMA SealSeals ==
  ASSUME RunsInv, NEW p \in Posts, Seal(p)
  PROVE  Promise!Seal(IdOf(p))
<1> USE PostShape DEF RunsInv, AgentTypeOK
<1> DEFINE n == [id |-> IdOf(p), objective |-> ObjectiveOf(p), by |-> p]
<1>1. at[p] = "executing" /\ at' = [at EXCEPT ![p] = "sealed"] /\ seals' = seals \cup {n}
      /\ runs' = runs
  BY DEF Seal, To
<1>2. n.id = IdOf(p)
  OBVIOUS
<1> HIDE DEF n
<1>3. SealsOf(IdOf(p)) = {} /\ SealsOf(IdOf(p))' # {}
  BY <1>1, <1>2 DEF SealInv, SealsOf
<1>4. Fate[IdOf(p)] = "running"
  BY <1>1, <1>3, FateOf
<1>5. Fate' = [Fate EXCEPT ![IdOf(p)] = "sealed"]
  <2>1. \A i \in Ids \ {IdOf(p)} : SealsOf(i)' = SealsOf(i)
    BY <1>1, <1>2 DEF SealsOf
  <2>2. \A i \in Ids \ {IdOf(p)} :
          (\E q \in Posts : at[q] = "executing" /\ IdOf(q) = i)
            <=> (\E q \in Posts : at'[q] = "executing" /\ IdOf(q) = i)
    BY <1>1
  <2>3. QED BY <1>3, <2>1, <2>2 DEF Fate
<1>6. QED BY <1>1, <1>4, <1>5 DEF Promise!Seal

\* Runs that end without a seal, in the posts of S.
LEMMA LosingRuns ==
  ASSUME RunsInv, NEW S \in SUBSET Posts, runs' = runs, seals' = seals,
         \A q \in S : at[q] = "executing" /\ at'[q] # "executing",
         \A q \in Posts \ S : at'[q] = "executing" <=> at[q] = "executing"
  PROVE  Promise!Lose({IdOf(q) : q \in S})
<1> DEFINE I == {IdOf(q) : q \in S}
<1>1. I \subseteq Ids
  BY PostShape
<1>2. \A q \in S : SealsOf(IdOf(q)) = {}
  BY DEF RunsInv, SealInv
<1>3. \A i \in I : Fate[i] = "running"
  BY <1>1, <1>2, FateOf
<1>4. \A i \in Ids : SealsOf(i)' = SealsOf(i)
  BY DEF SealsOf
<1>5. \A i \in I : ~\E q \in Posts : at'[q] = "executing" /\ IdOf(q) = i
  BY SoleRun
<1>6. \A i \in Ids \ I :
        (\E q \in Posts : at[q] = "executing" /\ IdOf(q) = i)
          <=> (\E q \in Posts : at'[q] = "executing" /\ IdOf(q) = i)
  OBVIOUS
<1>7. \A i \in I : SealsOf(i) = {}
  BY <1>2
<1> HIDE DEF I
<1>8. Fate' = [i \in Ids |-> IF i \in I THEN "none" ELSE Fate[i]]
  BY <1>4, <1>5, <1>6, <1>7 DEF Fate
<1>9. Promise!Lose(I)
  BY <1>3, <1>8 DEF Promise!Lose
<1>10. QED BY <1>9 DEF I

LEMMA StepPromise == RunsInv /\ [Next]_vars => [Promise!Next]_(Promise!vars)
<1> SUFFICES ASSUME RunsInv, [Next]_vars PROVE Promise!Next \/ UNCHANGED Promise!vars
  OBVIOUS
<1> USE DEF RunsInv, AgentTypeOK
<1>1. ASSUME NEW S \in SUBSET Posts, Promise!Lose({IdOf(q) : q \in S}) PROVE Promise!Next
  <2>1. {IdOf(q) : q \in S} \in SUBSET Ids
    BY PostShape
  <2>2. QED BY <1>1, <2>1 DEF Promise!Next
<1>2. ASSUME NEW p \in Posts, Execute(p) PROVE Promise!Next
  BY <1>2, ExecuteBegins, PostShape DEF Promise!Next
<1>3. ASSUME NEW p \in Posts, Seal(p) PROVE Promise!Next
  BY <1>3, SealSeals, PostShape DEF Promise!Next
<1>4. ASSUME NEW p \in Posts, RunFails(p) PROVE Promise!Next \/ UNCHANGED Promise!vars
  <2>1. runs' = runs /\ seals' = seals /\ at' = [at EXCEPT ![p] = "closing"]
    BY <1>4 DEF RunFails, To
  <2>2. CASE at[p] = "executing"
    BY <1>1, <2>1, <2>2, LosingRuns, {p} \in SUBSET Posts
  <2>3. CASE at[p] # "executing"
    BY <2>1, <2>3, StutterPromise
  <2>4. QED BY <2>2, <2>3
<1>5. ASSUME NEW p \in Posts,
             \/ Duplicate(p) \/ Claim(p) \/ Replay(p) \/ Proceed(p) \/ ThreadFails(p)
             \/ LookupFails(p) \/ Gate(p) \/ Finish(p) \/ Release(p)
      PROVE  UNCHANGED Promise!vars
  BY <1>5, StutterPromise
     DEF Duplicate, Claim, Replay, Proceed, ThreadFails, LookupFails, Gate, Finish, Release, To
<1>6. ASSUME NEW p \in Posts, Lose(p) PROVE UNCHANGED Promise!vars
  BY <1>6, StutterPromise DEF Lose
<1>7. CASE Restart
  <2> DEFINE S == {p \in Posts : at[p] = "executing"}
  <2>1. runs' = runs /\ seals' = seals /\ \A q \in Posts : at'[q] # "executing"
    BY <1>7 DEF Restart, Holding
  <2>2. QED BY <1>1, <2>1, LosingRuns, S \in SUBSET Posts
<1>8. ASSUME NEW k \in Clicks,
             Submit(k) \/ ClickStep(k) \/ (k \in Consoles /\ ConsoleStep(k))
      PROVE  UNCHANGED Promise!vars
  BY <1>8, ClientSends, StutterPromise
<1>9. CASE UNCHANGED vars
  BY <1>9, StutterPromise DEF vars, server
<1>10. QED
  BY <1>2, <1>3, <1>4, <1>5, <1>6, <1>7, <1>8, <1>9, PostShape DEF Next, ServerStep

\* The routes keep the promise of a request id: one run at a time, none after
\* a seal, for any posts, retries, faults and restarts.
THEOREM RunsImplementPromise == Spec => ImplementsIdempotentRuns
<1>1. QED
  BY InitRunsInv, StepRunsInv, InitPromise, StepPromise, PTL
     DEF Spec, ImplementsIdempotentRuns, Promise!Spec
=============================================================================

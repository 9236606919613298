------------------------------ MODULE DataRoom ------------------------------
(***************************************************************************)
(* The data room of a deal: the versions of a logical document, the        *)
(* redactions people propose and decide on it, and the revisions of a claim*)
(* extracted from it (services/deal_intelligence_service.py).              *)
(*                                                                         *)
(* A request loads rows, checks them and writes later: what it holds in    *)
(* between is req[w].  A person may have several windows open, each with a *)
(* request at a time.  A request                                           *)
(* that fails after its checks (a lost unique constraint, an error, a      *)
(* crash of the process) leaves nothing behind: Abandon.                   *)
(***************************************************************************)
EXTENDS Naturals, Sequences, FiniteSets, SequencesExt

CONSTANTS
  Users,
  Humans,        \* the users with a session of their own; the others are automation
  Windows,       \* the browser windows and API clients that make requests
  Person,        \* whose they are
  Agendas,       \* [kinds: the requests made together, windows, begun]
  Texts, Proposals,
  Nobody, Nothing,
  MaxVersions,   \* bound on the versions of the document
  MaxRevisions   \* bound on the revisions of the claim

ASSUME DataRoomAssumption ==
  /\ Humans \subseteq Users /\ Person \in [Windows -> Users] /\ Nobody \notin Users /\ Nothing \notin Proposals
  /\ MaxVersions \in Nat /\ MaxRevisions \in Nat

VARIABLES
  agenda,     \* what this behavior is about
  req,        \* req[w]: what the request of w has loaded, and will write
  docs,       \* the versions of the document
  proposals,  \* redaction proposals
  claims      \* the revisions of the claim

roomVars == <<docs, proposals, claims>>

Idle == [op |-> "none"]
\* A window that waits for nothing may make any request of the agenda,
\* whatever the requests of other windows are about.
MayBegin(w, op) == op \in agenda.kinds /\ w \in agenda.windows /\ req[w] = Idle
Hold(w, r) == req' = [req EXCEPT ![w] = r]
Done(w) == Hold(w, Idle)
Holds(w, op) == req[w].op = op
\* The session writes a column only if its value differs from the one loaded.
Written(new, loaded, now) == IF new = loaded THEN now ELSE new

Upload(text) == [text |-> text, hides |-> {}, of |-> Nothing]
Redacted(doc, p) == [doc EXCEPT !.hides = @ \cup {p}, !.of = p]
\* The digests of two versions are equal.
SameContent(d, e) == d.text = e.text /\ d.hides = e.hides
\* ingest_document refuses the content that the latest version has.
Fresh(doc) == docs # <<>> => ~ SameContent(doc, Last(docs))

Unproposed == [status |-> "none", on |-> 0, by |-> Nobody, decider |-> Nobody, link |-> 0]

Claim(status, who, doc) == [status |-> status, by |-> who, doc |-> doc]

\* The room is met empty, or once a claim of its first document is approved.
RoomInit ==
  /\ agenda \in Agendas
  /\ req = [w \in Windows |-> Idle]
  /\ proposals = [p \in Proposals |-> Unproposed]
  /\ IF ~ agenda.begun THEN docs = <<>> /\ claims = <<>>
     ELSE \E t \in Texts, author \in Users : \E reviewer \in Humans \ {author} :
            /\ docs = <<Upload(t)>>
            /\ claims = <<Claim("unreviewed", author, 1), Claim("approved", reviewer, 1)>>

-----------------------------------------------------------------------------
(* Documents and redactions. *)

IngestDocument(w, text) ==
  /\ MayBegin(w, "upload")
  /\ Len(docs) < MaxVersions /\ Fresh(Upload(text))
  /\ docs' = Append(docs, Upload(text))
  /\ UNCHANGED <<req, proposals, claims>>

ProposeRedaction(w, p) ==
  /\ MayBegin(w, "propose") /\ Person[w] \in Humans
  /\ proposals[p].status = "none" /\ docs # <<>>
  /\ proposals' = [proposals EXCEPT
       ![p] = [Unproposed EXCEPT !.status = "proposed", !.on = Len(docs), !.by = Person[w]]]
  /\ UNCHANGED <<req, docs, claims>>

\* SELECT ... FOR UPDATE waits while another transaction decides p.
Locked(p) == \E v \in Windows : Holds(v, "redact") /\ req[v].on = p

MayDecide(w, p) == Person[w] \in Humans /\ proposals[p].status = "proposed" /\ proposals[p].by # Person[w]

\* Mutant of OpenRedaction: the proposal is read without its row lock.
OpenRedactionUnlocked(w, p, verdict) ==
  /\ MayBegin(w, "redact") /\ MayDecide(w, p)
  /\ verdict = "approved" => proposals[p].on = Len(docs)
  /\ Hold(w, [op |-> "redact", on |-> p, what |-> verdict])
  /\ UNCHANGED roomVars

OpenRedaction(w, p, verdict) ==
  /\ MayBegin(w, "redact") /\ ~ Locked(p) /\ MayDecide(w, p)
  /\ verdict = "approved" => proposals[p].on = Len(docs)
  /\ Hold(w, [op |-> "redact", on |-> p, what |-> verdict])
  /\ UNCHANGED roomVars

Decided(w) ==
  [proposals EXCEPT ![req[w].on].status = req[w].what, ![req[w].on].decider = Person[w]]

RejectRedaction(w) ==
  /\ Holds(w, "redact") /\ req[w].what = "rejected"
  /\ proposals' = Decided(w)
  /\ Done(w)
  /\ UNCHANGED <<docs, claims>>

\* The decision and the version it mints commit together; the version goes
\* on top of the stream, whatever was uploaded since the check.
MintRedacted(w) ==
  LET p == req[w].on
      doc == Redacted(docs[proposals[p].on], p)
  IN /\ Holds(w, "redact") /\ req[w].what = "approved"
     /\ Len(docs) < MaxVersions /\ Fresh(doc)
     /\ docs' = Append(docs, doc)
     /\ proposals' = Decided(w)
     /\ Hold(w, [op |-> "link", on |-> p, to |-> Len(docs) + 1])
     /\ UNCHANGED claims

\* The link to the minted version is a transaction of its own.
LinkRedacted(w) ==
  /\ Holds(w, "link")
  /\ proposals' = [proposals EXCEPT ![req[w].on].link = req[w].to]
  /\ Done(w)
  /\ UNCHANGED <<docs, claims>>

-----------------------------------------------------------------------------
(* Claims: a review appends a revision. *)

ExtractClaims(w) ==
  /\ MayBegin(w, "extract")
  /\ claims = <<>> /\ docs # <<>>
  /\ claims' = <<Claim("unreviewed", Person[w], Len(docs))>>
  /\ UNCHANGED <<req, docs, proposals>>

\* What a review of each kind makes of the claim.
Reviews == {"approved", "rejected", "unreviewed"}

OpenReview(w, outcome) ==
  /\ MayBegin(w, "review") /\ Person[w] \in Humans
  /\ claims # <<>> /\ Len(claims) < MaxRevisions
  /\ outcome # "unreviewed" => Last(claims).by # Person[w]
  /\ Hold(w, [op |-> "review", on |-> Len(claims), what |-> outcome])
  /\ UNCHANGED roomVars

\* Mutant of ReviewClaim: a review sets the status of the revision it read.
ReviewInPlace(w) ==
  /\ Holds(w, "review")
  /\ claims' = [claims EXCEPT ![req[w].on].status = req[w].what]
  /\ Done(w)
  /\ UNCHANGED <<docs, proposals>>

\* Mutant of ReviewClaim: without the unique constraint on the revision.
ReviewLatest(w) ==
  /\ Holds(w, "review")
  /\ claims' = Append(claims, Claim(req[w].what, Person[w], claims[req[w].on].doc))
  /\ Done(w)
  /\ UNCHANGED <<docs, proposals>>

\* The unique constraint on the revision refuses the second of two reviews.
ReviewClaim(w) ==
  /\ Holds(w, "review") /\ req[w].on = Len(claims)
  /\ claims' = Append(claims, Claim(req[w].what, Person[w], claims[req[w].on].doc))
  /\ Done(w)
  /\ UNCHANGED <<docs, proposals>>

\* A request ends without a trace after its checks.
Abandon(w) ==
  /\ req[w] # Idle
  /\ Done(w)
  /\ UNCHANGED roomVars

RoomStep(w) ==
  \/ \E t \in Texts : IngestDocument(w, t)
  \/ \E p \in Proposals : ProposeRedaction(w, p)
  \/ \E p \in Proposals, v \in {"approved", "rejected"} : OpenRedaction(w, p, v)
  \/ RejectRedaction(w) \/ MintRedacted(w) \/ LinkRedacted(w)
  \/ ExtractClaims(w)
  \/ \E r \in Reviews : OpenReview(w, r)
  \/ ReviewClaim(w)

-----------------------------------------------------------------------------

VersionsOf(p) == {n \in DOMAIN docs : docs[n].of = p}

\* An approved redaction has minted exactly one version, any other none, and
\* a link leads to the version of its proposal: two people deciding at once,
\* a double click or a crash after the decision never mint twice or lose it.
MintedOnce == \A p \in Proposals :
  /\ Cardinality(VersionsOf(p)) = IF proposals[p].status = "approved" THEN 1 ELSE 0
  /\ proposals[p].link # 0 => proposals[p].link \in VersionsOf(p)

\* Nobody decides on a redaction of their own, and whoever approves or
\* rejects a claim is not the author of the revision under review, even when
\* an edit slips in between.
RoomFourEyes ==
  /\ \A p \in Proposals : proposals[p].status \in {"approved", "rejected"} =>
       proposals[p].decider \in Humans \ {proposals[p].by}
  /\ \A n \in 2..Len(claims) : claims[n].status # "unreviewed" =>
       claims[n].by \in Humans \ {claims[n - 1].by}

\* What a redaction mints is the latest version with its spans removed
\* ("approving one would splice into the wrong version and mint a regression
\* on top of the newer content. Both paths refuse", _require_latest_version).
RedactionOnLatest == \A n \in 2..Len(docs) : docs[n].of # Nothing =>
  SameContent(docs[n], Redacted(docs[n - 1], docs[n].of))
=============================================================================

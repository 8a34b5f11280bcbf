--------------------------- MODULE CandidateReview ---------------------------
(***************************************************************************)
(* The human gate of the extraction pipeline: CandidateReviewService       *)
(* (accept / reject of one staged candidate), the on-accept ReMatchService *)
(* that follows a commit, the browser's review queue that submits the      *)
(* decisions, and the entity deletion that can run beside them.            *)
(*                                                                         *)
(* A candidate row, its decision row and its mention live in Postgres; the *)
(* entity node and its aliases live in Neo4j.  No transaction spans the    *)
(* two, every store call is its own autocommit statement, and every await  *)
(* lets other requests run: one action here is one store call of one       *)
(* request.  A request may die between any two calls (a store error is     *)
(* answered 503, a crash is not answered) and the author submits again.    *)
(*                                                                         *)
(* A candidate stands for its own surface form (the alias a merge adds).   *)
(* All candidates belong to one story and are already staged; how they got *)
(* there is the subject of module Ingest.                                  *)
(***************************************************************************)
EXTENDS Naturals

CONSTANTS
  Candidates,    \* staged candidate rows of the story
  Seeds,         \* entities the graph held before this review
  NoEntity,      \* Python's None where an entity id is optional
  NoDecision,    \* "no candidate_decisions row"
  NoCandidate,   \* the candidate of an idle request
  Requests,      \* accept/reject requests that can be in flight together
  Asks,          \* the decisions the author may submit for each candidate
  StrongMatch,   \* pairs <<pending, accepted>> the deterministic matcher flips
  Deletable,     \* entities the author may delete while reviewing
  MaxFailures    \* bound on requests that die half way

(* uuid5(_ACCEPT_NS, "entity:{candidate.id}"): the id an accept creates.   *)
AcceptedEntity(c) == <<"entity", c>>

EntityId == Seeds \cup {AcceptedEntity(c) : c \in Candidates}
OptEntity == EntityId \cup {NoEntity}

Status == {"review-queued", "created", "merged", "rejected"}
Terminal == Status \ {"review-queued"}
Committed == {"created", "merged"}

Proposal == [proposal : {"new", "merge"}, target : OptEntity]
Row == [status : Status, proposal : {"new", "merge"}, target : OptEntity]
Decision == [decision : Terminal, target : OptEntity, shown : Proposal]

(* The body of an accept (AcceptRequest) or a reject.  "default" is an     *)
(* accept with action = None; target is the optional override.             *)
Ask == [act : {"default", "create", "merge", "reject"}, target : OptEntity]

ASSUME ConstantsAssumption ==
  /\ NoEntity \notin EntityId
  /\ NoDecision \notin Decision
  /\ NoCandidate \notin Candidates
  /\ \A c \in Candidates : AcceptedEntity(c) \notin Seeds
  /\ Asks \in [Candidates -> SUBSET Ask]
  /\ StrongMatch \subseteq Candidates \X Candidates
  /\ Deletable \subseteq EntityId
  /\ MaxFailures \in Nat

VARIABLES
  row,       \* Postgres candidates: status, proposal and target of each row
  decision,  \* Postgres candidate_decisions, keyed by candidate (uuid5 id)
  mention,   \* Postgres entity_mentions written by accepts: the entity named
  nodes,     \* Neo4j entity nodes
  aliases,   \* Neo4j alias lists: the surface forms folded into each entity
  req,       \* the requests in flight, with their local variables
  editor,    \* the delete_entity request in flight, if any
  deleted,   \* history: entities whose deletion has begun
  failures   \* requests that have died so far

stores == <<row, decision, mention, nodes, aliases>>
vars == <<row, decision, mention, nodes, aliases, req, editor, deleted, failures>>

Pc == {"idle", "load", "check", "write", "mention", "record", "flip",
       "list", "rematch"}

NewProposal == [proposal |-> "new", target |-> NoEntity]

Idle ==
  [pc |-> "idle", cand |-> NoCandidate,
   ask |-> [act |-> "reject", target |-> NoEntity],
   seen |-> NewProposal, shown |-> NewProposal,
   outcome |-> "rejected", entity |-> NoEntity, pend |-> {}]

Request ==
  [pc : Pc, cand : Candidates \cup {NoCandidate}, ask : Ask,
   seen : Proposal, shown : Proposal,
   outcome : Terminal, entity : OptEntity, pend : SUBSET Candidates]

TypeOK ==
  /\ row \in [Candidates -> Row]
  /\ decision \in [Candidates -> Decision \cup {NoDecision}]
  /\ mention \in [Candidates -> OptEntity]
  /\ nodes \subseteq EntityId
  /\ aliases \in [EntityId -> SUBSET Candidates]
  /\ req \in [Requests -> Request]
  /\ \A r \in Requests : req[r].pc # "idle" => req[r].cand \in Candidates
  /\ \A r \in Requests :
       \/ req[r].pc \in {"check", "write", "mention", "list", "rematch"}
       \/ req[r].pc \in {"record", "flip"} /\ req[r].outcome # "rejected"
       => req[r].entity \in EntityId
  /\ editor \in [pc : {"idle", "mentions", "node"}, entity : OptEntity]
  /\ editor.pc # "idle" => editor.entity \in EntityId
  /\ deleted \subseteq EntityId
  /\ failures \in Nat

ProposalOf(c) == [proposal |-> row[c].proposal, target |-> row[c].target]

(* CandidateStager's resting output: NEW, or MERGE into an entity that was *)
(* in the graph when the paragraph was staged.                             *)
Init ==
  /\ row \in [Candidates ->
               {[status |-> "review-queued", proposal |-> "new",
                 target |-> NoEntity]}
               \cup [status : {"review-queued"}, proposal : {"merge"},
                     target : Seeds]]
  /\ decision = [c \in Candidates |-> NoDecision]
  /\ mention = [c \in Candidates |-> NoEntity]
  /\ nodes = Seeds
  /\ aliases = [e \in EntityId |-> {}]
  /\ req = [r \in Requests |-> Idle]
  /\ editor = [pc |-> "idle", entity |-> NoEntity]
  /\ deleted = {}
  /\ failures = 0

-----------------------------------------------------------------------------
(* The browser *)

(* The author decides a card of the review queue, which displays the row   *)
(* as fetched at this moment; the request reads the row for itself later.  *)
(* Nothing stops a second decision on a card whose first is in flight: the *)
(* keyboard path never looks at "pending", and only the card decided last  *)
(* is disabled.                                                            *)
Submit(r) ==
  /\ req[r].pc = "idle"
  /\ \E c \in Candidates : \E a \in Asks[c] :
       /\ row[c].status = "review-queued"
       /\ req' = [req EXCEPT ![r] = [Idle EXCEPT !.pc = "load", !.cand = c,
                                               !.ask = a, !.seen = ProposalOf(c)]]
  /\ UNCHANGED <<stores, editor, deleted, failures>>

-----------------------------------------------------------------------------
(* Accept and reject *)

Finish(r) == req' = [req EXCEPT ![r] = Idle]

(* The merge branch is taken on an explicit "merge", or by default when    *)
(* the row read proposes one.                                              *)
ResolvesToMerge(ask, c) ==
  \/ ask.act = "merge"
  \/ ask.act = "default" /\ row[c].proposal = "merge"

MergeTarget(ask, c) ==
  IF ask.target # NoEntity THEN ask.target ELSE row[c].target

(* From here the request works on the row it has read.                     *)
Loaded(r, pc, outcome, entity) ==
  req' = [req EXCEPT ![r] = [Idle EXCEPT
           !.pc = pc, !.cand = req[r].cand, !.seen = req[r].seen,
           !.shown = ProposalOf(req[r].cand),
           !.outcome = outcome, !.entity = entity]]

(* _load_open: an already decided row is answered without writing, and so  *)
(* is a merge with no target (409).                                        *)
LoadNothingToDo(r) ==
  LET c == req[r].cand
      a == req[r].ask
  IN  /\ req[r].pc = "load"
      /\ \/ row[c].status # "review-queued"
         \/ ResolvesToMerge(a, c) /\ MergeTarget(a, c) = NoEntity
      /\ Finish(r)
      /\ UNCHANGED <<stores, editor, deleted, failures>>

LoadReject(r) ==
  LET c == req[r].cand
  IN  /\ req[r].pc = "load"
      /\ row[c].status = "review-queued"
      /\ req[r].ask.act = "reject"
      /\ Loaded(r, "record", "rejected", row[c].target)
      /\ UNCHANGED <<stores, editor, deleted, failures>>

LoadMergeUntargeted(r) ==   \* mutant: a merge without a target is let through
  LET c == req[r].cand
      a == req[r].ask
  IN  /\ req[r].pc = "load"
      /\ row[c].status = "review-queued"
      /\ ResolvesToMerge(a, c)
      /\ Loaded(r, "check", "merged", MergeTarget(a, c))
      /\ UNCHANGED <<stores, editor, deleted, failures>>

LoadMerge(r) ==
  LET c == req[r].cand
      a == req[r].ask
  IN  /\ req[r].pc = "load"
      /\ row[c].status = "review-queued"
      /\ ResolvesToMerge(a, c)
      /\ MergeTarget(a, c) # NoEntity
      /\ Loaded(r, "check", "merged", MergeTarget(a, c))
      /\ UNCHANGED <<stores, editor, deleted, failures>>

LoadCreate(r) ==
  LET c == req[r].cand
      a == req[r].ask
  IN  /\ req[r].pc = "load"
      /\ row[c].status = "review-queued"
      /\ a.act \in {"default", "create"}
      /\ ~ResolvesToMerge(a, c)
      /\ Loaded(r, "write", "created", AcceptedEntity(c))
      /\ UNCHANGED <<stores, editor, deleted, failures>>

(* _merge re-validates its target; a vanished one is answered 409.         *)
CheckTarget(r) ==
  /\ req[r].pc = "check"
  /\ IF req[r].entity \in nodes
       THEN req' = [req EXCEPT ![r].pc = "write"]
       ELSE Finish(r)
  /\ UNCHANGED <<stores, editor, deleted, failures>>

(* add_alias: SET on a matched node only, the list de-duplicated.          *)
AddAlias(r) ==
  /\ req[r].pc = "write"
  /\ req[r].outcome = "merged"
  /\ aliases' = IF req[r].entity \in nodes
                  THEN [aliases EXCEPT ![req[r].entity] = @ \cup {req[r].cand}]
                  ELSE aliases
  /\ req' = [req EXCEPT ![r].pc = "mention"]
  /\ UNCHANGED <<row, decision, mention, nodes, editor, deleted, failures>>

CreateEntityUnmentioned(r) ==   \* mutant: a create skips its mention
  /\ req[r].pc = "write"
  /\ req[r].outcome = "created"
  /\ nodes' = nodes \cup {req[r].entity}
  /\ req' = [req EXCEPT ![r].pc = "record"]
  /\ UNCHANGED <<row, decision, mention, aliases, editor, deleted, failures>>

(* create_entity: MERGE on the deterministic id.                           *)
CreateEntity(r) ==
  /\ req[r].pc = "write"
  /\ req[r].outcome = "created"
  /\ nodes' = nodes \cup {req[r].entity}
  /\ req' = [req EXCEPT ![r].pc = "mention"]
  /\ UNCHANGED <<row, decision, mention, aliases, editor, deleted, failures>>

AddMentionOnce(r) ==   \* mutant: the INSERT raises on a duplicate id
  LET c == req[r].cand
  IN  /\ req[r].pc = "mention"
      /\ IF mention[c] = NoEntity
           THEN /\ mention' = [mention EXCEPT ![c] = req[r].entity]
                /\ req' = [req EXCEPT ![r].pc = "record"]
           ELSE /\ Finish(r)
                /\ UNCHANGED mention
      /\ UNCHANGED <<row, decision, nodes, aliases, editor, deleted, failures>>

(* add_mention: INSERT ... ON CONFLICT (id) DO NOTHING, id from the candidate. *)
AddMention(r) ==
  LET c == req[r].cand
  IN  /\ req[r].pc = "mention"
      /\ mention' = IF mention[c] = NoEntity
                      THEN [mention EXCEPT ![c] = req[r].entity]
                      ELSE mention
      /\ req' = [req EXCEPT ![r].pc = "record"]
      /\ UNCHANGED <<row, decision, nodes, aliases, editor, deleted, failures>>

RecordCommitsOnly(r) ==   \* mutant: a rejection leaves no evidence
  LET c == req[r].cand
  IN  /\ req[r].pc = "record"
      /\ decision' =
           IF decision[c] = NoDecision /\ req[r].outcome # "rejected"
             THEN [decision EXCEPT ![c] = [decision |-> req[r].outcome,
                                           target   |-> req[r].entity,
                                           shown    |-> req[r].shown]]
             ELSE decision
      /\ req' = [req EXCEPT ![r].pc = "flip"]
      /\ UNCHANGED <<row, mention, nodes, aliases, editor, deleted, failures>>

RecordUpsert(r) ==   \* mutant: ON CONFLICT (id) DO UPDATE
  LET c == req[r].cand
  IN  /\ req[r].pc = "record"
      /\ decision' = [decision EXCEPT ![c] = [decision |-> req[r].outcome,
                                              target   |-> req[r].entity,
                                              shown    |-> req[r].shown]]
      /\ req' = [req EXCEPT ![r].pc = "flip"]
      /\ UNCHANGED <<row, mention, nodes, aliases, editor, deleted, failures>>

(* insert_decision: ON CONFLICT (id) DO NOTHING, id from the candidate.    *)
RecordDecision(r) ==
  LET c == req[r].cand
  IN  /\ req[r].pc = "record"
      /\ decision' =
           IF decision[c] = NoDecision
             THEN [decision EXCEPT ![c] = [decision |-> req[r].outcome,
                                           target   |-> req[r].entity,
                                           shown    |-> req[r].shown]]
             ELSE decision
      /\ req' = [req EXCEPT ![r].pc = "flip"]
      /\ UNCHANGED <<row, mention, nodes, aliases, editor, deleted, failures>>

SetStatusOnly(r) ==   \* mutant: the committed merge target is not persisted
  LET c == req[r].cand
  IN  /\ req[r].pc = "flip"
      /\ row' = [row EXCEPT ![c].status = req[r].outcome]
      /\ IF req[r].outcome = "rejected"
           THEN Finish(r)
           ELSE req' = [req EXCEPT ![r] = [Idle EXCEPT
                         !.pc = "list", !.cand = c, !.entity = req[r].entity]]
      /\ UNCHANGED <<decision, mention, nodes, aliases, editor, deleted, failures>>

(* set_status, the last write: WHERE id = ... only, so it overwrites any   *)
(* status.  Only a merge passes a target.                                  *)
SetStatus(r) ==
  LET c == req[r].cand
  IN  /\ req[r].pc = "flip"
      /\ row' = [row EXCEPT ![c].status = req[r].outcome,
                            ![c].target = IF req[r].outcome = "merged"
                                            THEN req[r].entity ELSE @]
      /\ IF req[r].outcome = "rejected"
           THEN Finish(r)
           ELSE req' = [req EXCEPT ![r] = [Idle EXCEPT
                         !.pc = "list", !.cand = c, !.entity = req[r].entity]]
      /\ UNCHANGED <<decision, mention, nodes, aliases, editor, deleted, failures>>

-----------------------------------------------------------------------------
(* On-accept re-match *)

ListPendingAny(r) ==   \* mutant: proposals that already merge are not skipped
  /\ req[r].pc = "list"
  /\ req' = [req EXCEPT
              ![r].pc = "rematch",
              ![r].pend = {c \in Candidates :
                             /\ row[c].status = "review-queued"
                             /\ <<c, req[r].cand>> \in StrongMatch}]
  /\ UNCHANGED <<stores, editor, deleted, failures>>

(* rematch reads the pending rows once and keeps those that were still NEW *)
(* and match the entity just committed (name and vectors never change).    *)
ListPending(r) ==
  /\ req[r].pc = "list"
  /\ req' = [req EXCEPT
              ![r].pc = "rematch",
              ![r].pend = {c \in Candidates :
                             /\ row[c].status = "review-queued"
                             /\ row[c].proposal = "new"
                             /\ <<c, req[r].cand>> \in StrongMatch}]
  /\ UNCHANGED <<stores, editor, deleted, failures>>

UpdateProposalUnguarded(r) ==   \* mutant: no status guard in the UPDATE
  /\ req[r].pc = "rematch"
  /\ \E c \in req[r].pend :
       /\ row' = [row EXCEPT ![c].proposal = "merge",
                             ![c].target = req[r].entity]
       /\ req' = [req EXCEPT ![r].pend = @ \ {c}]
  /\ UNCHANGED <<decision, mention, nodes, aliases, editor, deleted, failures>>

UpdateProposalAgain(r) ==   \* mutant: the loop does not advance
  /\ req[r].pc = "rematch"
  /\ \E c \in req[r].pend :
       row' = IF row[c].status = "review-queued"
                THEN [row EXCEPT ![c].proposal = "merge",
                                 ![c].target = req[r].entity]
                ELSE row
  /\ UNCHANGED <<req, decision, mention, nodes, aliases, editor, deleted, failures>>

(* update_proposal: guarded by the row's current status, not by the        *)
(* proposal it is about to replace.                                        *)
UpdateProposal(r) ==
  /\ req[r].pc = "rematch"
  /\ \E c \in req[r].pend :
       /\ row' = IF row[c].status = "review-queued"
                   THEN [row EXCEPT ![c].proposal = "merge",
                                    ![c].target = req[r].entity]
                   ELSE row
       /\ req' = [req EXCEPT ![r].pend = @ \ {c}]
  /\ UNCHANGED <<decision, mention, nodes, aliases, editor, deleted, failures>>

RematchDone(r) ==
  /\ req[r].pc = "rematch"
  /\ req[r].pend = {}
  /\ Finish(r)
  /\ UNCHANGED <<stores, editor, deleted, failures>>

-----------------------------------------------------------------------------
(* Failure, and the deletion of an entity *)

(* A store call raises (503), the re-match raises (suppressed) or the      *)
(* process dies: the request is over, what it wrote stays.                 *)
Fail(r) ==
  /\ req[r].pc # "idle"
  /\ failures < MaxFailures
  /\ failures' = failures + 1
  /\ Finish(r)
  /\ UNCHANGED <<stores, editor, deleted>>

(* delete_entity: require the node, then drop its mentions (Postgres) ...  *)
StartDelete(e) ==
  /\ editor.pc = "idle"
  /\ e \in nodes
  /\ editor' = [pc |-> "mentions", entity |-> e]
  /\ UNCHANGED <<stores, req, deleted, failures>>

DropMentions ==
  /\ editor.pc = "mentions"
  /\ mention' = [c \in Candidates |->
                  IF mention[c] = editor.entity THEN NoEntity ELSE mention[c]]
  /\ deleted' = deleted \cup {editor.entity}
  /\ editor' = [editor EXCEPT !.pc = "node"]
  /\ UNCHANGED <<row, decision, nodes, aliases, req, failures>>

(* ... and DETACH DELETE the node (Neo4j).                                 *)
DropNode ==
  /\ editor.pc = "node"
  /\ nodes' = nodes \ {editor.entity}
  /\ aliases' = [aliases EXCEPT ![editor.entity] = {}]
  /\ editor' = [pc |-> "idle", entity |-> NoEntity]
  /\ UNCHANGED <<row, decision, mention, req, deleted, failures>>

DeleteFails ==
  /\ editor.pc # "idle"
  /\ failures < MaxFailures
  /\ failures' = failures + 1
  /\ editor' = [pc |-> "idle", entity |-> NoEntity]
  /\ UNCHANGED <<stores, req, deleted>>

-----------------------------------------------------------------------------
Handler(r) ==
  \/ LoadNothingToDo(r) \/ LoadReject(r) \/ LoadMerge(r) \/ LoadCreate(r)
  \/ CheckTarget(r) \/ AddAlias(r) \/ CreateEntity(r) \/ AddMention(r)
  \/ RecordDecision(r) \/ SetStatus(r)
  \/ ListPending(r) \/ UpdateProposal(r) \/ RematchDone(r)

Next ==
  \/ \E r \in Requests : Submit(r) \/ Handler(r) \/ Fail(r)
  \/ \E e \in Deletable : StartDelete(e)
  \/ DropMentions
  \/ DropNode
  \/ DeleteFails

Spec == Init /\ [][Next]_vars

(* The event loop runs every handler on; the author, and a failure, need   *)
(* not come.                                                               *)
Fairness == \A r \in Requests : WF_vars(Handler(r))

FairSpec == Spec /\ Fairness
-----------------------------------------------------------------------------
(* Invariants: what holds whatever the interleaving *)

(* Every decided candidate has its append-only evidence row: the status    *)
(* flip is the last write of accept and of reject, so no crash and no      *)
(* concurrent decision can leave a terminal row without evidence (INV-3).  *)
EvidenceBeforeTerminal ==
  \A c \in Candidates :
    row[c].status \in Terminal => decision[c] # NoDecision

(* The graph half of a committed candidate is never missing: a "created"   *)
(* row has its node, a "merged" row names an entity that carries the       *)
(* candidate's surface form as an alias, unless the author has since       *)
(* deleted that entity.  Both tabs of a race can be the last to flip.      *)
CommittedIsInGraph ==
  \A c \in Candidates :
    /\ row[c].status = "created" =>
         AcceptedEntity(c) \in nodes \cup deleted
    /\ row[c].status = "merged" =>
         \/ row[c].target \in deleted
         \/ row[c].target \in nodes /\ c \in aliases[row[c].target]

(* A committed candidate keeps its occurrence in the text: its mention row *)
(* is there unless the author deleted an entity.                           *)
CommittedIsMentioned ==
  \A c \in Candidates :
    row[c].status \in Committed /\ deleted = {} => mention[c] # NoEntity

(* Re-match only ever changes a pending row, although it works from rows   *)
(* read before other requests decided them.                                *)
RematchSparesDecided ==
  [][\A r \in Requests, c \in Candidates :
       req[r].pc = "rematch" /\ req'[r] # req[r] /\ row[c].status \in Terminal
         => row'[c] = row[c]]_vars

(* The first decision recorded for a candidate is its evidence for good:   *)
(* a racing decision or a retry neither replaces nor removes it.           *)
DecisionsStand ==
  [][\A c \in Candidates :
       decision[c] # NoDecision => decision'[c] = decision[c]]_vars

-----------------------------------------------------------------------------
(* The documented lifecycle *)

Lifecycle == INSTANCE CandidateLifecycle
  WITH Entities <- EntityId, card <- row,
       evidence <- {c \in Candidates : decision[c] # NoDecision}

(* Decided one request at a time, with failures and retries anywhere and   *)
(* entities deleted meanwhile, the queue implements the lifecycle: terminal *)
(* states are final, suggestions are monotone, evidence comes first.       *)
ImplementsLifecycle == Lifecycle!LifecycleSpec

-----------------------------------------------------------------------------
(* Agreement: when all the requests for a candidate ask the same explicit  *)
(* thing (a double submit, or a retry after a failure), its rows agree     *)

(* The entity a candidate resolves to (committed_entity_id).               *)
CommittedEntity(c) ==
  CASE row[c].status = "created" -> AcceptedEntity(c)
    [] row[c].status = "merged"  -> row[c].target
    [] OTHER                     -> NoEntity

(* The status, the evidence row, the mention and the graph all tell one    *)
(* story: double submits and retries after a crash duplicate nothing and   *)
(* contradict nothing.                                                     *)
StoresAgree ==
  \A c \in Candidates :
    /\ row[c].status \in Terminal => decision[c].decision = row[c].status
    /\ row[c].status \in Committed =>
         /\ decision[c].target = CommittedEntity(c)
         /\ mention[c] = CommittedEntity(c)
    /\ row[c].status \in {"merged", "rejected"} => AcceptedEntity(c) \notin nodes

-----------------------------------------------------------------------------
(* Liveness *)

(* Once no more failures come, a request that reaches the mention decides  *)
(* its candidate, whatever an earlier attempt that died left behind: the   *)
(* accept is retryable at every point.                                     *)
RetryDecides ==
  \A r \in Requests, c \in Candidates :
    (failures = MaxFailures /\ req[r].pc = "mention" /\ req[r].cand = c)
      ~> (row[c].status \in Terminal)

(* Every request is eventually answered, its re-match included.            *)
RequestsEnd ==
  \A r \in Requests : (req[r].pc # "idle") ~> (req[r].pc = "idle")

-----------------------------------------------------------------------------
(* What the documentation says and the code does not do *)

(* "Terminal states are final" (candidate-lifecycle.md).                   *)
TerminalIsFinal ==
  [][\A c \in Candidates :
       row[c].status \in Terminal => row'[c].status = row[c].status]_vars

(* Re-match "never re-points an existing merge" (candidate_rematch.py).    *)
NeverRepoints ==
  [][\A c \in Candidates :
       /\ row[c].status = "review-queued" /\ row'[c].status = "review-queued"
       /\ row[c].proposal = "merge"
       => row'[c].target = row[c].target]_vars

(* The evidence row holds "the proposal they were shown" (candidates.py):  *)
(* a request that records what it read records what the card displayed.    *)
EvidenceHoldsWhatWasShown ==
  \A r \in Requests :
    req[r].pc \in {"check", "write", "mention", "record"}
      => req[r].shown = req[r].seen

(* "Nothing enters the graph" on a reject, and a retry is safe: a decided  *)
(* candidate that did not create an entity has none in the graph.          *)
NoStrayNode ==
  \A c \in Candidates :
    row[c].status \in {"merged", "rejected"} => AcceptedEntity(c) \notin nodes

(* The gate re-validates a merge target that could have vanished: no       *)
(* mention is left on an entity that is gone from the graph.               *)
NoDanglingMention ==
  \A c \in Candidates : mention[c] # NoEntity => mention[c] \in nodes
=============================================================================

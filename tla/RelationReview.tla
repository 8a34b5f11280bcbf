--------------------------- MODULE RelationReview ---------------------------
(***************************************************************************)
(* The human gate for edges: RelationReviewService.decide commits or       *)
(* rejects a staged relation.  Its endpoints are surface names; a commit   *)
(* resolves them against the accepted candidates of the same paragraph     *)
(* (Postgres), writes the edge (Neo4j) and flips the row last (Postgres).  *)
(* Every call is its own statement and every await lets other requests     *)
(* run: other decisions of the same relation, accepts of candidates, and   *)
(* the author removing edges or entities.                                  *)
(*                                                                         *)
(* A key is a paragraph with a normalised surface name: what a candidate   *)
(* bears and a relation's endpoint looks up.  How a candidate comes to be  *)
(* accepted is the subject of CandidateReview; here it happens in one step.*)
(***************************************************************************)
EXTENDS Naturals

CONSTANTS
  Relations,    \* staged_relations rows of the story
  Candidates,   \* candidate rows of the story
  Entities,     \* entity ids
  Keys,         \* paragraph and normalised name
  Predicates,
  KeyOf,        \* the key of each candidate
  Surface,      \* subject key, predicate and object key of each relation
  NoEntity,     \* Python's None where an entity id is optional
  NoEdge,       \* edge_id IS NULL
  Requests,     \* decide requests that can be in flight together
  Editable,     \* may the author remove edges and delete entities
  MaxFailures   \* bound on requests that die half way

(* relation_edge_id: uuid5 of the resolved triple, so the triple itself.   *)
Edge == [subject : Entities, predicate : Predicates, object : Entities]

ASSUME ConstantsAssumption ==
  /\ NoEntity \notin Entities
  /\ NoEdge \notin Edge
  /\ KeyOf \in [Candidates -> Keys]
  /\ Surface \in [Relations -> [subject : Keys, predicate : Predicates, object : Keys]]
  /\ Editable \in BOOLEAN
  /\ MaxFailures \in Nat

VARIABLES
  committed,  \* committed_entity_id of each candidate, NoEntity until accepted
  rel,        \* Postgres staged_relations: status and recorded edge
  nodes,      \* Neo4j entity nodes
  edges,      \* Neo4j relationships: the triple and the row that created it
  req,        \* the requests in flight
  deleted,    \* history: entities the author has deleted
  removed,    \* history: edges that were in the graph and were taken out
  failures    \* requests that have died so far

vars == <<committed, rel, nodes, edges, req, deleted, removed, failures>>

Status == {"staged", "written", "rejected"}
Pc == {"idle", "load", "resolve", "reject", "write", "mark"}
Action == {"commit", "reject"}

Row == [status : Status, edge : Edge \cup {NoEdge}]
Relationship == [edge : Edge, source : Relations]
Request == [pc : Pc, rel : Relations, act : Action, edge : Edge \cup {NoEdge}]

TypeOK ==
  /\ committed \in [Candidates -> Entities \cup {NoEntity}]
  /\ rel \in [Relations -> Row]
  /\ nodes \subseteq Entities
  /\ edges \subseteq Relationship
  /\ req \in [Requests -> Request]
  /\ \A r \in Requests : req[r].pc \in {"write", "mark"} => req[r].edge \in Edge
  /\ deleted \subseteq Entities
  /\ removed \subseteq Edge
  /\ failures \in Nat

Init ==
  /\ committed = [c \in Candidates |-> NoEntity]
  /\ rel = [x \in Relations |-> [status |-> "staged", edge |-> NoEdge]]
  /\ nodes = {}
  /\ edges = {}
  /\ req \in [Requests -> [pc : {"idle"}, rel : Relations, act : {"reject"},
                           edge : {NoEdge}]]
  /\ deleted = {}
  /\ removed = {}
  /\ failures = 0

-----------------------------------------------------------------------------
(* Resolution *)

(* What the accepted candidates say a key is.                              *)
Named(k) == {committed[c] : c \in {d \in Candidates : KeyOf[d] = k}} \ {NoEntity}

(* Two accepted candidates of one key that are different entities make it  *)
(* ambiguous: held, like a key nobody has been accepted for, never guessed.*)
IsEntity(k, e) == Named(k) = {e}

(* Mutant: two names of one entity make a self-loop.                        *)
ResolvesLoosely(x, edge) ==
  /\ IsEntity(Surface[x].subject, edge.subject)
  /\ IsEntity(Surface[x].object, edge.object)
  /\ edge.predicate = Surface[x].predicate

(* _resolve: both endpoints, and not a self-loop.                          *)
Resolves(x, edge) ==
  /\ IsEntity(Surface[x].subject, edge.subject)
  /\ IsEntity(Surface[x].object, edge.object)
  /\ edge.predicate = Surface[x].predicate
  /\ edge.subject # edge.object

Committable(x) == rel[x].status = "staged" /\ \E edge \in Edge : Resolves(x, edge)

-----------------------------------------------------------------------------
(* decide *)

(* The author decides a card of the relation queue (list_committable).     *)
(* The keyboard does not wait for an answer: a second decision of the same *)
(* card can follow while the first is in flight.                           *)
Submit(r) ==
  /\ req[r].pc = "idle"
  /\ \E x \in Relations, a \in Action :
       /\ Committable(x)
       /\ req' = [req EXCEPT ![r] = [pc |-> "load", rel |-> x, act |-> a, edge |-> NoEdge]]
  /\ UNCHANGED <<committed, rel, nodes, edges, deleted, removed, failures>>

Finish(r) == req' = [req EXCEPT ![r] = [@ EXCEPT !.pc = "idle", !.edge = NoEdge]]

(* get_relation: a decided row is answered without a write.                *)
Load(r) ==
  /\ req[r].pc = "load"
  /\ IF rel[req[r].rel].status # "staged"
       THEN Finish(r)
       ELSE req' = [req EXCEPT ![r] = [@ EXCEPT
              !.pc = IF req[r].act = "reject" THEN "reject" ELSE "resolve"]]
  /\ UNCHANGED <<committed, rel, nodes, edges, deleted, removed, failures>>

MarkRejectedAlways(r) ==   \* mutant: no status guard in the UPDATE
  /\ req[r].pc = "reject"
  /\ rel' = [rel EXCEPT ![req[r].rel] = [status |-> "rejected", edge |-> NoEdge]]
  /\ Finish(r)
  /\ UNCHANGED <<committed, nodes, edges, deleted, removed, failures>>

(* mark_rejected: WHERE status = 'staged'.                                 *)
MarkRejected(r) ==
  LET x == req[r].rel
  IN  /\ req[r].pc = "reject"
      /\ rel' = IF rel[x].status = "staged"
                  THEN [rel EXCEPT ![x] = [status |-> "rejected", edge |-> NoEdge]]
                  ELSE rel
      /\ Finish(r)
      /\ UNCHANGED <<committed, nodes, edges, deleted, removed, failures>>

ResolveUnheld(r) ==   \* mutant: a held relation is not refused
  /\ req[r].pc = "resolve"
  /\ \/ /\ ~ \E edge \in Edge : Resolves(req[r].rel, edge)
        /\ req' = [req EXCEPT ![r] = [@ EXCEPT !.pc = "write"]]
     \/ \E edge \in Edge :
          /\ Resolves(req[r].rel, edge)
          /\ req' = [req EXCEPT ![r] = [@ EXCEPT !.pc = "write", !.edge = edge]]
  /\ UNCHANGED <<committed, rel, nodes, edges, deleted, removed, failures>>

(* list_accepted, then re-resolve; a held relation is refused (409).       *)
Resolve(r) ==
  /\ req[r].pc = "resolve"
  /\ \/ /\ ~ \E edge \in Edge : Resolves(req[r].rel, edge)
        /\ Finish(r)
     \/ \E edge \in Edge :
          /\ Resolves(req[r].rel, edge)
          /\ req' = [req EXCEPT ![r] = [@ EXCEPT !.pc = "write", !.edge = edge]]
  /\ UNCHANGED <<committed, rel, nodes, edges, deleted, removed, failures>>

InGraph(edge) == \E g \in edges : g.edge = edge

CreateEdgeAlways(r) ==   \* mutant: CREATE instead of MERGE
  LET edge == req[r].edge
  IN  /\ req[r].pc = "write"
      /\ edges' = IF edge.subject \in nodes /\ edge.object \in nodes
                    THEN edges \cup {[edge |-> edge, source |-> req[r].rel]}
                    ELSE edges
      /\ req' = [req EXCEPT ![r] = [@ EXCEPT !.pc = "mark"]]
      /\ UNCHANGED <<committed, rel, nodes, deleted, removed, failures>>

(* create_relation: MATCH both nodes, MERGE on the id; a missing endpoint  *)
(* writes no edge, and nobody is told.                                     *)
CreateEdge(r) ==
  LET edge == req[r].edge
  IN  /\ req[r].pc = "write"
      /\ edges' = IF edge.subject \in nodes /\ edge.object \in nodes /\ ~InGraph(edge)
                    THEN edges \cup {[edge |-> edge, source |-> req[r].rel]}
                    ELSE edges
      /\ req' = [req EXCEPT ![r] = [@ EXCEPT !.pc = "mark"]]
      /\ UNCHANGED <<committed, rel, nodes, deleted, removed, failures>>

MarkWrittenEarly(r) ==   \* mutant: the flip and the edge in the wrong order
  LET x == req[r].rel
      edge == req[r].edge
  IN  /\ \/ /\ req[r].pc = "write"
            /\ rel' = [rel EXCEPT ![x] = [status |-> "written", edge |-> edge]]
            /\ req' = [req EXCEPT ![r] = [@ EXCEPT !.pc = "mark"]]
            /\ UNCHANGED edges
         \/ /\ req[r].pc = "mark"
            /\ edges' = IF edge.subject \in nodes /\ edge.object \in nodes /\ ~InGraph(edge)
                          THEN edges \cup {[edge |-> edge, source |-> x]}
                          ELSE edges
            /\ Finish(r)
            /\ UNCHANGED rel
      /\ UNCHANGED <<committed, nodes, deleted, removed, failures>>

(* mark_written, the last write: WHERE status = 'staged'.                  *)
MarkWritten(r) ==
  LET x == req[r].rel
  IN  /\ req[r].pc = "mark"
      /\ rel' = IF rel[x].status = "staged"
                  THEN [rel EXCEPT ![x] = [status |-> "written", edge |-> req[r].edge]]
                  ELSE rel
      /\ Finish(r)
      /\ UNCHANGED <<committed, nodes, edges, deleted, removed, failures>>

(* A store failure (503) or the end of the process between two calls.      *)
Fail(r) ==
  /\ req[r].pc # "idle"
  /\ failures < MaxFailures
  /\ failures' = failures + 1
  /\ Finish(r)
  /\ UNCHANGED <<committed, rel, nodes, edges, deleted, removed>>

-----------------------------------------------------------------------------
(* What goes on beside the gate *)

(* A candidate is accepted: it creates its entity or merges into one.      *)
AcceptCandidate(c) ==
  /\ committed[c] = NoEntity
  /\ \E e \in Entities \ deleted :
       /\ committed' = [committed EXCEPT ![c] = e]
       /\ nodes' = nodes \cup {e}
  /\ UNCHANGED <<rel, edges, req, deleted, removed, failures>>

(* The author removes an edge, or deletes an entity (or merges it away),   *)
(* which detaches its edges.  Candidate and relation rows stay.            *)
RemoveEdge(g) ==
  /\ Editable
  /\ edges' = edges \ {g}
  /\ removed' = removed \cup {g.edge}
  /\ UNCHANGED <<committed, rel, nodes, req, deleted, failures>>

Incident(e) == {g \in edges : g.edge.subject = e \/ g.edge.object = e}

DeleteEntity(e) ==
  /\ Editable
  /\ nodes' = nodes \ {e}
  /\ edges' = edges \ Incident(e)
  /\ removed' = removed \cup {g.edge : g \in Incident(e)}
  /\ deleted' = deleted \cup {e}
  /\ UNCHANGED <<committed, rel, req, failures>>

-----------------------------------------------------------------------------
Handler(r) ==
  \/ Load(r) \/ MarkRejected(r) \/ Resolve(r) \/ CreateEdge(r) \/ MarkWritten(r)

Next ==
  \/ \E r \in Requests : Submit(r) \/ Handler(r) \/ Fail(r)
  \/ \E c \in Candidates : AcceptCandidate(c)
  \/ \E g \in edges : RemoveEdge(g)
  \/ \E e \in nodes : DeleteEntity(e)

Spec == Init /\ [][Next]_vars

-----------------------------------------------------------------------------
(* Safety *)

(* An edge joins two different entities, both in the graph, and each is    *)
(* what an accepted candidate of the relation's paragraph and name was     *)
(* committed to: no edge is guessed, left half or written by a machine,    *)
(* whatever is accepted, deleted or retried between the resolution and the *)
(* write.                                                                  *)
EdgesJoinCommitted ==
  \A g \in edges :
    /\ g.edge.subject # g.edge.object
    /\ {g.edge.subject, g.edge.object} \subseteq nodes
    /\ g.edge.predicate = Surface[g.source].predicate
    /\ \E c \in Candidates : /\ KeyOf[c] = Surface[g.source].subject
                             /\ committed[c] = g.edge.subject
    /\ \E c \in Candidates : /\ KeyOf[c] = Surface[g.source].object
                             /\ committed[c] = g.edge.object

(* One fact is one edge, stated in however many paragraphs, committed by   *)
(* however many requests, retried after however many failures.             *)
OneEdgePerFact == \A g, h \in edges : g.edge = h.edge => g = h

(* A written row has its edge in the graph unless the author has taken it  *)
(* out or deleted an endpoint: the flip comes last, so a failure never     *)
(* leaves a row that claims an edge it does not have.                      *)
WrittenUnlessEdited ==
  \A x \in Relations : rel[x].status = "written" =>
    \/ InGraph(rel[x].edge)
    \/ rel[x].edge \in removed
    \/ {rel[x].edge.subject, rel[x].edge.object} \cap deleted # {}

(* A decision of the gate stands: no later or slower decision changes a    *)
(* row that has been written or rejected, nor the edge it recorded.        *)
DecisionStands ==
  [][\A x \in Relations : rel[x].status # "staged" => rel'[x] = rel[x]]_vars

-----------------------------------------------------------------------------
(* What the documentation says and the code does not do *)

(* "no edge enters the graph" for a rejected relation: an edge a rejected  *)
(* row created is not there (relation-lifecycle.md).                       *)
RejectedHasNoEdge ==
  \A g \in edges : rel[g.source].status # "rejected"

(* "the edge was MERGE-written to Neo4j" for a written relation: its edge  *)
(* is in the graph or was and has been taken out since.                    *)
WrittenHadEdge ==
  \A x \in Relations : rel[x].status = "written" =>
    InGraph(rel[x].edge) \/ rel[x].edge \in removed
=============================================================================

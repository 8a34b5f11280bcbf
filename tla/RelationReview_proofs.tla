------------------------ MODULE RelationReview_proofs ------------------------
(***************************************************************************)
(* Proofs about RelationReview for any number of relations, candidates,    *)
(* entities, requests and failures.  The inductive invariant adds to the   *)
(* properties of the component what a request in flight knows: between the *)
(* resolution and the flip its edge joins what accepted candidates are     *)
(* committed to, and after the write the edge is in the graph unless the   *)
(* author has taken it, or an endpoint of it, away.                        *)
(***************************************************************************)
EXTENDS RelationReview, TLAPS

(* What a resolution of relation x to an edge found, in the commitments    *)
(* com; a commitment is never undone, so it stays true.                    *)
Joins(x, edge, com) ==
  /\ edge.subject # edge.object
  /\ edge.predicate = Surface[x].predicate
  /\ \E c \in Candidates : KeyOf[c] = Surface[x].subject /\ com[c] = edge.subject
  /\ \E c \in Candidates : KeyOf[c] = Surface[x].object /\ com[c] = edge.object

(* Where an edge is once it has been written, given the edges of the graph *)
(* and what the author has taken out.                                      *)
Accounted(edge, graph, rem, del) ==
  \/ \E g \in graph : g.edge = edge
  \/ edge \in rem
  \/ {edge.subject, edge.object} \cap del # {}

InFlightJoins ==
  \A r \in Requests :
    req[r].pc \in {"write", "mark"} => Joins(req[r].rel, req[r].edge, committed)

(* An entity somebody is committed to is in the graph or was deleted.      *)
CommittedExists ==
  \A c \in Candidates : committed[c] # NoEntity => committed[c] \in nodes \cup deleted

MarkedIsAccounted ==
  \A r \in Requests :
    req[r].pc = "mark" => Accounted(req[r].edge, edges, removed, deleted)

WrittenIsAccounted ==
  \A x \in Relations :
    rel[x].status = "written" => Accounted(rel[x].edge, edges, removed, deleted)

IInv ==
  /\ TypeOK
  /\ InFlightJoins
  /\ CommittedExists
  /\ MarkedIsAccounted
  /\ WrittenIsAccounted
  /\ EdgesJoinCommitted
  /\ OneEdgePerFact

-----------------------------------------------------------------------------
(* What steps leave alone *)

(* The stores only change in ways that keep what a written edge relies on. *)
Kept ==
  /\ \A c \in Candidates : committed[c] # NoEntity => committed'[c] = committed[c]
  /\ deleted \subseteq deleted'
  /\ removed \subseteq removed'
  /\ \A g \in edges : g \in edges' \/ g.edge \in removed'

(* An edge that is accounted for stays so.                                 *)
LEMMA AccountedStays ==
  ASSUME Kept, NEW edge, Accounted(edge, edges, removed, deleted)
  PROVE  Accounted(edge, edges', removed', deleted')
<1>1. CASE \E g \in edges : g.edge = edge
  BY <1>1 DEF Accounted, Kept
<1>2. CASE edge \in removed
  BY <1>2 DEF Accounted, Kept
<1>3. CASE {edge.subject, edge.object} \cap deleted # {}
  BY <1>3 DEF Accounted, Kept
<1> QED BY <1>1, <1>2, <1>3 DEF Accounted

(* A resolution stays valid.                                               *)
LEMMA JoinsStays ==
  ASSUME Kept, NEW x, NEW edge \in Edge, Joins(x, edge, committed)
  PROVE  Joins(x, edge, committed')
<1>1. edge.subject # NoEntity /\ edge.object # NoEntity
  BY ConstantsAssumption DEF Edge
<1>2. PICK c \in Candidates : KeyOf[c] = Surface[x].subject /\ committed[c] = edge.subject
  BY DEF Joins
<1>3. PICK d \in Candidates : KeyOf[d] = Surface[x].object /\ committed[d] = edge.object
  BY DEF Joins
<1>4. committed'[c] = edge.subject /\ committed'[d] = edge.object
  BY <1>1, <1>2, <1>3 DEF Kept
<1> QED BY <1>2, <1>3, <1>4 DEF Joins

-----------------------------------------------------------------------------
(* Kinds of steps *)

(* A request moves to q, knowing what its new place requires.              *)
Moves(r, q) ==
  /\ q \in Request
  /\ q.pc \in {"write", "mark"} => q.edge \in Edge /\ Joins(q.rel, q.edge, committed')
  /\ q.pc = "mark" => Accounted(q.edge, edges', removed', deleted')
  /\ req' = [req EXCEPT ![r] = q]

(* What the invariant says of requests survives any such move.             *)
LEMMA MoveKeepsRequests ==
  ASSUME TypeOK, InFlightJoins, MarkedIsAccounted, Kept,
         NEW r \in Requests, NEW q, Moves(r, q)
  PROVE  /\ req' \in [Requests -> Request]
         /\ \A s \in Requests : req'[s].pc \in {"write", "mark"} => req'[s].edge \in Edge
         /\ InFlightJoins'
         /\ MarkedIsAccounted'
<1>1. req \in [Requests -> Request]
  BY DEF TypeOK
<1>2. req'[r] = q /\ \A s \in Requests : s # r => req'[s] = req[s]
  BY <1>1 DEF Moves
<1>3. req' \in [Requests -> Request]
  BY <1>1 DEF Moves
<1>4. ASSUME NEW s \in Requests, req'[s].pc \in {"write", "mark"}
      PROVE  req'[s].edge \in Edge /\ Joins(req'[s].rel, req'[s].edge, committed')
  <2>1. CASE s = r
    BY <1>2, <1>4, <2>1 DEF Moves
  <2>2. CASE s # r
    <3>1. req'[s] = req[s]
      BY <1>2, <2>2
    <3>2. req[s].edge \in Edge
      BY <1>4, <3>1 DEF TypeOK
    <3>3. Joins(req[s].rel, req[s].edge, committed)
      BY <1>4, <3>1 DEF InFlightJoins
    <3>4. Joins(req[s].rel, req[s].edge, committed')
      BY <3>2, <3>3, JoinsStays
    <3> QED BY <3>1, <3>2, <3>4
  <2> QED BY <2>1, <2>2
<1>5. ASSUME NEW s \in Requests, req'[s].pc = "mark"
      PROVE  Accounted(req'[s].edge, edges', removed', deleted')
  <2>1. CASE s = r
    BY <1>2, <1>5, <2>1 DEF Moves
  <2>2. CASE s # r
    <3>1. req'[s] = req[s]
      BY <1>2, <2>2
    <3>2. Accounted(req[s].edge, edges, removed, deleted)
      BY <1>5, <3>1 DEF MarkedIsAccounted
    <3> QED BY <3>1, <3>2, AccountedStays
  <2> QED BY <2>1, <2>2
<1> QED BY <1>3, <1>4, <1>5 DEF InFlightJoins, MarkedIsAccounted

(* A step that only moves a request, and leaves the stores alone.          *)
LEMMA LocalStep ==
  ASSUME IInv, NEW r \in Requests, NEW q, Moves(r, q),
         UNCHANGED <<committed, rel, nodes, edges, deleted, removed>>,
         failures' \in Nat
  PROVE  IInv'
<1>1. Kept
  BY DEF Kept
<1>2. /\ req' \in [Requests -> Request]
      /\ \A s \in Requests : req'[s].pc \in {"write", "mark"} => req'[s].edge \in Edge
      /\ InFlightJoins' /\ MarkedIsAccounted'
  BY <1>1, MoveKeepsRequests DEF IInv
<1>3. TypeOK'
  BY <1>2 DEF IInv, TypeOK
<1>4. CommittedExists' /\ WrittenIsAccounted' /\ EdgesJoinCommitted' /\ OneEdgePerFact'
  BY DEF IInv, CommittedExists, WrittenIsAccounted, EdgesJoinCommitted, OneEdgePerFact
<1> QED BY <1>2, <1>3, <1>4 DEF IInv

(* A request that ends.                                                    *)
LEMMA FinishMoves ==
  ASSUME TypeOK, NEW r \in Requests, Finish(r)
  PROVE  \E q : Moves(r, q) /\ q.pc = "idle"
<1> DEFINE q == [req[r] EXCEPT !.pc = "idle", !.edge = NoEdge]
<1>1. req[r] \in Request
  BY DEF TypeOK
<1>2. q \in Request /\ q.pc = "idle"
  BY <1>1 DEF Request, Pc
<1>3. req' = [req EXCEPT ![r] = q]
  BY DEF Finish
<1> HIDE DEF q
<1> QED BY <1>2, <1>3 DEF Moves

-----------------------------------------------------------------------------
(* The invariant *)

LEMMA InitIInv == Init => IInv
<1> SUFFICES ASSUME Init PROVE IInv
  OBVIOUS
<1> USE DEF Init
<1>1. TypeOK
  BY DEF TypeOK, Request, Row, Pc, Action, Status
<1>2. InFlightJoins /\ MarkedIsAccounted
  BY DEF InFlightJoins, MarkedIsAccounted
<1>3. CommittedExists /\ WrittenIsAccounted
  BY DEF CommittedExists, WrittenIsAccounted
<1>4. EdgesJoinCommitted /\ OneEdgePerFact
  BY DEF EdgesJoinCommitted, OneEdgePerFact
<1> QED BY <1>1, <1>2, <1>3, <1>4 DEF IInv

LEMMA SubmitStep ==
  ASSUME IInv, NEW r \in Requests, Submit(r)
  PROVE  IInv'
<1>1. PICK x \in Relations, a \in Action :
        req' = [req EXCEPT ![r] = [pc |-> "load", rel |-> x, act |-> a, edge |-> NoEdge]]
  BY DEF Submit
<1> DEFINE q == [pc |-> "load", rel |-> x, act |-> a, edge |-> NoEdge]
<1>2. q \in Request /\ q.pc = "load"
  BY DEF Request, Pc
<1>3. Moves(r, q)
  BY <1>1, <1>2 DEF Moves
<1> HIDE DEF q
<1> QED BY <1>3, LocalStep DEF Submit, IInv, TypeOK

LEMMA LoadStep ==
  ASSUME IInv, NEW r \in Requests, Load(r)
  PROVE  IInv'
<1>1. TypeOK /\ req[r] \in Request
  BY DEF IInv, TypeOK
<1>2. CASE Finish(r)
  BY <1>1, <1>2, FinishMoves, LocalStep DEF Load, IInv, TypeOK
<1>3. CASE ~Finish(r)
  <2> DEFINE q == [req[r] EXCEPT
               !.pc = IF req[r].act = "reject" THEN "reject" ELSE "resolve"]
  <2>1. req' = [req EXCEPT ![r] = q]
    BY <1>3 DEF Load
  <2>2. q \in Request /\ q.pc \in {"reject", "resolve"}
    BY <1>1 DEF Request, Pc
  <2> HIDE DEF q
  <2>3. Moves(r, q)
    BY <2>1, <2>2 DEF Moves
  <2> QED BY <2>3, LocalStep DEF Load, IInv, TypeOK
<1> QED BY <1>2, <1>3

(* Resolving is where a request learns what its edge joins.                *)
LEMMA ResolveStep ==
  ASSUME IInv, NEW r \in Requests, Resolve(r)
  PROVE  IInv'
<1>1. TypeOK /\ req[r] \in Request
  BY DEF IInv, TypeOK
<1>2. CASE Finish(r)
  BY <1>1, <1>2, FinishMoves, LocalStep DEF Resolve, IInv, TypeOK
<1>3. CASE ~Finish(r)
  <2>1. PICK edge \in Edge :
          /\ Resolves(req[r].rel, edge)
          /\ req' = [req EXCEPT ![r] = [@ EXCEPT !.pc = "write", !.edge = edge]]
    BY <1>3 DEF Resolve
  <2> DEFINE q == [req[r] EXCEPT !.pc = "write", !.edge = edge]
  <2>2. req' = [req EXCEPT ![r] = q]
    BY <2>1
  <2>3. q \in Request
    BY <1>1 DEF Request, Pc
  <2>4. q.pc = "write" /\ q.edge = edge /\ q.rel = req[r].rel
    BY <1>1 DEF Request
  <2> HIDE DEF q
  <2>5. Joins(q.rel, edge, committed)
    BY <2>1, <2>4 DEF Resolves, IsEntity, Named, Joins
  <2>6. Moves(r, q)
    BY <2>2, <2>3, <2>4, <2>5 DEF Moves, Resolve
  <2> QED BY <2>6, LocalStep DEF Resolve, IInv, TypeOK
<1> QED BY <1>2, <1>3

LEMMA FailStep ==
  ASSUME IInv, NEW r \in Requests, Fail(r)
  PROVE  IInv'
<1>1. TypeOK /\ failures' \in Nat
  BY DEF IInv, TypeOK, Fail
<1> QED BY <1>1, FinishMoves, LocalStep DEF Fail

(* A rejection changes a row that claims no edge.                          *)
LEMMA MarkRejectedStep ==
  ASSUME IInv, NEW r \in Requests, MarkRejected(r)
  PROVE  IInv'
<1>1. TypeOK /\ req[r].rel \in Relations
  BY DEF IInv, TypeOK, Request
<1>2. PICK q : Moves(r, q) /\ q.pc = "idle"
  BY <1>1, FinishMoves DEF MarkRejected
<1>3. Kept
  BY DEF MarkRejected, Kept
<1>4. /\ req' \in [Requests -> Request]
      /\ \A s \in Requests : req'[s].pc \in {"write", "mark"} => req'[s].edge \in Edge
      /\ InFlightJoins' /\ MarkedIsAccounted'
  BY <1>2, <1>3, MoveKeepsRequests DEF IInv
<1>5. rel' \in [Relations -> Row]
  BY <1>1 DEF MarkRejected, TypeOK, Row, Status
<1>6. TypeOK'
  BY <1>1, <1>4, <1>5 DEF MarkRejected, TypeOK
<1>7. WrittenIsAccounted'
  BY <1>1 DEF MarkRejected, IInv, TypeOK, WrittenIsAccounted
<1>8. CommittedExists' /\ EdgesJoinCommitted' /\ OneEdgePerFact'
  BY DEF MarkRejected, IInv, CommittedExists, EdgesJoinCommitted, OneEdgePerFact
<1> QED BY <1>4, <1>6, <1>7, <1>8 DEF IInv

(* The flip records an edge the request has written.                       *)
LEMMA MarkWrittenStep ==
  ASSUME IInv, NEW r \in Requests, MarkWritten(r)
  PROVE  IInv'
<1>1. TypeOK /\ req[r].rel \in Relations /\ req[r].edge \in Edge
  BY DEF IInv, TypeOK, Request, MarkWritten
<1>2. PICK q : Moves(r, q) /\ q.pc = "idle"
  BY <1>1, FinishMoves DEF MarkWritten
<1>3. Kept
  BY DEF MarkWritten, Kept
<1>4. /\ req' \in [Requests -> Request]
      /\ \A s \in Requests : req'[s].pc \in {"write", "mark"} => req'[s].edge \in Edge
      /\ InFlightJoins' /\ MarkedIsAccounted'
  BY <1>2, <1>3, MoveKeepsRequests DEF IInv
<1>5. rel' \in [Relations -> Row]
  BY <1>1 DEF MarkWritten, TypeOK, Row, Status
<1>6. TypeOK'
  BY <1>1, <1>4, <1>5 DEF MarkWritten, TypeOK
<1>7. Accounted(req[r].edge, edges, removed, deleted)
  BY DEF MarkWritten, IInv, MarkedIsAccounted
<1>8. WrittenIsAccounted'
  BY <1>1, <1>7 DEF MarkWritten, IInv, TypeOK, WrittenIsAccounted
<1>9. CommittedExists' /\ EdgesJoinCommitted' /\ OneEdgePerFact'
  BY DEF MarkWritten, IInv, CommittedExists, EdgesJoinCommitted, OneEdgePerFact
<1> QED BY <1>4, <1>6, <1>8, <1>9 DEF IInv

(* The write: both endpoints are committed to, so each is in the graph or  *)
(* was deleted; the MERGE finds an equal edge instead of adding one.       *)
LEMMA CreateEdgeStep ==
  ASSUME IInv, NEW r \in Requests, CreateEdge(r)
  PROVE  IInv'
<1> DEFINE edge == req[r].edge
           g == [edge |-> edge, source |-> req[r].rel]
           q == [req[r] EXCEPT !.pc = "mark"]
<1>1. TypeOK /\ req[r] \in Request /\ edge \in Edge /\ req[r].rel \in Relations
  BY DEF IInv, TypeOK, Request, CreateEdge
<1>2. Joins(req[r].rel, edge, committed)
  BY DEF IInv, InFlightJoins, CreateEdge
<1>3. edge.subject \in nodes \cup deleted /\ edge.object \in nodes \cup deleted
  <2>1. edge.subject # NoEntity /\ edge.object # NoEntity
    BY <1>1, ConstantsAssumption DEF Edge
  <2> QED BY <1>2, <2>1 DEF Joins, IInv, CommittedExists
<1>4. g \in Relationship /\ g.edge = edge /\ g.source = req[r].rel
  BY <1>1 DEF Relationship
<1>5. q \in Request
  BY <1>1 DEF Request, Pc
<1>6. q.pc = "mark" /\ q.edge = edge /\ q.rel = req[r].rel
  BY <1>1 DEF Request
<1>7. req' = [req EXCEPT ![r] = q]
  BY DEF CreateEdge
<1>8. \/ edges' = edges \cup {g} /\ edge.subject \in nodes /\ edge.object \in nodes /\ ~InGraph(edge)
      \/ edges' = edges /\ (edge.subject \in nodes /\ edge.object \in nodes => InGraph(edge))
  BY DEF CreateEdge
<1> HIDE DEF g, q
<1>9. Kept
  BY <1>8 DEF CreateEdge, Kept
<1>10. Accounted(edge, edges', removed', deleted')
  BY <1>3, <1>4, <1>8 DEF CreateEdge, Accounted, InGraph
<1>11. Moves(r, q)
  BY <1>1, <1>2, <1>5, <1>6, <1>7, <1>10 DEF Moves, CreateEdge
<1>12. /\ req' \in [Requests -> Request]
       /\ \A s \in Requests : req'[s].pc \in {"write", "mark"} => req'[s].edge \in Edge
       /\ InFlightJoins' /\ MarkedIsAccounted'
  BY <1>9, <1>11, MoveKeepsRequests DEF IInv
<1>13. TypeOK'
  BY <1>1, <1>4, <1>8, <1>12 DEF CreateEdge, TypeOK
<1>14. CommittedExists'
  BY DEF CreateEdge, IInv, CommittedExists
<1>15. WrittenIsAccounted'
  BY <1>9, AccountedStays DEF CreateEdge, IInv, WrittenIsAccounted
<1>16. EdgesJoinCommitted'
  <2>1. UNCHANGED <<nodes, committed>>
    BY DEF CreateEdge
  <2>2. EdgesJoinCommitted
    BY DEF IInv
  <2>3. CASE edges' = edges
    BY <2>1, <2>2, <2>3 DEF EdgesJoinCommitted
  <2>4. CASE edges' = edges \cup {g} /\ edge.subject \in nodes /\ edge.object \in nodes
    <3>1. /\ g.edge.subject # g.edge.object
          /\ {g.edge.subject, g.edge.object} \subseteq nodes
          /\ g.edge.predicate = Surface[g.source].predicate
          /\ \E c \in Candidates : /\ KeyOf[c] = Surface[g.source].subject
                                   /\ committed[c] = g.edge.subject
          /\ \E c \in Candidates : /\ KeyOf[c] = Surface[g.source].object
                                   /\ committed[c] = g.edge.object
      BY <1>2, <1>4, <2>4 DEF Joins
    <3> QED BY <2>1, <2>2, <2>4, <3>1 DEF EdgesJoinCommitted
  <2> QED BY <1>8, <2>3, <2>4
<1>17. OneEdgePerFact'
  BY <1>4, <1>8 DEF IInv, OneEdgePerFact, InGraph
<1> QED BY <1>12, <1>13, <1>14, <1>15, <1>16, <1>17 DEF IInv

-----------------------------------------------------------------------------
(* Steps beside the gate *)

(* What a step that changes no request and no row has to keep.             *)
LEMMA StoreStep ==
  ASSUME IInv, Kept, UNCHANGED <<req, rel>>
  PROVE  InFlightJoins' /\ MarkedIsAccounted' /\ WrittenIsAccounted'
<1>1. InFlightJoins'
  BY JoinsStays DEF IInv, TypeOK, InFlightJoins
<1>2. MarkedIsAccounted'
  BY AccountedStays DEF IInv, MarkedIsAccounted
<1>3. WrittenIsAccounted'
  BY AccountedStays DEF IInv, WrittenIsAccounted
<1> QED BY <1>1, <1>2, <1>3

LEMMA AcceptStep ==
  ASSUME IInv, NEW c \in Candidates, AcceptCandidate(c)
  PROVE  IInv'
<1>1. PICK e \in Entities \ deleted :
        committed' = [committed EXCEPT ![c] = e] /\ nodes' = nodes \cup {e}
  BY DEF AcceptCandidate
<1>2. committed'[c] = e /\ \A d \in Candidates : d # c => committed'[d] = committed[d]
  BY <1>1 DEF IInv, TypeOK
<1>3. \A d \in Candidates : committed[d] # NoEntity => committed'[d] = committed[d]
  BY <1>2 DEF AcceptCandidate
<1>4. UNCHANGED <<rel, edges, req, deleted, removed, failures>>
  BY DEF AcceptCandidate
<1>5. Kept
  BY <1>3, <1>4 DEF Kept
<1>6. TypeOK'
  BY <1>1, <1>4 DEF IInv, TypeOK
<1>7. CommittedExists'
  BY <1>1, <1>2, <1>4 DEF IInv, CommittedExists
<1>8. EdgesJoinCommitted'
  <2> SUFFICES ASSUME NEW g \in edges
               PROVE  /\ g.edge.subject # g.edge.object
                      /\ {g.edge.subject, g.edge.object} \subseteq nodes'
                      /\ g.edge.predicate = Surface[g.source].predicate
                      /\ \E d \in Candidates : /\ KeyOf[d] = Surface[g.source].subject
                                               /\ committed'[d] = g.edge.subject
                      /\ \E d \in Candidates : /\ KeyOf[d] = Surface[g.source].object
                                               /\ committed'[d] = g.edge.object
    BY <1>4 DEF EdgesJoinCommitted
  <2>1. g.edge \in Edge
    BY DEF IInv, TypeOK, Relationship
  <2>2. /\ g.edge.subject # g.edge.object
        /\ {g.edge.subject, g.edge.object} \subseteq nodes
        /\ g.edge.predicate = Surface[g.source].predicate
        /\ Joins(g.source, g.edge, committed)
    BY DEF IInv, EdgesJoinCommitted, Joins
  <2>3. Joins(g.source, g.edge, committed')
    BY <1>5, <2>1, <2>2, JoinsStays
  <2> QED BY <1>1, <2>2, <2>3 DEF Joins
<1>9. OneEdgePerFact'
  BY <1>4 DEF IInv, OneEdgePerFact
<1> QED BY <1>4, <1>5, <1>6, <1>7, <1>8, <1>9, StoreStep DEF IInv

LEMMA RemoveStep ==
  ASSUME IInv, NEW g \in edges, RemoveEdge(g)
  PROVE  IInv'
<1>1. Kept
  BY DEF RemoveEdge, Kept
<1>2. g.edge \in Edge
  BY DEF IInv, TypeOK, Relationship
<1>3. TypeOK'
  BY <1>2 DEF RemoveEdge, IInv, TypeOK
<1>4. CommittedExists' /\ EdgesJoinCommitted' /\ OneEdgePerFact'
  BY DEF RemoveEdge, IInv, CommittedExists, EdgesJoinCommitted, OneEdgePerFact
<1> QED BY <1>1, <1>3, <1>4, StoreStep DEF RemoveEdge, IInv

LEMMA DeleteStep ==
  ASSUME IInv, NEW e \in nodes, DeleteEntity(e)
  PROVE  IInv'
<1>1. Kept
  BY DEF DeleteEntity, Kept
<1>2. {g.edge : g \in Incident(e)} \subseteq Edge /\ e \in Entities
  BY DEF IInv, TypeOK, Relationship, Incident
<1>3. TypeOK'
  BY <1>2 DEF DeleteEntity, IInv, TypeOK
<1>4. CommittedExists'
  BY DEF DeleteEntity, IInv, CommittedExists
<1>5. EdgesJoinCommitted' /\ OneEdgePerFact'
  BY DEF DeleteEntity, IInv, EdgesJoinCommitted, OneEdgePerFact, Incident
<1> QED BY <1>1, <1>3, <1>4, <1>5, StoreStep DEF DeleteEntity, IInv

LEMMA StutterStep ==
  ASSUME IInv, UNCHANGED vars
  PROVE  IInv'
<1> USE DEF vars
<1>1. TypeOK'
  BY DEF IInv, TypeOK
<1>2. InFlightJoins' /\ MarkedIsAccounted'
  BY DEF IInv, InFlightJoins, MarkedIsAccounted
<1>3. CommittedExists' /\ WrittenIsAccounted'
  BY DEF IInv, CommittedExists, WrittenIsAccounted
<1>4. EdgesJoinCommitted' /\ OneEdgePerFact'
  BY DEF IInv, EdgesJoinCommitted, OneEdgePerFact
<1> QED BY <1>1, <1>2, <1>3, <1>4 DEF IInv

LEMMA NextIInv == IInv /\ [Next]_vars => IInv'
<1> SUFFICES ASSUME IInv, [Next]_vars PROVE IInv'
  OBVIOUS
<1>1. ASSUME NEW r \in Requests, Submit(r) \/ Handler(r) \/ Fail(r)
      PROVE  IInv'
  BY <1>1, SubmitStep, LoadStep, MarkRejectedStep, ResolveStep, CreateEdgeStep,
     MarkWrittenStep, FailStep DEF Handler
<1>2. ASSUME NEW c \in Candidates, AcceptCandidate(c) PROVE IInv'
  BY <1>2, AcceptStep
<1>3. ASSUME NEW g \in edges, RemoveEdge(g) PROVE IInv'
  BY <1>3, RemoveStep
<1>4. ASSUME NEW e \in nodes, DeleteEntity(e) PROVE IInv'
  BY <1>4, DeleteStep
<1> QED BY <1>1, <1>2, <1>3, <1>4, StutterStep DEF Next

LEMMA AlwaysIInv == Spec => []IInv
BY InitIInv, NextIInv, PTL DEF Spec

-----------------------------------------------------------------------------
(* The theorems *)

(* The variables have their types; between resolution and flip a request   *)
(* of RelationReviewService.decide always holds an edge.                   *)
THEOREM TypeCorrect == Spec => []TypeOK
<1>1. IInv => TypeOK
  BY DEF IInv
<1> QED BY <1>1, AlwaysIInv, PTL

(* Every edge decide writes joins two different entities of the graph that *)
(* accepted candidates of its relation's paragraph are committed to.       *)
THEOREM EdgesCommitted == Spec => []EdgesJoinCommitted
<1>1. IInv => EdgesJoinCommitted
  BY DEF IInv
<1> QED BY <1>1, AlwaysIInv, PTL

(* create_relation never puts a second edge for the same resolved triple.  *)
THEOREM NoParallelEdge == Spec => []OneEdgePerFact
<1>1. IInv => OneEdgePerFact
  BY DEF IInv
<1> QED BY <1>1, AlwaysIInv, PTL

(* A written row has its edge unless the author removed it or an endpoint: *)
(* mark_written is the last write.                                         *)
THEOREM WrittenHasEdge == Spec => []WrittenUnlessEdited
<1>1. IInv => WrittenUnlessEdited
  BY DEF IInv, WrittenIsAccounted, Accounted, WrittenUnlessEdited, InGraph
<1> QED BY <1>1, AlwaysIInv, PTL

(* No step changes a row that is written or rejected: the guard of         *)
(* mark_written and mark_rejected.                                         *)
THEOREM RowsFinal == Spec => DecisionStands
<1>1. IInv /\ [Next]_vars =>
        [\A x \in Relations : rel[x].status # "staged" => rel'[x] = rel[x]]_vars
  <2> SUFFICES ASSUME IInv, Next, NEW x \in Relations, rel[x].status # "staged"
               PROVE  rel'[x] = rel[x]
    OBVIOUS
  <2>1. rel \in [Relations -> Row] /\ \A r \in Requests : req[r].rel \in Relations
    BY DEF IInv, TypeOK, Request
  <2>2. ASSUME NEW r \in Requests, Submit(r) \/ Handler(r) \/ Fail(r)
        PROVE  rel'[x] = rel[x]
    <3>1. ASSUME MarkRejected(r) PROVE rel'[x] = rel[x]
      BY <2>1, <3>1 DEF MarkRejected
    <3>2. ASSUME MarkWritten(r) PROVE rel'[x] = rel[x]
      BY <2>1, <3>2 DEF MarkWritten
    <3> QED BY <2>2, <3>1, <3>2 DEF Submit, Handler, Load, Resolve, CreateEdge, Fail
  <2> QED BY <2>2 DEF Next, AcceptCandidate, RemoveEdge, DeleteEntity
<1> QED BY <1>1, AlwaysIInv, PTL DEF Spec, DecisionStands
=============================================================================

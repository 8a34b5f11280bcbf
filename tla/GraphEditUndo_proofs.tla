------------------------- MODULE GraphEditUndo_proofs -------------------------
(***************************************************************************)
(* Undo is exact, for any graph, any asks, any stack of operations, undos  *)
(* and deaths half way, one request at a time.                             *)
(*                                                                         *)
(* A store call is a function from graphs to graphs (After), a list of     *)
(* them a run (Runs) that also says what becomes of the rows to be logged. *)
(* Each kind of operation is shown to be Planned: its calls lead from the  *)
(* graph it is begun on to one from which the inverses of its rows, the    *)
(* last row first, lead back.  The invariant then follows that promise     *)
(* through the steps: an edit in flight has the rest of its run before it, *)
(* and so has an undo; what has been logged and not undone since the last  *)
(* loss of evidence is a stack (Stacked) of operations, each taken back    *)
(* from the graph the next was begun on, with all its rows in the log and  *)
(* no younger live row that is not of the stack -- so that the newest live *)
(* operation, which undo takes, is the one on top.                         *)
(*                                                                         *)
(* That a handle names one edge needs less than an exact undo, and holds   *)
(* for more: the calls that are left to an edit or an undo give no handle  *)
(* twice wherever they stop (Rewires, Unwinds), and the live operations of *)
(* the log are a pile (Piled), each of which takes the edges the next was  *)
(* begun on back towards its own.                                          *)
(***************************************************************************)
EXTENDS GraphEdit_proofs

-----------------------------------------------------------------------------
(* What calls make of a graph *)

GraphOf(n, e, m, h) == [node |-> n, edge |-> e, mention |-> m, hidden |-> h]
Put(f, x, y) == [f EXCEPT ![x] = y]

OfType(n, type) == {e \in Entities : n[e] # NoNode /\ n[e].type = type}
Naming(m, e) == {i \in MentionIds : m[i] # NoMention /\ m[i].entity = e}
Relabelled(n, from, to) ==
  [e \in Entities |-> IF e \in OfType(n, from) THEN [n[e] EXCEPT !.type = to] ELSE n[e]]
Detached(e, x) == [t \in Triples |-> IF x \in {t[1], t[3]} THEN NoEdge ELSE e[t]]
Without(m, ids) == [i \in MentionIds |-> IF i \in ids THEN NoMention ELSE m[i]]
Given(m, ids, e) ==
  [i \in MentionIds |-> IF i \in ids /\ m[i] # NoMention THEN [m[i] EXCEPT !.entity = e] ELSE m[i]]
Spanned(x, s) == [x EXCEPT !.span = s]

NodeAfter(c, n) ==
  CASE c.do = "create_entity" -> IF n[c.on] # NoNode THEN n ELSE Put(n, c.on, c.with)
    [] c.do = "update_entity" -> IF n[c.on] # NoNode THEN Put(n, c.on, c.with) ELSE n
    [] c.do = "restore_fields" -> IF n[c.on] # NoNode THEN Put(n, c.on, Over(c.with, n[c.on])) ELSE n
    [] c.do = "delete_entity" -> Put(n, c.on, NoNode)
    [] c.do = "relabel_entity_type" -> Relabelled(n, c.on, c.with)
    [] OTHER -> n

EdgeAfter(c, n, e) ==
  CASE c.do = "delete_entity" -> Detached(e, c.on)
    [] c.do = "create_relation" ->
         IF n[c.on[1]] # NoNode /\ n[c.on[3]] # NoNode /\ e[c.on] = NoEdge THEN Put(e, c.on, c.with) ELSE e
    [] c.do = "delete_relation" -> Put(e, c.on, NoEdge)
    [] OTHER -> e

MentionAfter(c, m) ==
  CASE c.do = "add_mention" -> IF m[c.on] = NoMention THEN Put(m, c.on, c.with) ELSE m
    [] c.do = "delete_mention" -> Put(m, c.on, NoMention)
    [] c.do = "update_mention_span" ->
         IF m[c.on] = NoMention THEN m ELSE Put(m, c.on, Spanned(m[c.on], c.with))
    [] c.do = "delete_mentions_for_entity" -> Without(m, Naming(m, c.on))
    [] c.do = "reassign_mentions" -> Given(m, c.on, c.with)
    [] c.do = "repoint_mentions" -> Given(m, Naming(m, c.on), c.with)
    [] OTHER -> m

HiddenAfter(c, h) ==
  CASE c.do = "add_suppression" -> h \cup {c.on}
    [] c.do = "delete_suppression" -> h \ {c.on}
    [] OTHER -> h

After(c, g) ==
  GraphOf(NodeAfter(c, g.node), EdgeAfter(c, g.node, g.edge), MentionAfter(c, g.mention),
          HiddenAfter(c, g.hidden))

(* What a call makes of the rows that are to be logged.                    *)
Telling(w, ids) ==
  [i \in DOMAIN w |-> IF w[i].op = "repoint_mentions" THEN [w[i] EXCEPT !.before = ids] ELSE w[i]]
Relabelling(ids, from, to) ==
  [i \in DOMAIN SetToSeq(ids) |-> Row("edit_fields", SetToSeq(ids)[i], [type |-> from], [type |-> to])]
RowsAfter(c, g, w) ==
  CASE c.do = "repoint_mentions" -> Telling(w, Naming(g.mention, c.on))
    [] c.do = "relabel_entity_type" -> Relabelling(OfType(g.node, c.on), c.on, c.with)
    [] OTHER -> w

(* A call touches the parts of the graph that it is about.                 *)
OnNodes == {"create_entity", "update_entity", "restore_fields", "delete_entity", "relabel_entity_type"}
OnEdges == {"create_relation", "delete_relation", "delete_entity"}
OnMentions ==
  {"add_mention", "delete_mention", "update_mention_span", "delete_mentions_for_entity",
   "reassign_mentions", "repoint_mentions"}
OnHidden == {"add_suppression", "delete_suppression"}

LEMMA Untouched ==
  ASSUME NEW c, NEW n, NEW e, NEW m, NEW h
  PROVE  /\ c.do \notin OnNodes => NodeAfter(c, n) = n
         /\ c.do \notin OnEdges => EdgeAfter(c, n, e) = e
         /\ c.do \notin OnMentions => MentionAfter(c, m) = m
         /\ c.do \notin OnHidden => HiddenAfter(c, h) = h
<1>1. c.do \notin OnNodes => NodeAfter(c, n) = n
  BY DEF NodeAfter, OnNodes
<1>2. c.do \notin OnEdges => EdgeAfter(c, n, e) = e
  BY DEF EdgeAfter, OnEdges
<1>3. c.do \notin OnMentions => MentionAfter(c, m) = m
  BY DEF MentionAfter, OnMentions
<1>4. c.do \notin OnHidden => HiddenAfter(c, h) = h
  BY DEF HiddenAfter, OnHidden
<1> QED
  BY <1>1, <1>2, <1>3, <1>4

LEMMA PartsMakeGraph ==
  ASSUME NEW c, node' = NodeAfter(c, node), edge' = EdgeAfter(c, node, edge),
         mention' = MentionAfter(c, mention), hidden' = HiddenAfter(c, hidden)
  PROVE  Graph' = After(c, Graph)
BY DEF Graph, GraphOf, After

LEMMA NodeCallIs ==
  ASSUME NEW r \in Requests, CreateEntity(r) \/ UpdateEntity(r) \/ RestoreFields(r)
  PROVE  Graph' = After(Head(req[r].calls), Graph)
<1> DEFINE c == Head(req[r].calls)
<1>1. CASE CreateEntity(r)
  <2>1. c.do = "create_entity" /\ UNCHANGED <<edge, mention, hidden>>
    BY <1>1 DEF CreateEntity, Calls
  <2>2. node' = IF node[c.on] # NoNode THEN node ELSE Put(node, c.on, c.with)
    BY <1>1 DEF CreateEntity, Calls, On, With, Exists, Put
  <2>3. NodeAfter(c, node) = IF node[c.on] # NoNode THEN node ELSE Put(node, c.on, c.with)
    BY <2>1 DEF NodeAfter
  <2>4. EdgeAfter(c, node, edge) = edge /\ MentionAfter(c, mention) = mention /\ HiddenAfter(c, hidden) = hidden
    BY <2>1, Untouched DEF OnNodes, OnEdges, OnMentions, OnHidden
  <2> QED
    BY <2>1, <2>2, <2>3, <2>4, PartsMakeGraph
<1>2. CASE UpdateEntity(r)
  <2>1. c.do = "update_entity" /\ UNCHANGED <<edge, mention, hidden>>
    BY <1>2 DEF UpdateEntity, Calls
  <2>2. node' = IF node[c.on] # NoNode THEN Put(node, c.on, c.with) ELSE node
    BY <1>2 DEF UpdateEntity, Calls, On, With, Exists, Put
  <2>3. NodeAfter(c, node) = IF node[c.on] # NoNode THEN Put(node, c.on, c.with) ELSE node
    BY <2>1 DEF NodeAfter
  <2>4. EdgeAfter(c, node, edge) = edge /\ MentionAfter(c, mention) = mention /\ HiddenAfter(c, hidden) = hidden
    BY <2>1, Untouched DEF OnNodes, OnEdges, OnMentions, OnHidden
  <2> QED
    BY <2>1, <2>2, <2>3, <2>4, PartsMakeGraph
<1>3. CASE RestoreFields(r)
  <2>1. c.do = "restore_fields" /\ UNCHANGED <<edge, mention, hidden>>
    BY <1>3 DEF RestoreFields, Calls
  <2>2. node' = IF node[c.on] # NoNode THEN Put(node, c.on, Over(c.with, node[c.on])) ELSE node
    BY <1>3 DEF RestoreFields, Calls, On, With, Exists, Put
  <2>3. NodeAfter(c, node) = IF node[c.on] # NoNode THEN Put(node, c.on, Over(c.with, node[c.on])) ELSE node
    BY <2>1 DEF NodeAfter
  <2>4. EdgeAfter(c, node, edge) = edge /\ MentionAfter(c, mention) = mention /\ HiddenAfter(c, hidden) = hidden
    BY <2>1, Untouched DEF OnNodes, OnEdges, OnMentions, OnHidden
  <2> QED
    BY <2>1, <2>2, <2>3, <2>4, PartsMakeGraph
<1> QED
  BY <1>1, <1>2, <1>3

LEMMA EdgeCallIs ==
  ASSUME NEW r \in Requests, DeleteNode(r) \/ CreateRelation(r) \/ DeleteRelation(r)
  PROVE  Graph' = After(Head(req[r].calls), Graph)
<1> DEFINE c == Head(req[r].calls)
<1>1. CASE DeleteNode(r)
  <2>1. c.do = "delete_entity" /\ UNCHANGED <<mention, hidden>>
    BY <1>1 DEF DeleteNode, Calls
  <2>2. node' = Put(node, c.on, NoNode)
    BY <1>1 DEF DeleteNode, Calls, On, Put
  <2>3. NodeAfter(c, node) = Put(node, c.on, NoNode)
    BY <2>1 DEF NodeAfter
  <2>4. edge' = Detached(edge, c.on)
    BY <1>1 DEF DeleteNode, Calls, On, Detached
  <2>5. EdgeAfter(c, node, edge) = Detached(edge, c.on)
    BY <2>1 DEF EdgeAfter
  <2>6. MentionAfter(c, mention) = mention /\ HiddenAfter(c, hidden) = hidden
    BY <2>1, Untouched, SMTT(30) DEF OnNodes, OnEdges, OnMentions, OnHidden
  <2> QED
    BY <2>1, <2>2, <2>3, <2>4, <2>5, <2>6, PartsMakeGraph
<1>2. CASE CreateRelation(r)
  <2>1. c.do = "create_relation" /\ UNCHANGED <<node, mention, hidden>>
    BY <1>2 DEF CreateRelation, Calls
  <2>2. edge' = IF node[c.on[1]] # NoNode /\ node[c.on[3]] # NoNode /\ edge[c.on] = NoEdge
                   THEN Put(edge, c.on, c.with) ELSE edge
    BY <1>2 DEF CreateRelation, Calls, On, With, Exists, Put, HasEdge
  <2>3. EdgeAfter(c, node, edge) = IF node[c.on[1]] # NoNode /\ node[c.on[3]] # NoNode /\ edge[c.on] = NoEdge
                   THEN Put(edge, c.on, c.with) ELSE edge
    BY <2>1 DEF EdgeAfter
  <2>4. NodeAfter(c, node) = node /\ MentionAfter(c, mention) = mention /\ HiddenAfter(c, hidden) = hidden
    BY <2>1, Untouched DEF OnNodes, OnEdges, OnMentions, OnHidden
  <2> QED
    BY <2>1, <2>2, <2>3, <2>4, PartsMakeGraph
<1>3. CASE DeleteRelation(r)
  <2>1. c.do = "delete_relation" /\ UNCHANGED <<node, mention, hidden>>
    BY <1>3 DEF DeleteRelation, Calls
  <2>2. edge' = Put(edge, c.on, NoEdge)
    BY <1>3 DEF DeleteRelation, Calls, On, Put
  <2>3. EdgeAfter(c, node, edge) = Put(edge, c.on, NoEdge)
    BY <2>1 DEF EdgeAfter
  <2>4. NodeAfter(c, node) = node /\ MentionAfter(c, mention) = mention /\ HiddenAfter(c, hidden) = hidden
    BY <2>1, Untouched DEF OnNodes, OnEdges, OnMentions, OnHidden
  <2> QED
    BY <2>1, <2>2, <2>3, <2>4, PartsMakeGraph
<1> QED
  BY <1>1, <1>2, <1>3

LEMMA MentionCallIs ==
  ASSUME NEW r \in Requests,
         AddMention(r) \/ DeleteMention(r) \/ UpdateMentionSpan(r)
           \/ DeleteMentionsOf(r) \/ ReassignMentions(r) \/ RepointMentions(r)
  PROVE  Graph' = After(Head(req[r].calls), Graph)
<1> DEFINE c == Head(req[r].calls)
<1>1. CASE AddMention(r)
  <2>1. c.do = "add_mention" /\ UNCHANGED <<node, edge, hidden>>
    BY <1>1 DEF AddMention, Calls
  <2>2. mention' = IF mention[c.on] = NoMention THEN Put(mention, c.on, c.with) ELSE mention
    BY <1>1 DEF AddMention, Calls, On, With, Put
  <2>3. MentionAfter(c, mention) = IF mention[c.on] = NoMention THEN Put(mention, c.on, c.with) ELSE mention
    BY <2>1 DEF MentionAfter
  <2>4. NodeAfter(c, node) = node /\ EdgeAfter(c, node, edge) = edge /\ HiddenAfter(c, hidden) = hidden
    BY <2>1, Untouched DEF OnNodes, OnEdges, OnMentions, OnHidden
  <2> QED
    BY <2>1, <2>2, <2>3, <2>4, PartsMakeGraph
<1>2. CASE DeleteMention(r)
  <2>1. c.do = "delete_mention" /\ UNCHANGED <<node, edge, hidden>>
    BY <1>2 DEF DeleteMention, Calls
  <2>2. mention' = Put(mention, c.on, NoMention)
    BY <1>2 DEF DeleteMention, Calls, On, Put
  <2>3. MentionAfter(c, mention) = Put(mention, c.on, NoMention)
    BY <2>1 DEF MentionAfter
  <2>4. NodeAfter(c, node) = node /\ EdgeAfter(c, node, edge) = edge /\ HiddenAfter(c, hidden) = hidden
    BY <2>1, Untouched, SMTT(30) DEF OnNodes, OnEdges, OnMentions, OnHidden
  <2> QED
    BY <2>1, <2>2, <2>3, <2>4, PartsMakeGraph
<1>3. CASE UpdateMentionSpan(r)
  <2>1. c.do = "update_mention_span" /\ UNCHANGED <<node, edge, hidden>>
    BY <1>3 DEF UpdateMentionSpan, Calls
  <2>2. mention' = IF mention[c.on] = NoMention THEN mention
                    ELSE Put(mention, c.on, Spanned(mention[c.on], c.with))
    BY <1>3 DEF UpdateMentionSpan, Calls, On, With, Put, Spanned
  <2>3. MentionAfter(c, mention) = IF mention[c.on] = NoMention THEN mention
                    ELSE Put(mention, c.on, Spanned(mention[c.on], c.with))
    BY <2>1 DEF MentionAfter
  <2>4. NodeAfter(c, node) = node /\ EdgeAfter(c, node, edge) = edge /\ HiddenAfter(c, hidden) = hidden
    BY <2>1, Untouched DEF OnNodes, OnEdges, OnMentions, OnHidden
  <2> QED
    BY <2>1, <2>2, <2>3, <2>4, PartsMakeGraph
<1>4. CASE DeleteMentionsOf(r)
  <2>1. c.do = "delete_mentions_for_entity" /\ UNCHANGED <<node, edge, hidden>>
    BY <1>4 DEF DeleteMentionsOf, Calls
  <2>2. mention' = Without(mention, Naming(mention, c.on))
    BY <1>4 DEF DeleteMentionsOf, Calls, On, Without, Naming, MentionsOf
  <2>3. MentionAfter(c, mention) = Without(mention, Naming(mention, c.on))
    BY <2>1 DEF MentionAfter
  <2>4. NodeAfter(c, node) = node /\ EdgeAfter(c, node, edge) = edge /\ HiddenAfter(c, hidden) = hidden
    BY <2>1, Untouched DEF OnNodes, OnEdges, OnMentions, OnHidden
  <2> QED
    BY <2>1, <2>2, <2>3, <2>4, PartsMakeGraph
<1>5. CASE ReassignMentions(r)
  <2>1. c.do = "reassign_mentions" /\ UNCHANGED <<node, edge, hidden>>
    BY <1>5 DEF ReassignMentions, Calls
  <2>2. mention' = Given(mention, c.on, c.with)
    BY <1>5 DEF ReassignMentions, Calls, On, With, Reassigned, Given
  <2>3. MentionAfter(c, mention) = Given(mention, c.on, c.with)
    BY <2>1 DEF MentionAfter
  <2>4. NodeAfter(c, node) = node /\ EdgeAfter(c, node, edge) = edge /\ HiddenAfter(c, hidden) = hidden
    BY <2>1, Untouched DEF OnNodes, OnEdges, OnMentions, OnHidden
  <2> QED
    BY <2>1, <2>2, <2>3, <2>4, PartsMakeGraph
<1>6. CASE RepointMentions(r)
  <2>1. c.do = "repoint_mentions" /\ UNCHANGED <<node, edge, hidden>>
    BY <1>6 DEF RepointMentions, Calls
  <2>2. mention' = Given(mention, Naming(mention, c.on), c.with)
    BY <1>6 DEF RepointMentions, Calls, On, With, Reassigned, Given, Naming, MentionsOf
  <2>3. MentionAfter(c, mention) = Given(mention, Naming(mention, c.on), c.with)
    BY <2>1 DEF MentionAfter
  <2>4. NodeAfter(c, node) = node /\ EdgeAfter(c, node, edge) = edge /\ HiddenAfter(c, hidden) = hidden
    BY <2>1, Untouched DEF OnNodes, OnEdges, OnMentions, OnHidden
  <2> QED
    BY <2>1, <2>2, <2>3, <2>4, PartsMakeGraph
<1> QED
  BY <1>1, <1>2, <1>3, <1>4, <1>5, <1>6

LEMMA OtherCallIs ==
  ASSUME NEW r \in Requests, RelabelType(r) \/ AddSuppression(r) \/ DeleteSuppression(r)
  PROVE  Graph' = After(Head(req[r].calls), Graph)
<1> DEFINE c == Head(req[r].calls)
<1>1. CASE RelabelType(r)
  <2>1. c.do = "relabel_entity_type" /\ UNCHANGED <<edge, mention, hidden>>
    BY <1>1, SMTT(30) DEF RelabelType, Calls
  <2>2. node' = Relabelled(node, c.on, c.with)
    BY <1>1 DEF RelabelType, Calls, On, With, Exists, Relabelled, OfType
  <2>3. NodeAfter(c, node) = Relabelled(node, c.on, c.with)
    BY <2>1 DEF NodeAfter
  <2>4. EdgeAfter(c, node, edge) = edge /\ MentionAfter(c, mention) = mention /\ HiddenAfter(c, hidden) = hidden
    BY <2>1, Untouched DEF OnNodes, OnEdges, OnMentions, OnHidden
  <2> QED
    BY <2>1, <2>2, <2>3, <2>4, PartsMakeGraph
<1>2. CASE AddSuppression(r)
  <2>1. c.do = "add_suppression" /\ UNCHANGED <<node, edge, mention>>
    BY <1>2 DEF AddSuppression, Calls
  <2>2. hidden' = hidden \cup {c.on}
    BY <1>2 DEF AddSuppression, Calls, On
  <2>3. HiddenAfter(c, hidden) = hidden \cup {c.on}
    BY <2>1 DEF HiddenAfter
  <2>4. NodeAfter(c, node) = node /\ EdgeAfter(c, node, edge) = edge /\ MentionAfter(c, mention) = mention
    BY <2>1, Untouched DEF OnNodes, OnEdges, OnMentions, OnHidden
  <2> QED
    BY <2>1, <2>2, <2>3, <2>4, PartsMakeGraph
<1>3. CASE DeleteSuppression(r)
  <2>1. c.do = "delete_suppression" /\ UNCHANGED <<node, edge, mention>>
    BY <1>3 DEF DeleteSuppression, Calls
  <2>2. hidden' = hidden \ {c.on}
    BY <1>3 DEF DeleteSuppression, Calls, On
  <2>3. HiddenAfter(c, hidden) = hidden \ {c.on}
    BY <2>1 DEF HiddenAfter
  <2>4. NodeAfter(c, node) = node /\ EdgeAfter(c, node, edge) = edge /\ MentionAfter(c, mention) = mention
    BY <2>1, Untouched DEF OnNodes, OnEdges, OnMentions, OnHidden
  <2> QED
    BY <2>1, <2>2, <2>3, <2>4, PartsMakeGraph
<1> QED
  BY <1>1, <1>2, <1>3

LEMMA CallIs ==
  ASSUME NEW r \in Requests, StoreCall(r)
  PROVE  Graph' = After(Head(req[r].calls), Graph)
BY NodeCallIs, EdgeCallIs, MentionCallIs, OtherCallIs DEF StoreCall

(* The request after a call: its rows, unless it has found nothing to do.  *)
LEMMA CallMoves ==
  ASSUME ReqShape, NEW r \in Requests, StoreCall(r)
  PROVE  LET c == Head(req[r].calls) IN
         \/ /\ req'[r].kind = req[r].kind /\ req'[r].calls = Tail(req[r].calls) /\ req'[r].op = req[r].op
            /\ IsEdit(req[r]) => /\ req'[r].seed = req[r].seed /\ req'[r].before = req[r].before
                                 /\ req'[r].rows = RowsAfter(c, Graph, req[r].rows)
            /\ c.do = "relabel_entity_type" => OfType(node, c.on) # {}
         \/ req' = [req EXCEPT ![r] = Idle] /\ c.do = "relabel_entity_type" /\ OfType(node, c.on) = {}
<1> DEFINE c == Head(req[r].calls)
<1>1. CASE \/ CreateEntity(r) \/ UpdateEntity(r) \/ RestoreFields(r) \/ DeleteNode(r)
           \/ CreateRelation(r) \/ DeleteRelation(r)
           \/ AddMention(r) \/ DeleteMention(r) \/ UpdateMentionSpan(r)
           \/ DeleteMentionsOf(r) \/ ReassignMentions(r)
           \/ AddSuppression(r) \/ DeleteSuppression(r)
  <2>1. Return(r) /\ req[r] # Idle /\ c.do \notin {"repoint_mentions", "relabel_entity_type"}
    BY <1>1 DEF CreateEntity, UpdateEntity, RestoreFields, DeleteNode, CreateRelation, DeleteRelation,
       AddMention, DeleteMention, UpdateMentionSpan, DeleteMentionsOf, ReassignMentions, AddSuppression,
       DeleteSuppression, Calls
  <2>2. RowsAfter(c, Graph, req[r].rows) = req[r].rows
    BY <2>1 DEF RowsAfter
  <2> QED
    BY <2>1, <2>2, ReturnEffect
<1>2. CASE RepointMentions(r)
  <2> DEFINE rows == RowsAfter(c, Graph, req[r].rows)
  <2>1. c.do = "repoint_mentions" /\ req[r] # Idle
    BY <1>2 DEF RepointMentions, Calls
  <2>2. ReturnRows(r, rows)
    BY <1>2, <2>1 DEF RepointMentions, RowsAfter, Telling, Graph, Naming, MentionsOf, On
  <2> HIDE DEF rows
  <2> QED
    BY <2>1, <2>2, ReturnRowsEffect DEF rows
<1>3. CASE RelabelType(r)
  <2> DEFINE rows == RowsAfter(c, Graph, req[r].rows)
  <2>1. c.do = "relabel_entity_type" /\ req[r] # Idle
    BY <1>3 DEF RelabelType, Calls
  <2>2. rows = Relabelling(OfType(node, c.on), c.on, c.with)
    BY <2>1 DEF RowsAfter, Graph
  <2>3. IF OfType(node, c.on) = {} THEN req' = [req EXCEPT ![r] = Idle] ELSE ReturnRows(r, rows)
    BY <1>3, <2>2 DEF RelabelType, Relabelling, OfType, On, With, Exists
  <2> HIDE DEF rows
  <2> QED
    BY <2>1, <2>3, ReturnRowsEffect DEF rows
<1> QED
  BY <1>1, <1>2, <1>3 DEF StoreCall

-----------------------------------------------------------------------------
(* Running a list of calls *)

(* From graph g and rows w the calls cs lead to graph h and rows v.        *)
Runs(cs, g, w, h, v) ==
  \E f, k :
    /\ f[0] = g /\ k[0] = w /\ f[Len(cs)] = h /\ k[Len(cs)] = v
    /\ \A i \in 1 .. Len(cs) : f[i] = After(cs[i], f[i - 1]) /\ k[i] = RowsAfter(cs[i], f[i - 1], k[i - 1])

LEMMA RunsBy ==
  ASSUME NEW cs, NEW g, NEW w, NEW h, NEW v, NEW f, NEW k,
         f[0] = g, k[0] = w, f[Len(cs)] = h, k[Len(cs)] = v,
         \A i \in 1 .. Len(cs) : f[i] = After(cs[i], f[i - 1]) /\ k[i] = RowsAfter(cs[i], f[i - 1], k[i - 1])
  PROVE  Runs(cs, g, w, h, v)
BY DEF Runs

LEMMA RunsNone ==
  ASSUME NEW g, NEW w
  PROVE  /\ Runs(<<>>, g, w, g, w)
         /\ \A h, v : Runs(<<>>, g, w, h, v) => h = g /\ v = w
<1>1. Len(<<>>) = 0 /\ \A i \in 1 .. 0 : FALSE
  OBVIOUS
<1>2. Runs(<<>>, g, w, g, w)
  <2> DEFINE f == [i \in {0} |-> g]
             k == [i \in {0} |-> w]
  <2>1. f[0] = g /\ k[0] = w
    OBVIOUS
  <2> HIDE DEF f, k
  <2> QED
    BY <1>1, <2>1 DEF Runs
<1>3. \A h, v : Runs(<<>>, g, w, h, v) => h = g /\ v = w
  BY <1>1 DEF Runs
<1> QED
  BY <1>2, <1>3

LEMMA RunsTail ==
  ASSUME NEW S, NEW cs \in Seq(S), cs # <<>>, NEW g, NEW w, NEW h, NEW v, Runs(cs, g, w, h, v)
  PROVE  Runs(Tail(cs), After(Head(cs), g), RowsAfter(Head(cs), g, w), h, v)
<1> DEFINE n == Len(cs)
<1>1. n \in Nat /\ n # 0 /\ Len(Tail(cs)) = n - 1 /\ Head(cs) = cs[1]
      /\ \A i \in 1 .. n - 1 : Tail(cs)[i] = cs[i + 1]
  OBVIOUS
<1>2. PICK f, k :
        /\ f[0] = g /\ k[0] = w /\ f[n] = h /\ k[n] = v
        /\ \A i \in 1 .. n : f[i] = After(cs[i], f[i - 1]) /\ k[i] = RowsAfter(cs[i], f[i - 1], k[i - 1])
  BY DEF Runs
<1> DEFINE f1 == [i \in 0 .. n - 1 |-> f[i + 1]]
           k1 == [i \in 0 .. n - 1 |-> k[i + 1]]
<1>3. /\ f1[0] = f[1] /\ k1[0] = k[1] /\ f1[n - 1] = h /\ k1[n - 1] = v
      /\ f[1] = After(cs[1], g) /\ k[1] = RowsAfter(cs[1], g, w)
  BY <1>1, <1>2
<1>4. ASSUME NEW i \in 1 .. n - 1
      PROVE  /\ f1[i] = After(Tail(cs)[i], f1[i - 1])
             /\ k1[i] = RowsAfter(Tail(cs)[i], f1[i - 1], k1[i - 1])
  <2>1. i + 1 \in 1 .. n /\ i \in 0 .. n - 1 /\ i - 1 \in 0 .. n - 1 /\ (i + 1) - 1 = i /\ (i - 1) + 1 = i
    BY <1>1
  <2>2. f1[i] = f[i + 1] /\ k1[i] = k[i + 1] /\ f1[i - 1] = f[i] /\ k1[i - 1] = k[i] /\ Tail(cs)[i] = cs[i + 1]
    BY <1>1, <2>1
  <2>3. f[i + 1] = After(cs[i + 1], f[i]) /\ k[i + 1] = RowsAfter(cs[i + 1], f[i], k[i])
    BY <1>2, <2>1
  <2> HIDE DEF f1, k1, n
  <2> QED
    BY <2>2, <2>3
<1>5. Head(cs) = cs[1] /\ Len(Tail(cs)) = n - 1
  BY <1>1
<1>6. f1[0] = After(Head(cs), g) /\ k1[0] = RowsAfter(Head(cs), g, w)
  <2> HIDE DEF f1, k1, n
  <2> QED
    BY <1>3, <1>5
<1> HIDE DEF f1, k1, n
<1> QED
  BY <1>3, <1>4, <1>5, <1>6 DEF Runs

LEMMA RunsOne ==
  ASSUME NEW c, NEW g, NEW w, NEW h, NEW v, h = After(c, g), v = RowsAfter(c, g, w)
  PROVE  Runs(<<c>>, g, w, h, v)
<1> DEFINE f == [i \in {0, 1} |-> IF i = 0 THEN g ELSE h]
           k == [i \in {0, 1} |-> IF i = 0 THEN w ELSE v]
<1>1. f[0] = g /\ f[1] = h /\ k[0] = w /\ k[1] = v /\ Len(<<c>>) = 1 /\ <<c>>[1] = c
  OBVIOUS
<1> HIDE DEF f, k
<1>2. \A i \in 1 .. 1 : i = 1 /\ i - 1 = 0
  OBVIOUS
<1> QED
  BY <1>1, <1>2 DEF Runs

LEMMA RunsJoin ==
  ASSUME NEW S, NEW cs \in Seq(S), NEW ds \in Seq(S), NEW g, NEW w, NEW h, NEW v, NEW x, NEW y,
         Runs(cs, g, w, h, v), Runs(ds, h, v, x, y)
  PROVE  Runs(cs \o ds, g, w, x, y)
<1> DEFINE n == Len(cs)
           m == Len(ds)
<1>1. /\ n \in Nat /\ m \in Nat /\ Len(cs \o ds) = n + m
      /\ \A i \in 1 .. n : (cs \o ds)[i] = cs[i]
      /\ \A i \in n + 1 .. n + m : (cs \o ds)[i] = ds[i - n]
  OBVIOUS
<1>2. PICK f, k :
        /\ f[0] = g /\ k[0] = w /\ f[n] = h /\ k[n] = v
        /\ \A i \in 1 .. n : f[i] = After(cs[i], f[i - 1]) /\ k[i] = RowsAfter(cs[i], f[i - 1], k[i - 1])
  BY DEF Runs
<1>3. PICK p, q :
        /\ p[0] = h /\ q[0] = v /\ p[m] = x /\ q[m] = y
        /\ \A i \in 1 .. m : p[i] = After(ds[i], p[i - 1]) /\ q[i] = RowsAfter(ds[i], p[i - 1], q[i - 1])
  BY DEF Runs
<1> DEFINE f1 == [i \in 0 .. n + m |-> IF i <= n THEN f[i] ELSE p[i - n]]
           k1 == [i \in 0 .. n + m |-> IF i <= n THEN k[i] ELSE q[i - n]]
<1>4. f1[0] = g /\ k1[0] = w /\ f1[n + m] = x /\ k1[n + m] = y
  <2>1. 0 \in 0 .. n + m /\ n + m \in 0 .. n + m /\ 0 <= n /\ (m # 0 => ~(n + m <= n)) /\ (n + m) - n = m
    BY <1>1
  <2>2. CASE m = 0
    BY <1>1, <1>2, <1>3, <2>1, <2>2
  <2>3. CASE m # 0
    BY <1>2, <1>3, <2>1, <2>3
  <2> QED
    BY <2>2, <2>3
<1>5. ASSUME NEW i \in 1 .. n + m
      PROVE  /\ f1[i] = After((cs \o ds)[i], f1[i - 1])
             /\ k1[i] = RowsAfter((cs \o ds)[i], f1[i - 1], k1[i - 1])
  <2>1. i \in 0 .. n + m /\ i - 1 \in 0 .. n + m
    BY <1>1
  <2>2. CASE i <= n
    <3>1. i \in 1 .. n /\ i - 1 <= n
      BY <1>1, <2>2
    <3>2. f1[i] = f[i] /\ k1[i] = k[i] /\ f1[i - 1] = f[i - 1] /\ k1[i - 1] = k[i - 1]
      BY <2>1, <2>2, <3>1
    <3> HIDE DEF f1, k1, n, m
    <3> QED
      BY <1>1, <1>2, <3>1, <3>2
  <2>3. CASE ~(i <= n)
    <3>1. i \in n + 1 .. n + m /\ i - n \in 1 .. m /\ (i - 1) - n = (i - n) - 1
      BY <1>1, <2>3
    <3>2. f1[i] = p[i - n] /\ k1[i] = q[i - n]
      BY <2>1, <2>3
    <3>3. f1[i - 1] = p[(i - n) - 1] /\ k1[i - 1] = q[(i - n) - 1]
      <4>1. CASE i - 1 <= n
        <5>1. i - 1 = n /\ (i - n) - 1 = 0
          BY <1>1, <2>3, <4>1
        <5> QED
          BY <1>2, <1>3, <2>1, <4>1, <5>1
      <4>2. CASE ~(i - 1 <= n)
        BY <2>1, <3>1, <4>2
      <4> QED
        BY <4>1, <4>2
    <3>4. (cs \o ds)[i] = ds[i - n]
      BY <1>1, <3>1
    <3>5. /\ p[i - n] = After(ds[i - n], p[(i - n) - 1])
          /\ q[i - n] = RowsAfter(ds[i - n], p[(i - n) - 1], q[(i - n) - 1])
      BY <1>3, <3>1
    <3> HIDE DEF f1, k1, n, m
    <3> QED
      BY <3>2, <3>3, <3>4, <3>5
  <2> QED
    BY <2>2, <2>3
<1>6. Len(cs \o ds) = n + m
  BY <1>1
<1> HIDE DEF f1, k1, n, m
<1>7. f1[Len(cs \o ds)] = x /\ k1[Len(cs \o ds)] = y
  BY <1>4, <1>6
<1>8. \A i \in 1 .. Len(cs \o ds) :
        /\ f1[i] = After((cs \o ds)[i], f1[i - 1])
        /\ k1[i] = RowsAfter((cs \o ds)[i], f1[i - 1], k1[i - 1])
  BY <1>5, <1>6
<1> QED
  BY <1>4, <1>7, <1>8, RunsBy

(* Lists of calls that lead from each graph of a sequence to the next, as  *)
(* one list, lead from the first to the last.                              *)
LEMMA RunsFlat ==
  ASSUME NEW S, NEW seqs \in Seq(Seq(S)), NEW f, NEW k,
         \A i \in 1 .. Len(seqs) : Runs(seqs[i], f[i - 1], k[i - 1], f[i], k[i])
  PROVE  Runs(FlattenSeq(seqs), f[0], k[0], f[Len(seqs)], k[Len(seqs)])
<1> DEFINE n == Len(seqs)
<1>0. n \in Nat /\ \A i \in 1 .. n : seqs[i] \in Seq(S)
  OBVIOUS
<1>1. CASE n = 0
  <2>1. FlattenSeq(seqs) = <<>>
    <3>1. seqs = <<>>
      BY <1>1
    <3> QED
      BY <3>1, <1>1 DEF FlattenSeq
  <2> QED
    BY <1>1, <2>1, RunsNone
<1>2. CASE n # 0
  <2>1. PICK c : Flattens(seqs, c, n) /\ FlattenSeq(seqs) = c[n]
    BY <1>0, <1>2, FlattenIs
  <2> DEFINE OK(i) == c[i] \in Seq(S) /\ Runs(c[i], f[0], k[0], f[i], k[i])
             Bad == {i \in 1 .. n : ~OK(i)}
  <2>2. SUFFICES ASSUME Bad # {} PROVE FALSE
    <3>1. Bad = {} => OK(n)
      <4>1. n \in 1 .. n
        BY <1>0, <1>2
      <4> HIDE DEF OK, n
      <4> QED
        BY <4>1
    <3> QED
      BY <2>1, <3>1
  <2>3. PICK m \in Bad : \A i \in Bad : m <= i
    <3>1. Bad \subseteq Nat
      BY <1>0
    <3> HIDE DEF Bad
    <3> QED
      BY <2>2, <3>1, LeastNat
  <2>4. m \in 1 .. n /\ c[m] = IF m = 1 THEN seqs[m] ELSE c[m - 1] \o seqs[m]
    BY <2>1, <2>3 DEF Flattens
  <2>5. seqs[m] \in Seq(S) /\ Runs(seqs[m], f[m - 1], k[m - 1], f[m], k[m])
    BY <1>0, <2>4
  <2>6. CASE m = 1
    <3>1. OK(m)
      BY <2>4, <2>5, <2>6
    <3> QED
      BY <2>3, <3>1
  <2>7. CASE m # 1
    <3>1. m - 1 \in 1 .. n /\ m - 1 \notin Bad
      BY <1>0, <2>3, <2>4, <2>7
    <3>2. OK(m - 1)
      BY <3>1
    <3>3. c[m] = c[m - 1] \o seqs[m]
      BY <2>4, <2>7
    <3>4. c[m] \in Seq(S)
      BY <2>5, <3>2, <3>3
    <3>5. OK(m)
      BY <2>5, <3>2, <3>3, <3>4, RunsJoin
    <3> QED
      BY <2>3, <3>5
  <2> QED
    BY <2>6, <2>7
<1> QED
  BY <1>1, <1>2

-----------------------------------------------------------------------------
(* One call, one row *)

(* A call leaves alone the stores it is not about.                         *)
LEMMA AfterParts ==
  ASSUME NEW n, NEW e, NEW m, NEW h, NEW c
  PROVE  /\ After(c, GraphOf(n, e, m, h)) =
              GraphOf(NodeAfter(c, n), EdgeAfter(c, n, e), MentionAfter(c, m), HiddenAfter(c, h))
         /\ c.do \notin {"create_entity", "update_entity", "restore_fields", "delete_entity",
                        "relabel_entity_type"} => NodeAfter(c, n) = n
         /\ c.do \notin {"delete_entity", "create_relation", "delete_relation"} => EdgeAfter(c, n, e) = e
         /\ c.do \notin {"add_suppression", "delete_suppression"} => HiddenAfter(c, h) = h
         /\ c.do \notin {"add_mention", "delete_mention", "update_mention_span",
                        "delete_mentions_for_entity", "reassign_mentions", "repoint_mentions"} =>
              MentionAfter(c, m) = m
<1>1. After(c, GraphOf(n, e, m, h)) =
        GraphOf(NodeAfter(c, n), EdgeAfter(c, n, e), MentionAfter(c, m), HiddenAfter(c, h))
  BY DEF After, GraphOf
<1>2. c.do \notin {"create_entity", "update_entity", "restore_fields", "delete_entity",
                   "relabel_entity_type"} => NodeAfter(c, n) = n
  BY DEF NodeAfter
<1>3. c.do \notin {"delete_entity", "create_relation", "delete_relation"} => EdgeAfter(c, n, e) = e
  BY DEF EdgeAfter
<1>4. c.do \notin {"add_suppression", "delete_suppression"} => HiddenAfter(c, h) = h
  BY DEF HiddenAfter
<1>5. c.do \notin {"add_mention", "delete_mention", "update_mention_span",
                   "delete_mentions_for_entity", "reassign_mentions", "repoint_mentions"} =>
        MentionAfter(c, m) = m
  BY DEF MentionAfter
<1> QED
  BY <1>1, <1>2, <1>3, <1>4, <1>5

LEMMA AfterCreateEntity ==
  ASSUME NEW n, NEW e, NEW m, NEW h, NEW x, NEW y
  PROVE  After(Call("create_entity", x, y), GraphOf(n, e, m, h)) = GraphOf(IF n[x] # NoNode THEN n ELSE Put(n, x, y), e, m, h)
<1> DEFINE c == Call("create_entity", x, y)
<1>1. c.do = "create_entity" /\ c.on = x /\ c.with = y
  BY DEF Call
<1> HIDE DEF c
<1>2. NodeAfter(c, n) = (IF n[x] # NoNode THEN n ELSE Put(n, x, y))
  BY <1>1 DEF NodeAfter
<1> QED
  BY AfterParts, <1>1, <1>2 DEF c

LEMMA AfterUpdateEntity ==
  ASSUME NEW n, NEW e, NEW m, NEW h, NEW x, NEW y, n[x] # NoNode
  PROVE  After(Call("update_entity", x, y), GraphOf(n, e, m, h)) = GraphOf(Put(n, x, y), e, m, h)
<1> DEFINE c == Call("update_entity", x, y)
<1>1. c.do = "update_entity" /\ c.on = x /\ c.with = y
  BY DEF Call
<1> HIDE DEF c
<1>2. NodeAfter(c, n) = Put(n, x, y)
  BY <1>1 DEF NodeAfter
<1> QED
  BY AfterParts, <1>1, <1>2 DEF c

LEMMA AfterRestoreFields ==
  ASSUME NEW n, NEW e, NEW m, NEW h, NEW x, NEW y, n[x] # NoNode
  PROVE  After(Call("restore_fields", x, y), GraphOf(n, e, m, h)) = GraphOf(Put(n, x, Over(y, n[x])), e, m, h)
<1> DEFINE c == Call("restore_fields", x, y)
<1>1. c.do = "restore_fields" /\ c.on = x /\ c.with = y
  BY DEF Call
<1> HIDE DEF c
<1>2. NodeAfter(c, n) = Put(n, x, Over(y, n[x]))
  BY <1>1 DEF NodeAfter
<1> QED
  BY AfterParts, <1>1, <1>2 DEF c

LEMMA AfterDeleteEntity ==
  ASSUME NEW n, NEW e, NEW m, NEW h, NEW x, NEW y
  PROVE  After(Call("delete_entity", x, y), GraphOf(n, e, m, h)) = GraphOf(Put(n, x, NoNode), Detached(e, x), m, h)
<1> DEFINE c == Call("delete_entity", x, y)
<1>1. c.do = "delete_entity" /\ c.on = x /\ c.with = y
  BY DEF Call
<1> HIDE DEF c
<1>2. NodeAfter(c, n) = Put(n, x, NoNode)
  BY <1>1 DEF NodeAfter
<1>3. EdgeAfter(c, n, e) = Detached(e, x)
  BY <1>1 DEF EdgeAfter
<1> QED
  BY AfterParts, <1>1, <1>2, <1>3 DEF c

LEMMA AfterRelabel ==
  ASSUME NEW n, NEW e, NEW m, NEW h, NEW x, NEW y
  PROVE  After(Call("relabel_entity_type", x, y), GraphOf(n, e, m, h)) = GraphOf(Relabelled(n, x, y), e, m, h)
<1> DEFINE c == Call("relabel_entity_type", x, y)
<1>1. c.do = "relabel_entity_type" /\ c.on = x /\ c.with = y
  BY DEF Call
<1> HIDE DEF c
<1>2. NodeAfter(c, n) = Relabelled(n, x, y)
  BY <1>1 DEF NodeAfter
<1> QED
  BY AfterParts, <1>1, <1>2 DEF c

LEMMA AfterCreateRelation ==
  ASSUME NEW n, NEW e, NEW m, NEW h, NEW x, NEW y, n[x[1]] # NoNode, n[x[3]] # NoNode
  PROVE  After(Call("create_relation", x, y), GraphOf(n, e, m, h)) = GraphOf(n, IF e[x] = NoEdge THEN Put(e, x, y) ELSE e, m, h)
<1> DEFINE c == Call("create_relation", x, y)
<1>1. c.do = "create_relation" /\ c.on = x /\ c.with = y
  BY DEF Call
<1> HIDE DEF c
<1>2. EdgeAfter(c, n, e) = (IF e[x] = NoEdge THEN Put(e, x, y) ELSE e)
  BY <1>1 DEF EdgeAfter
<1> QED
  BY AfterParts, <1>1, <1>2 DEF c

LEMMA AfterDeleteRelation ==
  ASSUME NEW n, NEW e, NEW m, NEW h, NEW x, NEW y
  PROVE  After(Call("delete_relation", x, y), GraphOf(n, e, m, h)) = GraphOf(n, Put(e, x, NoEdge), m, h)
<1> DEFINE c == Call("delete_relation", x, y)
<1>1. c.do = "delete_relation" /\ c.on = x /\ c.with = y
  BY DEF Call
<1> HIDE DEF c
<1>2. EdgeAfter(c, n, e) = Put(e, x, NoEdge)
  BY <1>1 DEF EdgeAfter
<1> QED
  BY AfterParts, <1>1, <1>2 DEF c

LEMMA AfterAddMention ==
  ASSUME NEW n, NEW e, NEW m, NEW h, NEW x, NEW y
  PROVE  After(Call("add_mention", x, y), GraphOf(n, e, m, h)) = GraphOf(n, e, IF m[x] = NoMention THEN Put(m, x, y) ELSE m, h)
<1> DEFINE c == Call("add_mention", x, y)
<1>1. c.do = "add_mention" /\ c.on = x /\ c.with = y
  BY DEF Call
<1> HIDE DEF c
<1>2. MentionAfter(c, m) = (IF m[x] = NoMention THEN Put(m, x, y) ELSE m)
  BY <1>1 DEF MentionAfter
<1> QED
  BY AfterParts, <1>1, <1>2 DEF c

LEMMA AfterDeleteMention ==
  ASSUME NEW n, NEW e, NEW m, NEW h, NEW x, NEW y
  PROVE  After(Call("delete_mention", x, y), GraphOf(n, e, m, h)) = GraphOf(n, e, Put(m, x, NoMention), h)
<1> DEFINE c == Call("delete_mention", x, y)
<1>1. c.do = "delete_mention" /\ c.on = x /\ c.with = y
  BY DEF Call
<1> HIDE DEF c
<1>2. MentionAfter(c, m) = Put(m, x, NoMention)
  BY <1>1 DEF MentionAfter
<1> QED
  BY AfterParts, <1>1, <1>2 DEF c

LEMMA AfterMentionSpan ==
  ASSUME NEW n, NEW e, NEW m, NEW h, NEW x, NEW y, m[x] # NoMention
  PROVE  After(Call("update_mention_span", x, y), GraphOf(n, e, m, h)) = GraphOf(n, e, Put(m, x, Spanned(m[x], y)), h)
<1> DEFINE c == Call("update_mention_span", x, y)
<1>1. c.do = "update_mention_span" /\ c.on = x /\ c.with = y
  BY DEF Call
<1> HIDE DEF c
<1>2. MentionAfter(c, m) = Put(m, x, Spanned(m[x], y))
  BY <1>1 DEF MentionAfter
<1> QED
  BY AfterParts, <1>1, <1>2 DEF c

LEMMA AfterDeleteMentions ==
  ASSUME NEW n, NEW e, NEW m, NEW h, NEW x, NEW y
  PROVE  After(Call("delete_mentions_for_entity", x, y), GraphOf(n, e, m, h)) = GraphOf(n, e, Without(m, Naming(m, x)), h)
<1> DEFINE c == Call("delete_mentions_for_entity", x, y)
<1>1. c.do = "delete_mentions_for_entity" /\ c.on = x /\ c.with = y
  BY DEF Call
<1> HIDE DEF c
<1>2. MentionAfter(c, m) = Without(m, Naming(m, x))
  BY <1>1 DEF MentionAfter
<1> QED
  BY AfterParts, <1>1, <1>2 DEF c

LEMMA AfterReassign ==
  ASSUME NEW n, NEW e, NEW m, NEW h, NEW x, NEW y
  PROVE  After(Call("reassign_mentions", x, y), GraphOf(n, e, m, h)) = GraphOf(n, e, Given(m, x, y), h)
<1> DEFINE c == Call("reassign_mentions", x, y)
<1>1. c.do = "reassign_mentions" /\ c.on = x /\ c.with = y
  BY DEF Call
<1> HIDE DEF c
<1>2. MentionAfter(c, m) = Given(m, x, y)
  BY <1>1 DEF MentionAfter
<1> QED
  BY AfterParts, <1>1, <1>2 DEF c

LEMMA AfterRepoint ==
  ASSUME NEW n, NEW e, NEW m, NEW h, NEW x, NEW y
  PROVE  After(Call("repoint_mentions", x, y), GraphOf(n, e, m, h)) = GraphOf(n, e, Given(m, Naming(m, x), y), h)
<1> DEFINE c == Call("repoint_mentions", x, y)
<1>1. c.do = "repoint_mentions" /\ c.on = x /\ c.with = y
  BY DEF Call
<1> HIDE DEF c
<1>2. MentionAfter(c, m) = Given(m, Naming(m, x), y)
  BY <1>1 DEF MentionAfter
<1> QED
  BY AfterParts, <1>1, <1>2 DEF c

LEMMA AfterSuppression ==
  ASSUME NEW n, NEW e, NEW m, NEW h, NEW x, NEW y
  PROVE  After(Call("add_suppression", x, y), GraphOf(n, e, m, h)) = GraphOf(n, e, m, h \cup {x})
<1> DEFINE c == Call("add_suppression", x, y)
<1>1. c.do = "add_suppression" /\ c.on = x /\ c.with = y
  BY DEF Call
<1> HIDE DEF c
<1>2. HiddenAfter(c, h) = h \cup {x}
  BY <1>1 DEF HiddenAfter
<1> QED
  BY AfterParts, <1>1, <1>2 DEF c

LEMMA AfterUnsuppression ==
  ASSUME NEW n, NEW e, NEW m, NEW h, NEW x, NEW y
  PROVE  After(Call("delete_suppression", x, y), GraphOf(n, e, m, h)) = GraphOf(n, e, m, h \ {x})
<1> DEFINE c == Call("delete_suppression", x, y)
<1>1. c.do = "delete_suppression" /\ c.on = x /\ c.with = y
  BY DEF Call
<1> HIDE DEF c
<1>2. HiddenAfter(c, h) = h \ {x}
  BY <1>1 DEF HiddenAfter
<1> QED
  BY AfterParts, <1>1, <1>2 DEF c

LEMMA RowsStay ==
  ASSUME NEW do, NEW x, NEW y, NEW g, NEW w, do \notin {"repoint_mentions", "relabel_entity_type"}
  PROVE  RowsAfter(Call(do, x, y), g, w) = w
BY DEF RowsAfter, Call

LEMMA RunsCall ==
  ASSUME NEW do, NEW x, NEW y, NEW g, NEW w, NEW h, do \notin {"repoint_mentions", "relabel_entity_type"},
         h = After(Call(do, x, y), g)
  PROVE  Runs(<<Call(do, x, y)>>, g, w, h, w)
BY RowsStay, RunsOne

LEMMA JoinTwo ==
  ASSUME NEW c, NEW d
  PROVE  <<c>> \o <<d>> = <<c, d>>
<1> DEFINE S == {c, d}
           s == <<c>>
           t == <<d>>
           p == s \o t
           q == <<c, d>>
<1>1. \A x, y \in Seq(S) : Len(x) = Len(y) /\ (\A i \in 1 .. Len(x) : x[i] = y[i]) => x = y
  OBVIOUS
<1>2. s \in Seq(S) /\ t \in Seq(S) /\ q \in Seq(S)
  <2>1. c \in S /\ d \in S
    OBVIOUS
  <2> HIDE DEF S
  <2> QED
    BY <2>1, Tuples
<1>3. Len(s) = 1 /\ Len(t) = 1 /\ s[1] = c /\ t[1] = d /\ Len(q) = 2 /\ q[1] = c /\ q[2] = d
  OBVIOUS
<1> HIDE DEF S, s, t, q
<1>4. p \in Seq(S) /\ Len(p) = 2 /\ p[1] = c /\ p[2] = d
  <2>1. \A x, y \in Seq(S) : x \o y \in Seq(S) /\ Len(x \o y) = Len(x) + Len(y)
    OBVIOUS
  <2>2. \A x, y \in Seq(S) : \A i \in 1 .. Len(x) + Len(y) :
          (x \o y)[i] = IF i <= Len(x) THEN x[i] ELSE y[i - Len(x)]
    OBVIOUS
  <2>3. 1 \in 1 .. Len(s) + Len(t) /\ 2 \in 1 .. Len(s) + Len(t) /\ ~(2 <= Len(s)) /\ 2 - Len(s) = 1
        /\ 1 <= Len(s) /\ Len(s) + Len(t) = 2
    BY <1>3
  <2>4. p \in Seq(S) /\ Len(p) = 2
    BY <1>2, <2>1, <2>3
  <2>5. p[1] = s[1] /\ p[2] = t[1]
    BY <1>2, <2>2, <2>3
  <2> QED
    BY <1>3, <2>4, <2>5
<1> HIDE DEF p
<1>5. \A i \in 1 .. 2 : p[i] = q[i]
  BY <1>3, <1>4
<1>6. p = q
  BY <1>1, <1>2, <1>3, <1>4, <1>5
<1> QED
  BY <1>6 DEF p, q, s, t

LEMMA RunsTwo ==
  ASSUME NEW c, NEW d, NEW g, NEW w, NEW h, NEW v, NEW x, NEW y,
         Runs(<<c>>, g, w, h, v), Runs(<<d>>, h, v, x, y)
  PROVE  Runs(<<c, d>>, g, w, x, y)
<1> DEFINE S == {c, d}
<1>1. <<c>> \in Seq(S) /\ <<d>> \in Seq(S)
  <2>1. c \in S /\ d \in S
    OBVIOUS
  <2> HIDE DEF S
  <2> QED
    BY <2>1, Tuples
<1>2. <<c>> \o <<d>> = <<c, d>>
  BY JoinTwo
<1> HIDE DEF S
<1> QED
  BY <1>1, <1>2, RunsJoin

IsFn(f, S) == f = [x \in S |-> f[x]]

LEMMA FnEq ==
  ASSUME NEW S, NEW f, NEW g, IsFn(f, S), IsFn(g, S), \A x \in S : f[x] = g[x]
  PROVE  f = g
BY DEF IsFn

LEMMA PutIs ==
  ASSUME NEW S, NEW f, IsFn(f, S), NEW x \in S, NEW y
  PROVE  /\ IsFn(Put(f, x, y), S) /\ Put(f, x, y)[x] = y
         /\ \A z \in S : z # x => Put(f, x, y)[z] = f[z]
         /\ Put(f, x, f[x]) = f
         /\ \A z : Put(Put(f, x, y), x, z) = Put(f, x, z)
<1>1. /\ IsFn(Put(f, x, y), S) /\ Put(f, x, y)[x] = y
      /\ \A z \in S : z # x => Put(f, x, y)[z] = f[z]
  BY DEF IsFn, Put
<1>2. Put(f, x, f[x]) = f
  BY DEF IsFn, Put
<1>3. ASSUME NEW z PROVE Put(Put(f, x, y), x, z) = Put(f, x, z)
  BY DEF IsFn, Put
<1> QED
  BY <1>1, <1>2, <1>3

(* The calls that take a row back lead from g to b.                        *)
Inverts(row, g, b) == Runs(InverseOf(row), g, <<>>, b, <<>>)

LEMMA InvertsBy ==
  ASSUME NEW row, NEW do, NEW x, NEW y, NEW g, NEW b, do \notin {"repoint_mentions", "relabel_entity_type"},
         InverseOf(row) = <<Call(do, x, y)>>, b = After(Call(do, x, y), g)
  PROVE  Inverts(row, g, b)
BY RunsCall DEF Inverts

LEMMA RowIs ==
  ASSUME NEW op, NEW x, NEW y, NEW z
  PROVE  LET w == Row(op, x, y, z) IN w.op = op /\ w.target = x /\ w.before = y /\ w.after = z
BY DEF Row

LEMMA NodeInverts ==
  ASSUME NEW n, NEW e, NEW m, NEW h, NEW x, NEW y, NEW z
  PROVE  LET g == GraphOf(n, e, m, h) IN
         /\ \A op \in {"delete_absorbed", "delete_entity"} :
              Inverts(Row(op, x, y, z), g, GraphOf(IF n[x] # NoNode THEN n ELSE Put(n, x, y), e, m, h))
         /\ n[x] # NoNode => \A op \in {"edit_fields", "merge_consolidate"} :
              Inverts(Row(op, x, y, z), g, GraphOf(Put(n, x, Over(y, n[x])), e, m, h))
         /\ Inverts(Row("create_entity_from_tag", x, y, z), g, GraphOf(Put(n, x, NoNode), Detached(e, x), m, h))
<1> DEFINE g == GraphOf(n, e, m, h)
<1>1. ASSUME NEW op \in {"delete_absorbed", "delete_entity"}
      PROVE  Inverts(Row(op, x, y, z), g, GraphOf(IF n[x] # NoNode THEN n ELSE Put(n, x, y), e, m, h))
  <2>1. InverseOf(Row(op, x, y, z)) = <<Call("create_entity", x, y)>>
    BY <1>1, RowIs DEF InverseOf
  <2>2. After(Call("create_entity", x, y), g) = GraphOf(IF n[x] # NoNode THEN n ELSE Put(n, x, y), e, m, h)
    BY AfterCreateEntity
  <2> HIDE DEF g
  <2> QED
    BY <2>1, <2>2, InvertsBy
<1>2. ASSUME NEW op \in {"edit_fields", "merge_consolidate"}, n[x] # NoNode
      PROVE  Inverts(Row(op, x, y, z), g, GraphOf(Put(n, x, Over(y, n[x])), e, m, h))
  <2>1. InverseOf(Row(op, x, y, z)) = <<Call("restore_fields", x, y)>>
    BY <1>2, RowIs DEF InverseOf
  <2>2. After(Call("restore_fields", x, y), g) = GraphOf(Put(n, x, Over(y, n[x])), e, m, h)
    BY <1>2, AfterRestoreFields
  <2> HIDE DEF g
  <2> QED
    BY <2>1, <2>2, InvertsBy
<1>3. Inverts(Row("create_entity_from_tag", x, y, z), g, GraphOf(Put(n, x, NoNode), Detached(e, x), m, h))
  <2>1. InverseOf(Row("create_entity_from_tag", x, y, z)) = <<Call("delete_entity", x, NoImage)>>
    BY RowIs DEF InverseOf
  <2>2. After(Call("delete_entity", x, NoImage), g) = GraphOf(Put(n, x, NoNode), Detached(e, x), m, h)
    BY AfterDeleteEntity
  <2> HIDE DEF g
  <2> QED
    BY <2>1, <2>2, InvertsBy
<1> QED
  BY <1>1, <1>2, <1>3

LEMMA EdgeInverts ==
  ASSUME NEW n, NEW e, NEW m, NEW h, NEW x, NEW y, NEW z
  PROVE  LET g == GraphOf(n, e, m, h) IN
         /\ n[x[1]] # NoNode /\ n[x[3]] # NoNode =>
              /\ Put(e, z, NoEdge)[x] = NoEdge =>
                   Inverts(Row("repoint_relation", x, y, z), g, GraphOf(n, Put(Put(e, z, NoEdge), x, y), m, h))
              /\ e[x] = NoEdge => \A op \in {"fold_relation", "discard_self_loop_relation", "remove_relation"} :
                   Inverts(Row(op, x, y, z), g, GraphOf(n, Put(e, x, y), m, h))
         /\ Inverts(Row("add_relation", x, y, TRUE), g, g)
         /\ Inverts(Row("add_relation", x, y, FALSE), g, GraphOf(n, Put(e, x, NoEdge), m, h))
<1> DEFINE g == GraphOf(n, e, m, h)
<1>1. ASSUME n[x[1]] # NoNode, n[x[3]] # NoNode, Put(e, z, NoEdge)[x] = NoEdge
      PROVE  Inverts(Row("repoint_relation", x, y, z), g, GraphOf(n, Put(Put(e, z, NoEdge), x, y), m, h))
  <2> DEFINE e1 == Put(e, z, NoEdge)
  <2>1. InverseOf(Row("repoint_relation", x, y, z)) =
          <<Call("delete_relation", z, NoImage), Call("create_relation", x, y)>>
    BY RowIs DEF InverseOf
  <2>2. Runs(<<Call("delete_relation", z, NoImage)>>, g, <<>>, GraphOf(n, e1, m, h), <<>>)
    <3>1. After(Call("delete_relation", z, NoImage), g) = GraphOf(n, e1, m, h)
      BY AfterDeleteRelation
    <3> HIDE DEF g, e1
    <3> QED
      BY <3>1, RunsCall
  <2>3. e1[x] = NoEdge
    BY <1>1
  <2> HIDE DEF e1
  <2>4. Runs(<<Call("create_relation", x, y)>>, GraphOf(n, e1, m, h), <<>>, GraphOf(n, Put(e1, x, y), m, h), <<>>)
    <3>1. After(Call("create_relation", x, y), GraphOf(n, e1, m, h)) = GraphOf(n, Put(e1, x, y), m, h)
      BY <1>1, <2>3, AfterCreateRelation
    <3> QED
      BY <3>1, RunsCall
  <2> QED
    BY <2>1, <2>2, <2>4, RunsTwo DEF Inverts, e1
<1>2. ASSUME n[x[1]] # NoNode, n[x[3]] # NoNode, e[x] = NoEdge,
             NEW op \in {"fold_relation", "discard_self_loop_relation", "remove_relation"}
      PROVE  Inverts(Row(op, x, y, z), g, GraphOf(n, Put(e, x, y), m, h))
  <2>1. InverseOf(Row(op, x, y, z)) = <<Call("create_relation", x, y)>>
    BY <1>2, RowIs DEF InverseOf
  <2> QED
    <3>1. After(Call("create_relation", x, y), g) = GraphOf(n, Put(e, x, y), m, h)
      BY <1>2, AfterCreateRelation
    <3> HIDE DEF g
    <3> QED
      BY <2>1, <3>1, InvertsBy
<1>3. Inverts(Row("add_relation", x, y, TRUE), g, g)
  <2>1. InverseOf(Row("add_relation", x, y, TRUE)) = <<>>
    BY DEF Row, InverseOf
  <2>2. Runs(<<>>, g, <<>>, g, <<>>)
    BY RunsNone
  <2> HIDE DEF g
  <2> QED
    BY <2>1, <2>2 DEF Inverts
<1>4. Inverts(Row("add_relation", x, y, FALSE), g, GraphOf(n, Put(e, x, NoEdge), m, h))
  <2> DEFINE row == Row("add_relation", x, y, FALSE)
  <2>1. InverseOf(row) = <<Call("delete_relation", x, NoImage)>>
    BY DEF Row, InverseOf
  <2>2. After(Call("delete_relation", x, NoImage), g) = GraphOf(n, Put(e, x, NoEdge), m, h)
    BY AfterDeleteRelation
  <2> HIDE DEF g, row
  <2>3. Inverts(row, g, GraphOf(n, Put(e, x, NoEdge), m, h))
    BY <2>1, <2>2, InvertsBy
  <2> QED
    BY <2>3 DEF row
<1> QED
  BY <1>1, <1>2, <1>3, <1>4

LEMMA TextInverts ==
  ASSUME NEW n, NEW e, NEW m, NEW h, NEW x, NEW y, NEW z
  PROVE  LET g == GraphOf(n, e, m, h) IN
         /\ Inverts(Row("repoint_mentions", x, y, z), g, GraphOf(n, e, Given(m, y, x), h))
         /\ Inverts(Row("add_mention", x, y, z), g, GraphOf(n, e, Put(m, x, NoMention), h))
         /\ Inverts(Row("suppress_span", x, y, z), g, GraphOf(n, e, m, h \ {x}))
         /\ m[x] # NoMention =>
              Inverts(Row("edit_mention_span", x, y, z), g, GraphOf(n, e, Put(m, x, Spanned(m[x], y)), h))
<1>1. /\ InverseOf(Row("repoint_mentions", x, y, z)) = <<Call("reassign_mentions", y, x)>>
      /\ InverseOf(Row("add_mention", x, y, z)) = <<Call("delete_mention", x, NoImage)>>
      /\ InverseOf(Row("suppress_span", x, y, z)) = <<Call("delete_suppression", x, NoImage)>>
      /\ InverseOf(Row("edit_mention_span", x, y, z)) = <<Call("update_mention_span", x, y)>>
  BY RowIs DEF InverseOf
<1> DEFINE g == GraphOf(n, e, m, h)
<1>2. /\ After(Call("reassign_mentions", y, x), g) = GraphOf(n, e, Given(m, y, x), h)
      /\ After(Call("delete_mention", x, NoImage), g) = GraphOf(n, e, Put(m, x, NoMention), h)
      /\ After(Call("delete_suppression", x, NoImage), g) = GraphOf(n, e, m, h \ {x})
      /\ m[x] # NoMention =>
           After(Call("update_mention_span", x, y), g) = GraphOf(n, e, Put(m, x, Spanned(m[x], y)), h)
  BY AfterReassign, AfterDeleteMention, AfterUnsuppression, AfterMentionSpan
<1> HIDE DEF g
<1>3. Inverts(Row("repoint_mentions", x, y, z), g, GraphOf(n, e, Given(m, y, x), h))
  BY <1>1, <1>2, InvertsBy
<1>4. Inverts(Row("add_mention", x, y, z), g, GraphOf(n, e, Put(m, x, NoMention), h))
  BY <1>1, <1>2, InvertsBy
<1>5. Inverts(Row("suppress_span", x, y, z), g, GraphOf(n, e, m, h \ {x}))
  BY <1>1, <1>2, InvertsBy
<1>6. m[x] # NoMention =>
        Inverts(Row("edit_mention_span", x, y, z), g, GraphOf(n, e, Put(m, x, Spanned(m[x], y)), h))
  BY <1>1, <1>2, InvertsBy
<1> QED
  BY <1>3, <1>4, <1>5, <1>6, SMTT(30) DEF g

-----------------------------------------------------------------------------
(* What an operation can be taken back from *)

HoldsIn(row, n) ==
  IF row.op = "delete_entity" THEN n[row.target] = NoNode
  ELSE n[row.target] # NoNode /\ \A f \in DOMAIN row.after : n[row.target][f] = row.after[f]

(* From graph h the inverses of the rows v, the last row first, lead to    *)
(* graph b; and in h nothing has drifted.                                  *)
Restores(v, b, h) ==
  /\ \E K : /\ K[0] = b /\ K[Len(v)] = h
            /\ \A i \in 1 .. Len(v) : Inverts(v[i], K[i], K[i - 1])
  /\ \A i \in 1 .. Len(v) : ChecksDrift(v[i]) => HoldsIn(v[i], h.node)

Fresh(v, b) == \A i \in 1 .. Len(v) : MadeNew(b, v[i])

(* What is to be done from graph g with rows w will be what rows v, in the *)
(* end, say of graph b.                                                    *)
Leads(calls, g, w, b) ==
  /\ w = <<>> => Len(calls) = 1 /\ calls[1].do = "relabel_entity_type"
  /\ \E h, v : /\ Runs(calls, g, w, h, v)
               /\ IF v = <<>> THEN h = b ELSE Fresh(v, b) => Restores(v, b, h)

Planned(calls, rows) == Leads(calls, Graph, rows, Graph)

LEMMA PlanOne ==
  ASSUME NEW calls, NEW row, NEW h, Runs(calls, Graph, <<row>>, h, <<row>>),
         MadeNew(Graph, row) => Inverts(row, h, Graph),
         ChecksDrift(row) => HoldsIn(row, h.node)
  PROVE  Planned(calls, <<row>>)
<1> DEFINE v == <<row>>
           K == [i \in {0, 1} |-> IF i = 0 THEN Graph ELSE h]
<1>1. v # <<>> /\ Len(v) = 1 /\ v[1] = row
  OBVIOUS
<1>2. K[0] = Graph /\ K[1] = h
  OBVIOUS
<1>3. \A i \in 1 .. 1 : i = 1 /\ i - 1 = 0
  OBVIOUS
<1> HIDE DEF v, K
<1>4. Fresh(v, Graph) => MadeNew(Graph, row)
  BY <1>1 DEF Fresh
<1>5. ASSUME Fresh(v, Graph) PROVE Restores(v, Graph, h)
  <2>1. \A i \in 1 .. Len(v) : Inverts(v[i], K[i], K[i - 1])
    BY <1>1, <1>2, <1>3, <1>4, <1>5
  <2>2. \A i \in 1 .. Len(v) : ChecksDrift(v[i]) => HoldsIn(v[i], h.node)
    BY <1>1, <1>3
  <2> QED
    BY <1>1, <1>2, <2>1, <2>2 DEF Restores
<1>6. Runs(calls, Graph, v, h, v)
  BY DEF v
<1> QED
  BY <1>1, <1>5, <1>6 DEF Planned, Leads, v

LEMMA PlanTwo ==
  ASSUME NEW calls, NEW row1, NEW row2, NEW k, NEW h,
         Runs(calls, Graph, <<row1, row2>>, h, <<row1, row2>>),
         MadeNew(Graph, row1) /\ MadeNew(Graph, row2) => Inverts(row2, h, k) /\ Inverts(row1, k, Graph),
         MadeNew(Graph, row1) /\ MadeNew(Graph, row2) /\ ChecksDrift(row1) => HoldsIn(row1, h.node),
         ~ChecksDrift(row2)
  PROVE  Planned(calls, <<row1, row2>>)
<1> DEFINE v == <<row1, row2>>
           K == [i \in {0, 1, 2} |-> IF i = 0 THEN Graph ELSE IF i = 1 THEN k ELSE h]
<1>1. v # <<>> /\ Len(v) = 2 /\ v[1] = row1 /\ v[2] = row2
  OBVIOUS
<1>2. K[0] = Graph /\ K[1] = k /\ K[2] = h
  OBVIOUS
<1>3. \A i \in 1 .. 2 : (i = 1 /\ i - 1 = 0) \/ (i = 2 /\ i - 1 = 1)
  OBVIOUS
<1> HIDE DEF v, K
<1>4. Fresh(v, Graph) => MadeNew(Graph, row1) /\ MadeNew(Graph, row2)
  BY <1>1 DEF Fresh
<1>5. ASSUME Fresh(v, Graph) PROVE Restores(v, Graph, h)
  <2>1. \A i \in 1 .. Len(v) : Inverts(v[i], K[i], K[i - 1])
    BY <1>1, <1>2, <1>3, <1>4, <1>5
  <2>2. \A i \in 1 .. Len(v) : ChecksDrift(v[i]) => HoldsIn(v[i], h.node)
    BY <1>1, <1>3, <1>4, <1>5
  <2> QED
    BY <1>1, <1>2, <2>1, <2>2 DEF Restores
<1>6. Runs(calls, Graph, v, h, v)
  BY DEF v
<1> QED
  BY <1>1, <1>5, <1>6 DEF Planned, Leads, v

LEMMA GraphIs ==
  ASSUME GraphTyped
  PROVE  /\ Graph = GraphOf(node, edge, mention, hidden)
         /\ IsFn(node, Entities) /\ IsFn(edge, Triples) /\ IsFn(mention, MentionIds)
BY DEF GraphTyped, Graph, GraphOf, IsFn

LEMMA NodeOf == ASSUME NEW n, NEW e, NEW m, NEW h PROVE GraphOf(n, e, m, h).node = n
BY DEF GraphOf

(* Putting back what was over a node.                                      *)
LEMMA OverBack ==
  ASSUME NEW o \in Node, NEW p \in Fields,
         NEW C, C = {f \in DOMAIN p : p[f] # o[f]}
  PROVE  /\ Over([f \in C |-> o[f]], Over(p, o)) = o
         /\ \A f \in C : Over(p, o)[f] = p[f]
<1>1. o = [f \in FieldNames |-> o[f]]
  BY NodeIs
<1>2. DOMAIN p \subseteq FieldNames
  BY FieldsOfPatch
<1>3. Over(p, o) = [f \in FieldNames |-> IF f \in DOMAIN p THEN p[f] ELSE o[f]]
  BY <1>1 DEF Over
<1> DEFINE n == Over(p, o)
           b == [f \in C |-> o[f]]
<1>4. DOMAIN n = FieldNames /\ \A f \in FieldNames : n[f] = IF f \in DOMAIN p THEN p[f] ELSE o[f]
  BY <1>3
<1>5. DOMAIN b = C /\ \A f \in C : b[f] = o[f]
  OBVIOUS
<1> HIDE DEF n, b
<1>6. Over(b, n) = [f \in FieldNames |-> IF f \in C THEN b[f] ELSE n[f]]
  BY <1>4, <1>5 DEF Over
<1>7. \A f \in FieldNames : (IF f \in C THEN b[f] ELSE n[f]) = o[f]
  BY <1>4, <1>5
<1>8. Over(b, n) = o
  BY <1>1, <1>6, <1>7
<1>9. \A f \in C : n[f] = p[f]
  BY <1>2, <1>4
<1> QED
  BY <1>8, <1>9 DEF n, b

LEMMA EditPlanned ==
  ASSUME GraphTyped, NEW e \in Entities, NEW p \in Fields, Exists(e),
         NEW C, C = {f \in DOMAIN p : p[f] # node[e][f]}
  PROVE  Planned(<<Call("update_entity", e, Over(p, node[e]))>>,
                 <<Row("edit_fields", e, [f \in C |-> node[e][f]], [f \in C |-> p[f]])>>)
<1> DEFINE o == node[e]
           x == Over(p, o)
           b == [f \in C |-> o[f]]
           a == [f \in C |-> p[f]]
           n == Put(node, e, x)
           h == GraphOf(n, edge, mention, hidden)
           row == Row("edit_fields", e, b, a)
<1>1. o \in Node /\ x \in Node /\ x # NoNode /\ node[e] # NoNode
  <2>1. o \in Node
    BY DEF GraphTyped, Exists
  <2>2. x \in Node
    BY <2>1 DEF Fields
  <2> QED
    BY <2>1, <2>2, ConstantsAssumption DEF ConstantsAssumption
<1>2. Over(b, x) = o /\ \A f \in C : x[f] = p[f]
  BY <1>1, OverBack
<1>3. DOMAIN a = C /\ \A f \in C : a[f] = p[f]
  OBVIOUS
<1> HIDE DEF x, b, a
<1>4. n[e] = x /\ Put(n, e, o) = node /\ IsFn(n, Entities)
  BY GraphIs, PutIs
<1> HIDE DEF n
<1>5. Runs(<<Call("update_entity", e, x)>>, Graph, <<row>>, h, <<row>>)
  <2>1. After(Call("update_entity", e, x), Graph) = h
    BY <1>1, GraphIs, AfterUpdateEntity DEF n
  <2> QED
    BY <2>1, RunsCall
<1>6. Inverts(row, h, Graph)
  <2>1. Inverts(row, GraphOf(n, edge, mention, hidden), GraphOf(Put(n, e, Over(b, n[e])), edge, mention, hidden))
    BY <1>1, <1>4, NodeInverts
  <2> QED
    BY <1>2, <1>4, <2>1, GraphIs
<1>7. HoldsIn(row, h.node)
  BY <1>1, <1>2, <1>3, <1>4, NodeOf, RowIs DEF HoldsIn
<1> HIDE DEF h, row
<1> QED
  BY <1>5, <1>6, <1>7, PlanOne DEF row, b, a, x

LEMMA AddPlanned ==
  ASSUME GraphTyped, NEW t \in Triples, Exists(t[1]), Exists(t[3]), NEW x \in Nat
  PROVE  Planned(<<Call("create_relation", t, x)>>, <<Row("add_relation", t, NoImage, HasEdge(t))>>)
<1> DEFINE new == IF edge[t] = NoEdge THEN Put(edge, t, x) ELSE edge
           h == GraphOf(node, new, mention, hidden)
           row == Row("add_relation", t, NoImage, HasEdge(t))
<1>1. Runs(<<Call("create_relation", t, x)>>, Graph, <<row>>, h, <<row>>)
  <2>1. After(Call("create_relation", t, x), Graph) = h
    BY GraphIs, AfterCreateRelation DEF Exists
  <2> QED
    BY <2>1, RunsCall
<1>2. Inverts(row, h, Graph)
  <2>1. CASE edge[t] = NoEdge
    <3>1. HasEdge(t) = FALSE
      BY <2>1 DEF HasEdge
    <3>2. Put(new, t, NoEdge) = edge
      <4>1. new = Put(edge, t, x)
        BY <2>1
      <4>2. Put(Put(edge, t, x), t, NoEdge) = Put(edge, t, NoEdge) /\ Put(edge, t, edge[t]) = edge
        BY GraphIs, PutIs
      <4> QED
        BY <2>1, <4>1, <4>2
    <3> HIDE DEF new
    <3>3. Inverts(Row("add_relation", t, NoImage, FALSE), h, GraphOf(node, Put(new, t, NoEdge), mention, hidden))
      BY EdgeInverts
    <3> HIDE DEF h
    <3> QED
      BY <3>1, <3>2, <3>3, GraphIs
  <2>2. CASE edge[t] # NoEdge
    <3>1. HasEdge(t) = TRUE /\ h = Graph
      BY <2>2, GraphIs DEF HasEdge
    <3>2. Inverts(Row("add_relation", t, NoImage, TRUE), GraphOf(node, edge, mention, hidden),
                  GraphOf(node, edge, mention, hidden))
      BY EdgeInverts
    <3> HIDE DEF h
    <3> QED
      BY <3>1, <3>2, GraphIs
  <2> QED
    BY <2>1, <2>2
<1>3. ~ChecksDrift(row)
  BY RowIs DEF ChecksDrift
<1> HIDE DEF h, row
<1> QED
  BY <1>1, <1>2, <1>3, PlanOne DEF row

LEMMA RemovePlanned ==
  ASSUME GraphTyped, EndsExist, NEW t \in Triples, HasEdge(t)
  PROVE  Planned(<<Call("delete_relation", t, NoImage)>>, <<Row("remove_relation", t, edge[t], NoImage)>>)
<1> DEFINE new == Put(edge, t, NoEdge)
           h == GraphOf(node, new, mention, hidden)
           row == Row("remove_relation", t, edge[t], NoImage)
<1>1. Runs(<<Call("delete_relation", t, NoImage)>>, Graph, <<row>>, h, <<row>>)
  <2>1. After(Call("delete_relation", t, NoImage), Graph) = h
    BY GraphIs, AfterDeleteRelation
  <2> QED
    BY <2>1, RunsCall
<1>2. new[t] = NoEdge /\ Put(new, t, edge[t]) = edge
  BY GraphIs, PutIs
<1>3. node[t[1]] # NoNode /\ node[t[3]] # NoNode
  BY DEF EndsExist, Exists
<1>4. Inverts(row, h, Graph)
  <2> HIDE DEF new
  <2>1. Inverts(row, GraphOf(node, new, mention, hidden), GraphOf(node, Put(new, t, edge[t]), mention, hidden))
    BY <1>2, <1>3, EdgeInverts
  <2> QED
    BY <1>2, <2>1, GraphIs
<1>5. ~ChecksDrift(row)
  BY RowIs DEF ChecksDrift
<1> HIDE DEF h, row
<1> QED
  BY <1>1, <1>4, <1>5, PlanOne DEF row

LEMMA TagPlanned ==
  ASSUME GraphTyped, NEW e \in Entities, NEW s \in Spans
  PROVE  Planned(<<AddManual(e, s)>>, <<Row("add_mention", <<e, s>>, NoImage, NoImage)>>)
<1> DEFINE id == <<e, s>>
           x == [entity |-> e, span |-> s]
           new == IF mention[id] = NoMention THEN Put(mention, id, x) ELSE mention
           h == GraphOf(node, edge, new, hidden)
           row == Row("add_mention", id, NoImage, NoImage)
<1>0. id \in MentionIds /\ AddManual(e, s) = Call("add_mention", id, x)
  BY DEF MentionIds, AddManual
<1> HIDE DEF id, x
<1>1. Runs(<<Call("add_mention", id, x)>>, Graph, <<row>>, h, <<row>>)
  <2>1. After(Call("add_mention", id, x), Graph) = h
    BY GraphIs, AfterAddMention
  <2> QED
    BY <2>1, RunsCall
<1>2. ASSUME MadeNew(Graph, row) PROVE Inverts(row, h, Graph)
  <2>1. mention[id] = NoMention
    BY <1>2, RowIs DEF MadeNew, Graph
  <2>2. Put(new, id, NoMention) = mention
    <3>1. new = Put(mention, id, x)
      BY <2>1
    <3>2. Put(Put(mention, id, x), id, NoMention) = Put(mention, id, NoMention)
          /\ Put(mention, id, mention[id]) = mention
      BY <1>0, GraphIs, PutIs
    <3> QED
      BY <2>1, <3>1, <3>2
  <2> HIDE DEF new
  <2>3. Inverts(row, h, GraphOf(node, edge, Put(new, id, NoMention), hidden))
    BY TextInverts
  <2> QED
    BY <2>2, <2>3, GraphIs
<1>3. ~ChecksDrift(row)
  BY RowIs DEF ChecksDrift
<1> HIDE DEF h, row
<1> QED
  BY <1>0, <1>1, <1>2, <1>3, PlanOne DEF row, id

LEMMA SuppressPlanned ==
  ASSUME GraphTyped, NEW x
  PROVE  Planned(<<Call("add_suppression", x, NoImage)>>, <<Row("suppress_span", x, NoImage, NoImage)>>)
<1> DEFINE new == hidden \cup {x}
           h == GraphOf(node, edge, mention, new)
           row == Row("suppress_span", x, NoImage, NoImage)
<1>1. Runs(<<Call("add_suppression", x, NoImage)>>, Graph, <<row>>, h, <<row>>)
  <2>1. After(Call("add_suppression", x, NoImage), Graph) = h
    BY GraphIs, AfterSuppression
  <2> QED
    BY <2>1, RunsCall
<1>2. ASSUME MadeNew(Graph, row) PROVE Inverts(row, h, Graph)
  <2>1. x \notin hidden
    BY <1>2, RowIs DEF MadeNew, Graph
  <2>2. new \ {x} = hidden
    BY <2>1
  <2> HIDE DEF new
  <2>3. Inverts(row, h, GraphOf(node, edge, mention, new \ {x}))
    BY TextInverts
  <2> QED
    BY <2>2, <2>3, GraphIs
<1>3. ~ChecksDrift(row)
  BY RowIs DEF ChecksDrift
<1> HIDE DEF h, row
<1> QED
  BY <1>1, <1>2, <1>3, PlanOne DEF row

LEMMA MovePlanned ==
  ASSUME GraphTyped, NEW id \in MentionIds, NEW s \in Spans, mention[id] # NoMention
  PROVE  Planned(<<Call("update_mention_span", id, s)>>,
                 <<Row("edit_mention_span", id, mention[id].span, s)>>)
<1> DEFINE x == Spanned(mention[id], s)
           new == Put(mention, id, x)
           h == GraphOf(node, edge, new, hidden)
           row == Row("edit_mention_span", id, mention[id].span, s)
<1>1. Runs(<<Call("update_mention_span", id, s)>>, Graph, <<row>>, h, <<row>>)
  <2>1. After(Call("update_mention_span", id, s), Graph) = h
    BY GraphIs, AfterMentionSpan
  <2> QED
    BY <2>1, RunsCall
<1>2. mention[id] \in Mention /\ x \in Mention /\ x # NoMention
  <2>1. mention[id] \in Mention
    BY DEF GraphTyped
  <2>2. x \in Mention
    BY <2>1 DEF Mention, Spanned
  <2> QED
    BY <2>1, <2>2, ConstantsAssumption DEF ConstantsAssumption
<1>3. Spanned(x, mention[id].span) = mention[id]
  BY <1>2 DEF Mention, Spanned
<1>4. new[id] = x /\ Put(new, id, mention[id]) = mention
  BY GraphIs, PutIs
<1>5. Inverts(row, h, Graph)
  <2> HIDE DEF new, x
  <2>1. Inverts(row, GraphOf(node, edge, new, hidden),
                GraphOf(node, edge, Put(new, id, Spanned(new[id], mention[id].span)), hidden))
    BY <1>2, <1>4, TextInverts
  <2> QED
    BY <1>3, <1>4, <2>1, GraphIs
<1>6. ~ChecksDrift(row)
  BY RowIs DEF ChecksDrift
<1> HIDE DEF h, row
<1> QED
  BY <1>1, <1>5, <1>6, PlanOne DEF row

(* A manual mention is made, and taken back if it was new.                 *)
WithMention(m, e, s) ==
  IF m[<<e, s>>] = NoMention THEN Put(m, <<e, s>>, [entity |-> e, span |-> s]) ELSE m

LEMMA MentionMade ==
  ASSUME NEW n, NEW e, NEW m, NEW h, NEW a, NEW s, NEW w
  PROVE  Runs(<<AddManual(a, s)>>, GraphOf(n, e, m, h), w, GraphOf(n, e, WithMention(m, a, s), h), w)
<1>1. After(AddManual(a, s), GraphOf(n, e, m, h)) = GraphOf(n, e, WithMention(m, a, s), h)
  BY AfterAddMention DEF AddManual, WithMention
<1> QED
  BY <1>1, RunsCall DEF AddManual

LEMMA MentionUnmade ==
  ASSUME NEW n, NEW e, NEW m, NEW h, IsFn(m, MentionIds), NEW a \in Entities, NEW s \in Spans,
         m[<<a, s>>] = NoMention
  PROVE  Inverts(Row("add_mention", <<a, s>>, NoImage, NoImage), GraphOf(n, e, WithMention(m, a, s), h),
                 GraphOf(n, e, m, h))
<1> DEFINE id == <<a, s>>
           x == [entity |-> a, span |-> s]
           new == WithMention(m, a, s)
<1>0. id \in MentionIds
  BY DEF MentionIds
<1>1. new = Put(m, id, x)
  BY DEF WithMention
<1> HIDE DEF id, x
<1>2. Put(Put(m, id, x), id, NoMention) = Put(m, id, NoMention) /\ Put(m, id, m[id]) = m
  BY <1>0, PutIs
<1>3. m[id] = NoMention
  BY DEF id
<1>4. Put(new, id, NoMention) = m
  BY <1>1, <1>2, <1>3
<1> HIDE DEF new
<1>5. Inverts(Row("add_mention", id, NoImage, NoImage), GraphOf(n, e, new, h),
              GraphOf(n, e, Put(new, id, NoMention), h))
  BY TextInverts
<1> QED
  BY <1>4, <1>5 DEF id, new

(* The same of a suppression.                                              *)
LEMMA HiddenMade ==
  ASSUME NEW n, NEW e, NEW m, NEW h, NEW x, NEW w
  PROVE  Runs(<<Call("add_suppression", x, NoImage)>>, GraphOf(n, e, m, h), w, GraphOf(n, e, m, h \cup {x}), w)
BY AfterSuppression, RunsCall

LEMMA HiddenUnmade ==
  ASSUME NEW n, NEW e, NEW m, NEW h, NEW x, x \notin h
  PROVE  Inverts(Row("suppress_span", x, NoImage, NoImage), GraphOf(n, e, m, h \cup {x}), GraphOf(n, e, m, h))
<1> DEFINE new == h \cup {x}
<1>1. new \ {x} = h
  OBVIOUS
<1> HIDE DEF new
<1>2. Inverts(Row("suppress_span", x, NoImage, NoImage), GraphOf(n, e, m, new), GraphOf(n, e, m, new \ {x}))
  BY TextInverts
<1> QED
  BY <1>1, <1>2 DEF new

LEMMA NewIsFresh ==
  ASSUME NEW a, NEW s, NEW x
  PROVE  /\ MadeNew(Graph, Row("add_mention", <<a, s>>, NoImage, NoImage)) => mention[<<a, s>>] = NoMention
         /\ MadeNew(Graph, Row("suppress_span", x, NoImage, NoImage)) => x \notin hidden
         /\ ~ChecksDrift(Row("add_mention", <<a, s>>, NoImage, NoImage))
         /\ ~ChecksDrift(Row("suppress_span", x, NoImage, NoImage))
BY RowIs DEF MadeNew, Graph, ChecksDrift

LEMMA RetagPlanned ==
  ASSUME GraphTyped, NEW s \in Spans, NEW from \in Entities, NEW to \in Entities
  PROVE  Planned(<<Call("add_suppression", <<s, from>>, NoImage), AddManual(to, s)>>,
                 <<Row("suppress_span", <<s, from>>, NoImage, NoImage),
                   Row("add_mention", <<to, s>>, NoImage, NoImage)>>)
<1> DEFINE c1 == Call("add_suppression", <<s, from>>, NoImage)
           c2 == AddManual(to, s)
           row1 == Row("suppress_span", <<s, from>>, NoImage, NoImage)
           row2 == Row("add_mention", <<to, s>>, NoImage, NoImage)
           w == <<row1, row2>>
           k == GraphOf(node, edge, mention, hidden \cup {<<s, from>>})
           h == GraphOf(node, edge, WithMention(mention, to, s), hidden \cup {<<s, from>>})
<1>1. Graph = GraphOf(node, edge, mention, hidden) /\ IsFn(mention, MentionIds)
  BY GraphIs
<1>2. Runs(<<c1>>, Graph, w, k, w) /\ Runs(<<c2>>, k, w, h, w)
  <2> HIDE DEF w
  <2> QED
    BY <1>1, HiddenMade, MentionMade
<1>3. MadeNew(Graph, row2) => Inverts(row2, h, k)
  BY <1>1, NewIsFresh, MentionUnmade
<1>4. MadeNew(Graph, row1) => Inverts(row1, k, Graph)
  BY <1>1, NewIsFresh, HiddenUnmade
<1>5. ~ChecksDrift(row1) /\ ~ChecksDrift(row2)
  BY NewIsFresh
<1> HIDE DEF c1, c2, row1, row2, k, h
<1>6. Runs(<<c1, c2>>, Graph, w, h, w)
  BY <1>2, RunsTwo
<1>7. Planned(<<c1, c2>>, <<row1, row2>>)
  BY <1>3, <1>4, <1>5, <1>6, PlanTwo
<1> QED
  BY <1>7 DEF c1, c2, row1, row2

LEMMA MaterializePlanned ==
  ASSUME GraphTyped, NEW e \in Entities, NEW old \in Spans, NEW new \in Spans
  PROVE  Planned(<<AddManual(e, new), Call("add_suppression", <<old, e>>, NoImage)>>,
                 <<Row("add_mention", <<e, new>>, NoImage, NoImage),
                   Row("suppress_span", <<old, e>>, NoImage, NoImage)>>)
<1> DEFINE c1 == AddManual(e, new)
           c2 == Call("add_suppression", <<old, e>>, NoImage)
           row1 == Row("add_mention", <<e, new>>, NoImage, NoImage)
           row2 == Row("suppress_span", <<old, e>>, NoImage, NoImage)
           w == <<row1, row2>>
           k == GraphOf(node, edge, WithMention(mention, e, new), hidden)
           h == GraphOf(node, edge, WithMention(mention, e, new), hidden \cup {<<old, e>>})
<1>1. Graph = GraphOf(node, edge, mention, hidden) /\ IsFn(mention, MentionIds)
  BY GraphIs
<1>2. Runs(<<c1>>, Graph, w, k, w) /\ Runs(<<c2>>, k, w, h, w)
  <2> HIDE DEF w
  <2> QED
    BY <1>1, HiddenMade, MentionMade
<1>3. MadeNew(Graph, row2) => Inverts(row2, h, k)
  BY <1>1, NewIsFresh, HiddenUnmade
<1>4. MadeNew(Graph, row1) => Inverts(row1, k, Graph)
  BY <1>1, NewIsFresh, MentionUnmade
<1>5. ~ChecksDrift(row1) /\ ~ChecksDrift(row2)
  BY NewIsFresh
<1> HIDE DEF c1, c2, row1, row2, k, h
<1>6. Runs(<<c1, c2>>, Graph, w, h, w)
  BY <1>2, RunsTwo
<1>7. Planned(<<c1, c2>>, <<row1, row2>>)
  BY <1>3, <1>4, <1>5, <1>6, PlanTwo
<1> QED
  BY <1>7 DEF c1, c2, row1, row2

(* Nothing hangs on an entity that is not there.                           *)
LEMMA NothingToDetach ==
  ASSUME GraphTyped, EndsExist, NEW e, node[e] = NoNode
  PROVE  Detached(edge, e) = edge
<1>1. \A t \in Triples : (IF e \in {t[1], t[3]} THEN NoEdge ELSE edge[t]) = edge[t]
  BY DEF EndsExist, HasEdge, Exists
<1>2. edge = [t \in Triples |-> edge[t]]
  BY DEF GraphTyped
<1> QED
  BY <1>1, <1>2 DEF Detached

LEMMA TagNewPlanned ==
  ASSUME GraphTyped, EndsExist, NEW e \in Entities, NEW s \in Spans, NEW x \in Node
  PROVE  Planned(<<Call("create_entity", e, x), AddManual(e, s)>>,
                 <<Row("create_entity_from_tag", e, NoImage, x),
                   Row("add_mention", <<e, s>>, NoImage, NoImage)>>)
<1> DEFINE c1 == Call("create_entity", e, x)
           c2 == AddManual(e, s)
           row1 == Row("create_entity_from_tag", e, NoImage, x)
           row2 == Row("add_mention", <<e, s>>, NoImage, NoImage)
           w == <<row1, row2>>
           n == IF node[e] # NoNode THEN node ELSE Put(node, e, x)
           k == GraphOf(n, edge, mention, hidden)
           h == GraphOf(n, edge, WithMention(mention, e, s), hidden)
<1>1. Graph = GraphOf(node, edge, mention, hidden) /\ IsFn(mention, MentionIds) /\ IsFn(node, Entities)
  BY GraphIs
<1>2. Runs(<<c1>>, Graph, w, k, w) /\ Runs(<<c2>>, k, w, h, w)
  <2>1. After(c1, Graph) = k
    BY <1>1, AfterCreateEntity
  <2> HIDE DEF w, n
  <2>2. Runs(<<c2>>, k, w, h, w)
    BY MentionMade
  <2> HIDE DEF k
  <2>3. Runs(<<c1>>, Graph, w, k, w)
    BY <2>1, RunsCall
  <2> QED
    BY <2>2, <2>3
<1>3. MadeNew(Graph, row2) => Inverts(row2, h, k)
  <2> HIDE DEF n
  <2> QED
    BY <1>1, NewIsFresh, MentionUnmade
<1>4. MadeNew(Graph, row1) => node[e] = NoNode
  BY RowIs DEF MadeNew, Graph
<1>5. ASSUME node[e] = NoNode PROVE n = Put(node, e, x) /\ n[e] = x /\ Put(n, e, NoNode) = node
  <2>1. n = Put(node, e, x)
    BY <1>5
  <2>2. Put(node, e, x)[e] = x /\ Put(Put(node, e, x), e, NoNode) = Put(node, e, NoNode)
        /\ Put(node, e, node[e]) = node
    BY <1>1, PutIs
  <2> QED
    BY <1>5, <2>1, <2>2
<1>6. MadeNew(Graph, row1) => Inverts(row1, k, Graph)
  <2> HIDE DEF n
  <2>1. Inverts(row1, k, GraphOf(Put(n, e, NoNode), Detached(edge, e), mention, hidden))
    BY NodeInverts
  <2> HIDE DEF k
  <2> QED
    BY <1>1, <1>4, <1>5, <2>1, NothingToDetach
<1>7. MadeNew(Graph, row1) => HoldsIn(row1, h.node)
  <2>1. h.node = n
    BY NodeOf
  <2>2. x # NoNode
    BY ConstantsAssumption DEF ConstantsAssumption
  <2> HIDE DEF n, h
  <2> QED
    BY <1>4, <1>5, <2>1, <2>2, RowIs DEF HoldsIn
<1>8. ~ChecksDrift(row2)
  BY NewIsFresh
<1> HIDE DEF c1, c2, row1, row2, k, h
<1>9. Runs(<<c1, c2>>, Graph, w, h, w)
  BY <1>2, RunsTwo
<1>10. Planned(<<c1, c2>>, <<row1, row2>>)
  BY <1>3, <1>6, <1>7, <1>8, <1>9, PlanTwo
<1> QED
  BY <1>10 DEF c1, c2, row1, row2

-----------------------------------------------------------------------------
(* Edges moved one after the other *)

(* n edges go, each to a place of its own, some of them to be made anew.   *)
Moving(e, old, new, made, n) ==
  /\ n \in Nat /\ made \subseteq 1 .. n
  /\ \A i \in 1 .. n : old[i] \in Triples /\ new[i] \in Triples
  /\ \A i, j \in 1 .. n : old[i] = old[j] => i = j
  /\ \A i, j \in 1 .. n : new[i] # old[j]
  /\ \A i, j \in made : new[i] = new[j] => i = j
  /\ \A i \in made : e[new[i]] = NoEdge

(* The edges when k of them have gone.                                     *)
Moved(e, old, new, hd, made, k) ==
  [t \in Triples |->
    IF \E i \in 1 .. k : old[i] = t THEN NoEdge
    ELSE IF \E i \in 1 .. k : i \in made /\ new[i] = t THEN hd[CHOOSE i \in made : new[i] = t]
    ELSE e[t]]

LEMMA MovedNone ==
  ASSUME NEW e, IsFn(e, Triples), NEW old, NEW new, NEW hd, NEW made
  PROVE  Moved(e, old, new, hd, made, 0) = e
<1>1. ~\E i \in 1 .. 0 : TRUE
  OBVIOUS
<1> QED
  BY <1>1 DEF Moved, IsFn

LEMMA MovedStep ==
  ASSUME NEW e, NEW old, NEW new, NEW hd, NEW made, NEW n, Moving(e, old, new, made, n), NEW k \in 1 .. n,
         NEW x, x = Moved(e, old, new, hd, made, k - 1), NEW y, y = Moved(e, old, new, hd, made, k)
  PROVE  /\ IsFn(x, Triples) /\ IsFn(y, Triples)
         /\ x[old[k]] = e[old[k]] /\ y[old[k]] = NoEdge
         /\ k \in made => /\ x[new[k]] = NoEdge /\ y[new[k]] = hd[k]
                          /\ \A t \in Triples : t # old[k] /\ t # new[k] => x[t] = y[t]
         /\ k \notin made => \A t \in Triples : t # old[k] => x[t] = y[t]
         /\ e[new[k]] # NoEdge => x[new[k]] = e[new[k]]
<1> DEFINE src(t) == CHOOSE i \in made : new[i] = t
<1>0. /\ n \in Nat /\ k \in Nat /\ k - 1 \in Nat
      /\ \A i : i \in 1 .. k <=> i \in 1 .. k - 1 \/ i = k
      /\ k \notin 1 .. k - 1 /\ \A i \in 1 .. k : i \in 1 .. n
  BY DEF Moving
<1>1. /\ old[k] \in Triples /\ new[k] \in Triples
      /\ \A i \in 1 .. k - 1 : old[i] # old[k]
      /\ \A i \in 1 .. k : new[i] # old[k] /\ old[i] # new[k]
      /\ \A i \in made : new[i] = new[k] /\ k \in made => i = k
      /\ k \in made => e[new[k]] = NoEdge
      /\ \A i \in made : new[i] = new[k] => e[new[k]] = NoEdge
  BY <1>0 DEF Moving
<1>2. k \in made => src(new[k]) = k
  BY <1>1
<1>3. IsFn(x, Triples) /\ IsFn(y, Triples)
  BY DEF IsFn, Moved
<1>4. \A t \in Triples :
        x[t] = IF \E i \in 1 .. k - 1 : old[i] = t THEN NoEdge
               ELSE IF \E i \in 1 .. k - 1 : i \in made /\ new[i] = t THEN hd[src(t)] ELSE e[t]
  BY DEF Moved
<1>5. \A t \in Triples :
        y[t] = IF \E i \in 1 .. k : old[i] = t THEN NoEdge
               ELSE IF \E i \in 1 .. k : i \in made /\ new[i] = t THEN hd[src(t)] ELSE e[t]
  BY DEF Moved
<1> HIDE DEF src
<1>6. x[old[k]] = e[old[k]]
  BY <1>0, <1>1, <1>4
<1>7. y[old[k]] = NoEdge
  BY <1>0, <1>1, <1>5
<1>8. ASSUME k \in made
      PROVE  /\ x[new[k]] = NoEdge /\ y[new[k]] = hd[k]
             /\ \A t \in Triples : t # old[k] /\ t # new[k] => x[t] = y[t]
  <2>1. x[new[k]] = NoEdge
    BY <1>0, <1>1, <1>4, <1>8
  <2>2. y[new[k]] = hd[k]
    BY <1>0, <1>1, <1>2, <1>5, <1>8
  <2>3. ASSUME NEW t \in Triples, t # old[k], t # new[k] PROVE x[t] = y[t]
    BY <1>0, <1>4, <1>5, <2>3
  <2> QED
    BY <2>1, <2>2, <2>3
<1>9. ASSUME k \notin made, NEW t \in Triples, t # old[k] PROVE x[t] = y[t]
  BY <1>0, <1>4, <1>5, <1>9
<1>10. e[new[k]] # NoEdge => x[new[k]] = e[new[k]]
  BY <1>0, <1>1, <1>4
<1> QED
  BY <1>3, <1>6, <1>7, <1>8, <1>9, <1>10

(* A step of the edges, forward and back, in terms of what is put where.   *)
Puts(e, old, new, hd, made, k, x, y) ==
  /\ k \in made => /\ Put(Put(x, new[k], hd[k]), old[k], NoEdge) = y
                   /\ Put(Put(x, old[k], NoEdge), new[k], hd[k]) = y
                   /\ Put(x, old[k], NoEdge)[new[k]] = NoEdge
                   /\ Put(y, new[k], NoEdge)[old[k]] = NoEdge
                   /\ Put(Put(y, new[k], NoEdge), old[k], e[old[k]]) = x
                   /\ x[new[k]] = NoEdge
  /\ k \notin made => /\ Put(x, old[k], NoEdge) = y
                      /\ Put(y, old[k], e[old[k]]) = x
  /\ e[new[k]] # NoEdge => x[new[k]] # NoEdge /\ Put(x, old[k], NoEdge)[new[k]] # NoEdge
  /\ y[old[k]] = NoEdge

LEMMA MovedPuts ==
  ASSUME NEW e, NEW old, NEW new, NEW hd, NEW made, NEW n, Moving(e, old, new, made, n), NEW k \in 1 .. n,
         NEW x, x = Moved(e, old, new, hd, made, k - 1), NEW y, y = Moved(e, old, new, hd, made, k)
  PROVE  Puts(e, old, new, hd, made, k, x, y)
<1> DEFINE o == old[k]
           w == new[k]
<1>1. /\ IsFn(x, Triples) /\ IsFn(y, Triples)
      /\ x[o] = e[o] /\ y[o] = NoEdge
      /\ k \in made => /\ x[w] = NoEdge /\ y[w] = hd[k]
                       /\ \A t \in Triples : t # o /\ t # w => x[t] = y[t]
      /\ k \notin made => \A t \in Triples : t # o => x[t] = y[t]
      /\ e[w] # NoEdge => x[w] = e[w]
  BY MovedStep, SMTT(30)
<1>2. o \in Triples /\ w \in Triples /\ o # w
  BY DEF Moving
<1> HIDE DEF o, w
<1>3. ASSUME NEW f, IsFn(f, Triples), NEW u
      PROVE  /\ IsFn(Put(f, o, u), Triples) /\ Put(f, o, u)[o] = u
             /\ \A t \in Triples : t # o => Put(f, o, u)[t] = f[t]
             /\ IsFn(Put(f, w, u), Triples) /\ Put(f, w, u)[w] = u
             /\ \A t \in Triples : t # w => Put(f, w, u)[t] = f[t]
  <2>1. /\ IsFn(Put(f, o, u), Triples) /\ Put(f, o, u)[o] = u
        /\ \A t \in Triples : t # o => Put(f, o, u)[t] = f[t]
    BY <1>2, <1>3, PutIs
  <2>2. /\ IsFn(Put(f, w, u), Triples) /\ Put(f, w, u)[w] = u
        /\ \A t \in Triples : t # w => Put(f, w, u)[t] = f[t]
    BY <1>2, <1>3, PutIs
  <2> QED
    BY <2>1, <2>2
<1>4. ASSUME k \in made PROVE Put(Put(x, w, hd[k]), o, NoEdge) = y
  <2> DEFINE f == Put(x, w, hd[k])
             g == Put(f, o, NoEdge)
  <2>1. IsFn(f, Triples) /\ f[w] = hd[k] /\ \A t \in Triples : t # w => f[t] = x[t]
    BY <1>1, <1>3
  <2> HIDE DEF f
  <2>2. IsFn(g, Triples) /\ g[o] = NoEdge /\ \A t \in Triples : t # o => g[t] = f[t]
    BY <1>3, <2>1
  <2> HIDE DEF g
  <2>3. \A t \in Triples : g[t] = y[t]
    BY <1>1, <1>2, <1>4, <2>1, <2>2
  <2>4. g = y
    BY <1>1, <2>2, <2>3, FnEq
  <2> QED
    BY <2>4 DEF f, g
<1>5. ASSUME k \in made
      PROVE Put(Put(x, o, NoEdge), w, hd[k]) = y /\ Put(x, o, NoEdge)[w] = NoEdge
  <2> DEFINE f == Put(x, o, NoEdge)
             g == Put(f, w, hd[k])
  <2>1. IsFn(f, Triples) /\ f[o] = NoEdge /\ \A t \in Triples : t # o => f[t] = x[t]
    BY <1>1, <1>3
  <2> HIDE DEF f
  <2>2. IsFn(g, Triples) /\ g[w] = hd[k] /\ \A t \in Triples : t # w => g[t] = f[t]
    BY <1>3, <2>1
  <2> HIDE DEF g
  <2>3. \A t \in Triples : g[t] = y[t]
    BY <1>1, <1>2, <1>5, <2>1, <2>2
  <2>4. g = y
    BY <1>1, <2>2, <2>3, FnEq
  <2> QED
    BY <1>1, <1>2, <1>5, <2>1, <2>4 DEF f, g
<1>6. ASSUME k \in made
      PROVE Put(Put(y, w, NoEdge), o, e[o]) = x /\ Put(y, w, NoEdge)[o] = NoEdge
  <2> DEFINE f == Put(y, w, NoEdge)
             g == Put(f, o, e[o])
  <2>1. IsFn(f, Triples) /\ f[w] = NoEdge /\ \A t \in Triples : t # w => f[t] = y[t]
    BY <1>1, <1>3
  <2> HIDE DEF f
  <2>2. IsFn(g, Triples) /\ g[o] = e[o] /\ \A t \in Triples : t # o => g[t] = f[t]
    BY <1>3, <2>1
  <2> HIDE DEF g
  <2>3. \A t \in Triples : g[t] = x[t]
    BY <1>1, <1>2, <1>6, <2>1, <2>2
  <2>4. g = x
    BY <1>1, <2>2, <2>3, FnEq
  <2> QED
    BY <1>1, <1>2, <2>1, <2>4 DEF f, g
<1>7. ASSUME k \notin made PROVE Put(x, o, NoEdge) = y /\ Put(y, o, e[o]) = x
  <2> DEFINE f == Put(x, o, NoEdge)
             g == Put(y, o, e[o])
  <2>1. /\ IsFn(f, Triples) /\ f[o] = NoEdge /\ \A t \in Triples : t # o => f[t] = x[t]
        /\ IsFn(g, Triples) /\ g[o] = e[o] /\ \A t \in Triples : t # o => g[t] = y[t]
    BY <1>1, <1>3
  <2> HIDE DEF f, g
  <2>2. \A t \in Triples : f[t] = y[t]
    BY <1>1, <1>7, <2>1
  <2>3. \A t \in Triples : g[t] = x[t]
    BY <1>1, <1>7, <2>1
  <2>4. f = y /\ g = x
    BY <1>1, <2>1, <2>2, <2>3, FnEq
  <2> QED
    BY <2>4 DEF f, g
<1>8. e[w] # NoEdge => x[w] # NoEdge /\ Put(x, o, NoEdge)[w] # NoEdge
  BY <1>1, <1>2, <1>3
<1> QED
  BY <1>1, <1>4, <1>5, <1>6, <1>7, <1>8 DEF o, w, Puts

(* One edge re-keyed, or dropped, and taken back.                          *)
LEMMA RekeyRuns ==
  ASSUME NEW n, NEW m, NEW h, NEW r, NEW x, NEW y, NEW o, NEW w, NEW i,
         n[w[1]] # NoNode, n[w[3]] # NoNode,
         x[w] = NoEdge => Put(Put(x, w, Handle(o, i)), o, NoEdge) = y,
         x[w] # NoEdge => Put(x, o, NoEdge) = y
  PROVE  Runs(Rekey(o, w, i), GraphOf(n, x, m, h), r, GraphOf(n, y, m, h), r)
<1> DEFINE c1 == Call("create_relation", w, Handle(o, i))
           c2 == Call("delete_relation", o, NoImage)
           z == IF x[w] = NoEdge THEN Put(x, w, Handle(o, i)) ELSE x
<1>1. Runs(<<c1>>, GraphOf(n, x, m, h), r, GraphOf(n, z, m, h), r)
  <2>1. After(c1, GraphOf(n, x, m, h)) = GraphOf(n, z, m, h)
    BY AfterCreateRelation
  <2> HIDE DEF z
  <2> QED
    BY <2>1, RunsCall
<1>2. Put(z, o, NoEdge) = y
  OBVIOUS
<1> HIDE DEF z
<1>3. Runs(<<c2>>, GraphOf(n, z, m, h), r, GraphOf(n, y, m, h), r)
  <2>1. After(c2, GraphOf(n, z, m, h)) = GraphOf(n, y, m, h)
    BY <1>2, AfterDeleteRelation
  <2> QED
    BY <2>1, RunsCall
<1> HIDE DEF c1, c2
<1>4. Runs(<<c1, c2>>, GraphOf(n, x, m, h), r, GraphOf(n, y, m, h), r)
  BY <1>1, <1>3, RunsTwo
<1> QED
  BY <1>4 DEF Rekey, c1, c2

LEMMA MergeStepRuns ==
  ASSUME NEW n, NEW m, NEW h, NEW r, NEW x, NEW y, NEW o, NEW w,
         n[w[1]] # NoNode, n[w[3]] # NoNode,
         ~IsLoop(w) /\ Put(x, o, NoEdge)[w] = NoEdge => Put(Put(x, o, NoEdge), w, edge[o]) = y,
         IsLoop(w) \/ Put(x, o, NoEdge)[w] # NoEdge => Put(x, o, NoEdge) = y
  PROVE  Runs(MergeStepCalls(o, w), GraphOf(n, x, m, h), r, GraphOf(n, y, m, h), r)
<1> DEFINE c1 == Call("delete_relation", o, NoImage)
           c2 == Call("create_relation", w, edge[o])
           z == Put(x, o, NoEdge)
<1>1. Runs(<<c1>>, GraphOf(n, x, m, h), r, GraphOf(n, z, m, h), r)
  <2>1. After(c1, GraphOf(n, x, m, h)) = GraphOf(n, z, m, h)
    BY AfterDeleteRelation
  <2> HIDE DEF z
  <2> QED
    BY <2>1, RunsCall
<1>2. CASE IsLoop(w)
  <2>1. MergeStepCalls(o, w) = <<c1>>
    <3>1. <<c1>> \o <<>> = <<c1>>
      OBVIOUS
    <3> QED
      BY <1>2, <3>1 DEF MergeStepCalls
  <2>2. z = y
    BY <1>2
  <2> HIDE DEF z, c1
  <2> QED
    BY <1>1, <2>1, <2>2
<1>3. CASE ~IsLoop(w)
  <2>1. MergeStepCalls(o, w) = <<c1, c2>>
    BY <1>3, JoinTwo DEF MergeStepCalls
  <2>2. IF z[w] = NoEdge THEN Put(z, w, edge[o]) = y ELSE z = y
    BY <1>3
  <2> HIDE DEF z
  <2>3. Runs(<<c2>>, GraphOf(n, z, m, h), r, GraphOf(n, y, m, h), r)
    <3>1. After(c2, GraphOf(n, z, m, h)) = GraphOf(n, y, m, h)
      BY <2>2, AfterCreateRelation
    <3> QED
      BY <3>1, RunsCall
  <2> HIDE DEF c1, c2
  <2>4. Runs(<<c1, c2>>, GraphOf(n, x, m, h), r, GraphOf(n, y, m, h), r)
    BY <1>1, <2>3, RunsTwo
  <2> QED
    BY <2>1, <2>4
<1> QED
  BY <1>2, <1>3

LEMMA RekeyInverts ==
  ASSUME NEW n, NEW m, NEW h, NEW x, NEW y, NEW o, NEW w, n[o[1]] # NoNode, n[o[3]] # NoNode,
         y[o] = NoEdge,
         ~HasEdge(w) => Put(y, w, NoEdge)[o] = NoEdge /\ Put(Put(y, w, NoEdge), o, edge[o]) = x,
         HasEdge(w) => Put(y, o, edge[o]) = x
  PROVE  Inverts(RekeyRow(o, w), GraphOf(n, y, m, h), GraphOf(n, x, m, h))
<1>1. CASE HasEdge(w)
  <2>1. RekeyRow(o, w) = Row("fold_relation", o, edge[o], w)
    BY <1>1 DEF RekeyRow
  <2>2. Inverts(Row("fold_relation", o, edge[o], w), GraphOf(n, y, m, h), GraphOf(n, Put(y, o, edge[o]), m, h))
    BY EdgeInverts
  <2> QED
    BY <1>1, <2>1, <2>2
<1>2. CASE ~HasEdge(w)
  <2>1. RekeyRow(o, w) = Row("repoint_relation", o, edge[o], w)
    BY <1>2 DEF RekeyRow
  <2>2. Inverts(Row("repoint_relation", o, edge[o], w), GraphOf(n, y, m, h),
                GraphOf(n, Put(Put(y, w, NoEdge), o, edge[o]), m, h))
    BY <1>2, EdgeInverts
  <2> QED
    BY <1>2, <2>1, <2>2
<1> QED
  BY <1>1, <1>2

LEMMA MergeStepInverts ==
  ASSUME NEW n, NEW m, NEW h, NEW x, NEW y, NEW o, NEW w, n[o[1]] # NoNode, n[o[3]] # NoNode,
         y[o] = NoEdge,
         ~IsLoop(w) /\ ~HasEdge(w) =>
           Put(y, w, NoEdge)[o] = NoEdge /\ Put(Put(y, w, NoEdge), o, edge[o]) = x,
         IsLoop(w) \/ HasEdge(w) => Put(y, o, edge[o]) = x
  PROVE  Inverts(MergeStepRow(o, w), GraphOf(n, y, m, h), GraphOf(n, x, m, h))
<1>1. CASE IsLoop(w)
  <2>1. MergeStepRow(o, w) = Row("discard_self_loop_relation", o, edge[o], NoImage)
    BY <1>1 DEF MergeStepRow
  <2>2. Inverts(Row("discard_self_loop_relation", o, edge[o], NoImage), GraphOf(n, y, m, h),
                GraphOf(n, Put(y, o, edge[o]), m, h))
    BY EdgeInverts
  <2> QED
    BY <1>1, <2>1, <2>2
<1>2. CASE ~IsLoop(w)
  <2>1. MergeStepRow(o, w) = RekeyRow(o, w)
    BY <1>2 DEF MergeStepRow
  <2> QED
    BY <1>2, <2>1, RekeyInverts
<1> QED
  BY <1>1, <1>2

LEMMA RekeyRowChecks ==
  ASSUME NEW o, NEW w
  PROVE  /\ ~ChecksDrift(RekeyRow(o, w)) /\ ~ChecksDrift(MergeStepRow(o, w))
         /\ RekeyRow(o, w).op \in {"fold_relation", "repoint_relation"}
         /\ MergeStepRow(o, w).op \in {"fold_relation", "repoint_relation", "discard_self_loop_relation"}
<1>1. RekeyRow(o, w).op \in {"fold_relation", "repoint_relation"}
  BY RowIs DEF RekeyRow
<1>2. MergeStepRow(o, w).op \in {"fold_relation", "repoint_relation", "discard_self_loop_relation"}
  BY <1>1, RowIs DEF MergeStepRow
<1> QED
  BY <1>1, <1>2 DEF ChecksDrift

-----------------------------------------------------------------------------
(* Re-keys *)

LEMMA PlanBy ==
  ASSUME NEW calls, NEW rows, NEW v, NEW h, NEW K, rows # <<>>, v # <<>>, Runs(calls, Graph, rows, h, v),
         K[0] = Graph, K[Len(v)] = h,
         \A i \in 1 .. Len(v) : Inverts(v[i], K[i], K[i - 1]) /\ (ChecksDrift(v[i]) => HoldsIn(v[i], h.node))
  PROVE  Planned(calls, rows)
<1>1. Restores(v, Graph, h)
  BY DEF Restores
<1> QED
  BY <1>1 DEF Planned, Leads

LEMMA FlattenOne ==
  ASSUME NEW x
  PROVE  FlattenSeq(<<x>>) = x
<1> DEFINE s == <<x>>
<1>1. Len(s) = 1 /\ s[1] = x
  OBVIOUS
<1> HIDE DEF s
<1>2. PICK f : Flattens(s, f, 1) /\ FlattenSeq(s) = f[1]
  <2>1. Len(s) \in Nat /\ Len(s) # 0
    BY <1>1
  <2>2. PICK f : Flattens(s, f, Len(s)) /\ FlattenSeq(s) = f[Len(s)]
    BY <2>1, FlattenIs
  <2> QED
    BY <1>1, <2>2
<1>3. f[1] = s[1]
  <2>1. f = [i \in 1 .. 1 |-> IF i = 1 THEN s[i] ELSE f[i - 1] \o s[i]]
    BY <1>2 DEF Flattens
  <2> QED
    BY <2>1
<1> QED
  BY <1>1, <1>2, <1>3 DEF s

(* The places that are free.                                               *)
Vacant(new, n) == {i \in 1 .. n : ~HasEdge(new[i])}

Rekeys(n, old, new, parts, rows) ==
  /\ n # 0 /\ Moving(edge, old, new, Vacant(new, n), n)
  /\ \A i \in 1 .. n : HasEdge(old[i]) /\ Exists(new[i][1]) /\ Exists(new[i][3])
  /\ parts \in Seq(Seq(GoodCalls)) /\ Len(parts) = n
  /\ \A i \in 1 .. n : parts[i] = Rekey(old[i], new[i], i)
  /\ rows \in Seq(GoodRows) /\ Len(rows) = n
  /\ \A i \in 1 .. n : rows[i] = RekeyRow(old[i], new[i])

LEMMA RekeysPlanned ==
  ASSUME GraphTyped, EndsExist, NEW n, NEW old, NEW new, NEW parts, NEW rows, Rekeys(n, old, new, parts, rows)
  PROVE  Planned(FlattenSeq(parts), rows)
<1> USE DEF Rekeys
<1> DEFINE made == Vacant(new, n)
           hd == [i \in 1 .. n |-> Handle(old[i], i)]
           E(k) == Moved(edge, old, new, hd, made, k)
           K == [k \in 0 .. n |-> GraphOf(node, E(k), mention, hidden)]
           R == [k \in 0 .. n |-> rows]
<1>0. n \in Nat
  BY DEF Moving
<1>1. \A i \in 1 .. n : /\ i \in 0 .. n /\ i - 1 \in 0 .. n /\ hd[i] = Handle(old[i], i)
                        /\ i \in made <=> ~HasEdge(new[i])
  BY <1>0 DEF Vacant
<1>2. \A k \in 0 .. n : K[k] = GraphOf(node, E(k), mention, hidden) /\ R[k] = rows
  OBVIOUS
<1> HIDE DEF hd, K, R, made
<1>3. ASSUME NEW i \in 1 .. n
      PROVE  /\ Runs(parts[i], K[i - 1], R[i - 1], K[i], R[i])
             /\ Inverts(rows[i], K[i], K[i - 1])
             /\ ~ChecksDrift(rows[i])
  <2> PICK x : x = Moved(edge, old, new, hd, made, i - 1)
    OBVIOUS
  <2> PICK y : y = Moved(edge, old, new, hd, made, i)
    OBVIOUS
  <2> DEFINE o == old[i]
             w == new[i]
  <2>1. Moving(edge, old, new, made, n)
    BY DEF made
  <2>2. /\ i \in made => /\ Put(Put(x, new[i], hd[i]), old[i], NoEdge) = y
                         /\ Put(y, new[i], NoEdge)[old[i]] = NoEdge
                         /\ Put(Put(y, new[i], NoEdge), old[i], edge[old[i]]) = x
                         /\ x[new[i]] = NoEdge
        /\ i \notin made => Put(x, old[i], NoEdge) = y /\ Put(y, old[i], edge[old[i]]) = x
        /\ edge[new[i]] # NoEdge => x[new[i]] # NoEdge
        /\ y[old[i]] = NoEdge
    <3>1. Puts(edge, old, new, hd, made, i, x, y)
      BY <2>1, MovedPuts
    <3> QED
      BY <3>1 DEF Puts
  <2>3. K[i - 1] = GraphOf(node, x, mention, hidden) /\ K[i] = GraphOf(node, y, mention, hidden)
        /\ R[i - 1] = rows /\ R[i] = rows
    BY <1>1, <1>2
  <2>4. /\ node[o[1]] # NoNode /\ node[o[3]] # NoNode /\ node[w[1]] # NoNode /\ node[w[3]] # NoNode
        /\ parts[i] = Rekey(o, w, i) /\ rows[i] = RekeyRow(o, w) /\ hd[i] = Handle(o, i)
        /\ i \in made <=> ~HasEdge(w)
        /\ HasEdge(w) <=> edge[w] # NoEdge
    <3>1. old[i] \in Triples
      BY DEF Moving
    <3> QED
      BY <1>1, <3>1 DEF EndsExist, Exists, HasEdge
  <2> HIDE DEF E
  <2>5. Runs(Rekey(o, w, i), GraphOf(node, x, mention, hidden), rows, GraphOf(node, y, mention, hidden), rows)
    <3>1. x[w] = NoEdge <=> i \in made
      BY <2>2, <2>4
    <3> QED
      BY <2>2, <2>4, <3>1, RekeyRuns
  <2>6. Inverts(RekeyRow(o, w), GraphOf(node, y, mention, hidden), GraphOf(node, x, mention, hidden))
    BY <2>2, <2>4, RekeyInverts
  <2>7. ~ChecksDrift(rows[i])
    BY <2>4, RekeyRowChecks
  <2> QED
    BY <2>3, <2>4, <2>5, <2>6, <2>7
<1>4. K[0] = Graph /\ R[0] = rows /\ R[n] = rows
  <2>1. E(0) = edge
    BY GraphIs, MovedNone
  <2>2. 0 \in 0 .. n /\ n \in 0 .. n
    BY <1>0
  <2> HIDE DEF E
  <2> QED
    BY <1>2, <2>1, <2>2, GraphIs
<1> HIDE DEF E
<1>5. Runs(FlattenSeq(parts), K[0], R[0], K[Len(parts)], R[Len(parts)])
  BY <1>3, RunsFlat
<1>6. rows # <<>>
  OBVIOUS
<1>7. Runs(FlattenSeq(parts), Graph, rows, K[n], rows)
  BY <1>4, <1>5
<1> QED
  BY <1>3, <1>4, <1>6, <1>7, PlanBy

LEMMA RetargetPlanned ==
  ASSUME GraphTyped, EndsExist, NEW old \in Triples, NEW new \in Triples, HasEdge(old), old # new,
         Exists(new[1]), Exists(new[3])
  PROVE  Planned(Rekey(old, new, 1), <<RekeyRow(old, new)>>)
<1> DEFINE o == [i \in 1 .. 1 |-> old]
           w == [i \in 1 .. 1 |-> new]
           made == Vacant(w, 1)
           parts == <<Rekey(old, new, 1)>>
           rows == <<RekeyRow(old, new)>>
<1>1. \A i \in 1 .. 1 : i = 1 /\ o[i] = old /\ w[i] = new
  OBVIOUS
<1>2. \A i \in made : i \in 1 .. 1 /\ edge[w[i]] = NoEdge
  BY DEF HasEdge, Vacant
<1> HIDE DEF o, w
<1>3. Moving(edge, o, w, made, 1)
  BY <1>1, <1>2 DEF Moving
<1>4. Rekey(old, new, 1) \in Seq(GoodCalls) /\ RekeyRow(old, new) \in GoodRows
  BY RekeyTyped
<1>5. parts \in Seq(Seq(GoodCalls)) /\ Len(parts) = 1 /\ parts[1] = Rekey(old, new, 1)
      /\ rows \in Seq(GoodRows) /\ Len(rows) = 1 /\ rows[1] = RekeyRow(old, new)
  BY <1>4, Tuples
<1>6. FlattenSeq(parts) = Rekey(old, new, 1)
  BY FlattenOne
<1> HIDE DEF parts, rows
<1>7. \A i \in 1 .. 1 : /\ HasEdge(o[i]) /\ Exists(w[i][1]) /\ Exists(w[i][3])
                        /\ parts[i] = Rekey(o[i], w[i], i) /\ rows[i] = RekeyRow(o[i], w[i])
  BY <1>1, <1>5
<1>8. Rekeys(1, o, w, parts, rows)
  BY <1>3, <1>5, <1>7 DEF Rekeys
<1>9. Planned(FlattenSeq(parts), rows)
  BY <1>8, RekeysPlanned
<1> QED
  BY <1>6, <1>9 DEF rows

LEMMA RenamePlanned ==
  ASSUME GraphTyped, EndsExist, NEW p \in Predicates, NEW q \in Predicates, p # q,
         NEW S, S = SetToSeq({t \in Triples : HasEdge(t) /\ t[2] = p}), S # <<>>
  PROVE  Planned(FlattenSeq([i \in DOMAIN S |-> Rekey(S[i], <<S[i][1], q, S[i][3]>>, i)]),
                 [i \in DOMAIN S |-> RekeyRow(S[i], <<S[i][1], q, S[i][3]>>)])
<1> DEFINE B == {t \in Triples : HasEdge(t) /\ t[2] = p}
           Renamed(t) == <<t[1], q, t[3]>>
           n == Len(S)
           new == [i \in 1 .. n |-> Renamed(S[i])]
           parts == [i \in DOMAIN S |-> Rekey(S[i], Renamed(S[i]), i)]
           rows == [i \in DOMAIN S |-> RekeyRow(S[i], Renamed(S[i]))]
           made == Vacant(new, n)
<1>1. B \subseteq Triples /\ IsFiniteSet(B) /\ \A t \in B : HasEdge(t) /\ t[2] = p
  BY FiniteStores, FS_Subset
<1>2. \A t \in Triples : /\ Renamed(t) \in Triples /\ Renamed(t)[1] = t[1] /\ Renamed(t)[2] = q
                         /\ Renamed(t)[3] = t[3] /\ t = <<t[1], t[2], t[3]>>
  BY DEF Triples
<1> HIDE DEF B, Renamed
<1>3. S \in Seq(B) /\ n \in Nat /\ DOMAIN S = 1 .. n /\ \A i, j \in 1 .. n : S[i] = S[j] => i = j
  <2>1. S = SetToSeq(B)
    BY DEF B
  <2> DEFINE s == SetToSeq(B)
  <2>2. s \in Seq(B) /\ Len(s) = Cardinality(B) /\ Cardinality(B) \in Nat /\ DOMAIN s = 1 .. Cardinality(B)
        /\ \A i, j \in 1 .. Cardinality(B) : s[i] = s[j] => i = j
    BY <1>1, SetToSeqIs
  <2> HIDE DEF s
  <2>3. S = s
    BY <2>1 DEF s
  <2> QED
    BY <2>2, <2>3
<1>4. n # 0
  BY <1>3
<1>5. \A i \in 1 .. n : /\ S[i] \in Triples /\ HasEdge(S[i]) /\ S[i][2] = p
                        /\ new[i] = Renamed(S[i]) /\ new[i] \in Triples
                        /\ new[i][1] = S[i][1] /\ new[i][2] = q /\ new[i][3] = S[i][3]
  <2> SUFFICES ASSUME NEW i \in 1 .. n
               PROVE  /\ S[i] \in Triples /\ HasEdge(S[i]) /\ S[i][2] = p
                      /\ new[i] = Renamed(S[i]) /\ new[i] \in Triples
                      /\ new[i][1] = S[i][1] /\ new[i][2] = q /\ new[i][3] = S[i][3]
    OBVIOUS
  <2>1. S[i] \in B
    BY <1>3
  <2>2. S[i] \in Triples /\ HasEdge(S[i]) /\ S[i][2] = p
    BY <1>1, <2>1
  <2> QED
    BY <1>2, <2>2
<1>6. \A i, j \in 1 .. n : new[i] = new[j] => i = j
  <2> SUFFICES ASSUME NEW i \in 1 .. n, NEW j \in 1 .. n, new[i] = new[j] PROVE i = j
    OBVIOUS
  <2> HIDE DEF new
  <2>1. S[i][1] = S[j][1] /\ S[i][2] = S[j][2] /\ S[i][3] = S[j][3]
    BY <1>5
  <2>2. S[i] = S[j]
    BY <1>2, <1>5, <2>1
  <2> QED
    BY <1>3, <2>2
<1> HIDE DEF new
<1>7. Moving(edge, S, new, made, n)
  <2>1. \A i \in made : i \in 1 .. n /\ edge[new[i]] = NoEdge
    BY DEF HasEdge, Vacant
  <2>2. \A i, j \in 1 .. n : new[i] # S[j]
    BY <1>5
  <2>3. \A i, j \in made : new[i] = new[j] => i = j
    BY <1>6, <2>1
  <2> QED
    BY <1>3, <1>5, <2>1, <2>2, <2>3 DEF Moving
<1>8. ASSUME NEW i \in 1 .. n
      PROVE  /\ Rekey(S[i], Renamed(S[i]), i) \in Seq(GoodCalls) /\ RekeyRow(S[i], Renamed(S[i])) \in GoodRows
             /\ Exists(new[i][1]) /\ Exists(new[i][3])
  <2>1. S[i] \in Triples /\ HasEdge(S[i]) /\ Renamed(S[i]) \in Triples /\ i \in Nat
    BY <1>5
  <2> QED
    BY <1>5, <2>1, RekeyTyped DEF EndsExist
<1>9. parts \in Seq(Seq(GoodCalls)) /\ rows \in Seq(GoodRows) /\ Len(parts) = n /\ Len(rows) = n
      /\ \A i \in 1 .. n : parts[i] = Rekey(S[i], Renamed(S[i]), i) /\ rows[i] = RekeyRow(S[i], Renamed(S[i]))
  <2> HIDE DEF n
  <2>1. parts \in [1 .. n -> Seq(GoodCalls)] /\ rows \in [1 .. n -> GoodRows]
    BY <1>3, <1>8
  <2>2. parts \in Seq(Seq(GoodCalls)) /\ rows \in Seq(GoodRows) /\ Len(parts) = n /\ Len(rows) = n
    <3> HIDE DEF parts, rows
    <3> QED
      BY <1>3, <2>1
  <2> QED
    BY <1>3, <2>2
<1> HIDE DEF parts, rows, made, n
<1>10. \A i \in 1 .. n : parts[i] = Rekey(S[i], new[i], i) /\ rows[i] = RekeyRow(S[i], new[i])
  BY <1>5, <1>9
<1>11. Rekeys(n, S, new, parts, rows)
  BY <1>4, <1>5, <1>7, <1>8, <1>9, <1>10 DEF made, Rekeys
<1>12. Planned(FlattenSeq(parts), rows)
  BY <1>11, RekeysPlanned
<1> QED
  BY <1>12 DEF parts, rows, Renamed

-----------------------------------------------------------------------------
(* Deleting, and putting back what was deleted *)

(* The first k of S as they are in y, the others as they are in x.         *)
Returned(x, y, D, S, k) == [t \in D |-> IF \E i \in 1 .. k : S[i] = t THEN y[t] ELSE x[t]]

LEMMA ReturnedSteps ==
  ASSUME NEW D, NEW x, IsFn(x, D), NEW y, IsFn(y, D), NEW T, T \subseteq D, IsFiniteSet(T),
         \A t \in D : t \notin T => x[t] = y[t],
         NEW S, S = SetToSeq(T), NEW n, n = Cardinality(T)
  PROVE  /\ n \in Nat /\ Len(S) = n /\ DOMAIN S = 1 .. n /\ \A i \in 1 .. n : S[i] \in T
         /\ Returned(x, y, D, S, 0) = x /\ Returned(x, y, D, S, n) = y
         /\ \A k \in 1 .. n : /\ Returned(x, y, D, S, k - 1)[S[k]] = x[S[k]]
                              /\ Returned(x, y, D, S, k) = Put(Returned(x, y, D, S, k - 1), S[k], y[S[k]])
<1>1. /\ n \in Nat /\ S \in Seq(T) /\ Len(S) = n /\ DOMAIN S = 1 .. n
      /\ \A t \in T : \E i \in 1 .. n : S[i] = t
      /\ \A i, j \in 1 .. n : S[i] = S[j] => i = j
  <2> DEFINE s == SetToSeq(T)
  <2>1. /\ s \in Seq(T) /\ Len(s) = Cardinality(T) /\ Cardinality(T) \in Nat /\ DOMAIN s = 1 .. Cardinality(T)
        /\ \A t \in T : \E i \in 1 .. Cardinality(T) : s[i] = t
        /\ \A i, j \in 1 .. Cardinality(T) : s[i] = s[j] => i = j
    BY SetToSeqIs
  <2>2. S = s
    OBVIOUS
  <2> HIDE DEF s
  <2> QED
    BY <2>1, <2>2
<1>2. \A i \in 1 .. n : S[i] \in T
  BY <1>1
<1>3. Returned(x, y, D, S, 0) = x
  <2>1. ~\E i \in 1 .. 0 : TRUE
    OBVIOUS
  <2> QED
    BY <2>1 DEF Returned, IsFn
<1>4. Returned(x, y, D, S, n) = y
  <2>1. \A t \in D : (IF \E i \in 1 .. n : S[i] = t THEN y[t] ELSE x[t]) = y[t]
    BY <1>1
  <2> QED
    BY <2>1 DEF Returned, IsFn
<1>5. ASSUME NEW k \in 1 .. n
      PROVE  /\ Returned(x, y, D, S, k - 1)[S[k]] = x[S[k]]
             /\ Returned(x, y, D, S, k) = Put(Returned(x, y, D, S, k - 1), S[k], y[S[k]])
  <2> DEFINE f == Returned(x, y, D, S, k - 1)
             g == Returned(x, y, D, S, k)
             p == Put(f, S[k], y[S[k]])
  <2>1. /\ k \in Nat /\ \A i : i \in 1 .. k <=> i \in 1 .. k - 1 \/ i = k
        /\ \A i \in 1 .. k - 1 : i \in 1 .. n /\ i # k
    BY <1>1
  <2>2. IsFn(f, D) /\ IsFn(g, D)
    BY DEF Returned, IsFn
  <2>3. \A t \in D : /\ f[t] = IF \E i \in 1 .. k - 1 : S[i] = t THEN y[t] ELSE x[t]
                     /\ g[t] = IF \E i \in 1 .. k : S[i] = t THEN y[t] ELSE x[t]
    BY DEF Returned
  <2> HIDE DEF f, g
  <2>4. S[k] \in D
    BY <1>2
  <2>5. f[S[k]] = x[S[k]]
    BY <1>1, <2>1, <2>3, <2>4
  <2>6. IsFn(p, D) /\ p[S[k]] = y[S[k]] /\ \A t \in D : t # S[k] => p[t] = f[t]
    BY <2>2, <2>4, PutIs
  <2> HIDE DEF p
  <2>7. \A t \in D : p[t] = g[t]
    BY <2>1, <2>3, <2>6
  <2>8. g = p
    BY <2>2, <2>6, <2>7, FnEq
  <2> QED
    BY <2>5, <2>8 DEF f, g, p
<1> QED
  BY <1>1, <1>2, <1>3, <1>4, <1>5

(* The edges of a snapshot come back, if their ends are there.             *)
LEMMA EdgesPutBack ==
  ASSUME NEW n, NEW x, IsFn(x, Triples), NEW y, IsFn(y, Triples), NEW m, NEW h,
         NEW T, T \subseteq Triples, \A t \in Triples : t \notin T => x[t] = y[t],
         \A t \in T : x[t] = NoEdge /\ n[t[1]] # NoNode /\ n[t[3]] # NoNode
  PROVE  Runs(PutBack("create_relation", Restrict(y, T)), GraphOf(n, x, m, h), <<>>, GraphOf(n, y, m, h), <<>>)
<1> DEFINE S == SetToSeq(T)
           c == Cardinality(T)
           cs == PutBack("create_relation", Restrict(y, T))
           f == [k \in 0 .. c |-> GraphOf(n, Returned(x, y, Triples, S, k), m, h)]
           w == [k \in 0 .. c |-> <<>>]
<1>0. IsFiniteSet(T)
  BY FiniteStores, FS_Subset
<1> PICK s : s = S
  OBVIOUS
<1>1. /\ c \in Nat /\ Len(s) = c /\ DOMAIN s = 1 .. c /\ \A i \in 1 .. c : s[i] \in T
      /\ Returned(x, y, Triples, s, 0) = x /\ Returned(x, y, Triples, s, c) = y
      /\ \A k \in 1 .. c : /\ Returned(x, y, Triples, s, k - 1)[s[k]] = x[s[k]]
                           /\ Returned(x, y, Triples, s, k) =
                                Put(Returned(x, y, Triples, s, k - 1), s[k], y[s[k]])
  BY <1>0, ReturnedSteps
<1>2. cs = [i \in 1 .. c |-> Call("create_relation", s[i], y[s[i]])]
  <2>1. DOMAIN Restrict(y, T) = T /\ \A t \in T : Restrict(y, T)[t] = y[t]
    BY DEF Restrict
  <2>2. cs = [i \in DOMAIN s |-> Call("create_relation", s[i], Restrict(y, T)[s[i]])]
    BY <2>1 DEF PutBack
  <2> QED
    BY <1>1, <2>1, <2>2
<1> HIDE DEF cs, c
<1>3. Len(cs) = c /\ \A i \in 1 .. c : cs[i] = Call("create_relation", s[i], y[s[i]])
  BY <1>1, <1>2
<1>4. \A k \in 0 .. c : f[k] = GraphOf(n, Returned(x, y, Triples, s, k), m, h) /\ w[k] = <<>>
  OBVIOUS
<1>5. 0 \in 0 .. c /\ c \in 0 .. c /\ \A k \in 1 .. c : k \in 0 .. c /\ k - 1 \in 0 .. c
  BY <1>1
<1> HIDE DEF f, w, S
<1>6. ASSUME NEW k \in 1 .. c
      PROVE  f[k] = After(cs[k], f[k - 1]) /\ w[k] = RowsAfter(cs[k], f[k - 1], w[k - 1])
  <2> DEFINE u == Returned(x, y, Triples, s, k - 1)
             v == Returned(x, y, Triples, s, k)
  <2>1. u[s[k]] = NoEdge /\ v = Put(u, s[k], y[s[k]]) /\ n[s[k][1]] # NoNode /\ n[s[k][3]] # NoNode
    BY <1>1
  <2>2. f[k - 1] = GraphOf(n, u, m, h) /\ f[k] = GraphOf(n, v, m, h) /\ w[k] = <<>> /\ w[k - 1] = <<>>
    BY <1>4, <1>5
  <2> HIDE DEF u, v
  <2>3. After(Call("create_relation", s[k], y[s[k]]), GraphOf(n, u, m, h)) = GraphOf(n, v, m, h)
    BY <2>1, AfterCreateRelation
  <2>4. RowsAfter(Call("create_relation", s[k], y[s[k]]), GraphOf(n, u, m, h), <<>>) = <<>>
    BY RowsStay
  <2> QED
    BY <1>3, <2>2, <2>3, <2>4
<1>7. f[0] = GraphOf(n, x, m, h) /\ f[c] = GraphOf(n, y, m, h) /\ w[0] = <<>> /\ w[c] = <<>>
  BY <1>1, <1>4, <1>5
<1>8. /\ f[Len(cs)] = GraphOf(n, y, m, h) /\ w[Len(cs)] = <<>>
      /\ \A i \in 1 .. Len(cs) : f[i] = After(cs[i], f[i - 1]) /\ w[i] = RowsAfter(cs[i], f[i - 1], w[i - 1])
  BY <1>3, <1>6, <1>7
<1>9. Runs(cs, GraphOf(n, x, m, h), <<>>, GraphOf(n, y, m, h), <<>>)
  BY <1>7, <1>8, RunsBy
<1> QED
  BY <1>9 DEF cs

LEMMA MentionsPutBack ==
  ASSUME NEW n, NEW e, NEW x, IsFn(x, MentionIds), NEW y, IsFn(y, MentionIds), NEW h,
         NEW T, T \subseteq MentionIds, \A t \in MentionIds : t \notin T => x[t] = y[t],
         \A t \in T : x[t] = NoMention
  PROVE  Runs(PutBack("add_mention", Restrict(y, T)), GraphOf(n, e, x, h), <<>>, GraphOf(n, e, y, h), <<>>)
<1> DEFINE S == SetToSeq(T)
           c == Cardinality(T)
           cs == PutBack("add_mention", Restrict(y, T))
           f == [k \in 0 .. c |-> GraphOf(n, e, Returned(x, y, MentionIds, S, k), h)]
           w == [k \in 0 .. c |-> <<>>]
<1>0. IsFiniteSet(T)
  BY FiniteStores, FS_Subset
<1> PICK s : s = S
  OBVIOUS
<1>1. /\ c \in Nat /\ Len(s) = c /\ DOMAIN s = 1 .. c /\ \A i \in 1 .. c : s[i] \in T
      /\ Returned(x, y, MentionIds, s, 0) = x /\ Returned(x, y, MentionIds, s, c) = y
      /\ \A k \in 1 .. c : /\ Returned(x, y, MentionIds, s, k - 1)[s[k]] = x[s[k]]
                           /\ Returned(x, y, MentionIds, s, k) =
                                Put(Returned(x, y, MentionIds, s, k - 1), s[k], y[s[k]])
  BY <1>0, ReturnedSteps
<1>2. cs = [i \in 1 .. c |-> Call("add_mention", s[i], y[s[i]])]
  <2>1. DOMAIN Restrict(y, T) = T /\ \A t \in T : Restrict(y, T)[t] = y[t]
    BY DEF Restrict
  <2>2. cs = [i \in DOMAIN s |-> Call("add_mention", s[i], Restrict(y, T)[s[i]])]
    BY <2>1 DEF PutBack
  <2> QED
    BY <1>1, <2>1, <2>2
<1> HIDE DEF cs, c
<1>3. Len(cs) = c /\ \A i \in 1 .. c : cs[i] = Call("add_mention", s[i], y[s[i]])
  BY <1>1, <1>2
<1>4. \A k \in 0 .. c : f[k] = GraphOf(n, e, Returned(x, y, MentionIds, s, k), h) /\ w[k] = <<>>
  OBVIOUS
<1>5. 0 \in 0 .. c /\ c \in 0 .. c /\ \A k \in 1 .. c : k \in 0 .. c /\ k - 1 \in 0 .. c
  BY <1>1
<1> HIDE DEF f, w, S
<1>6. ASSUME NEW k \in 1 .. c
      PROVE  f[k] = After(cs[k], f[k - 1]) /\ w[k] = RowsAfter(cs[k], f[k - 1], w[k - 1])
  <2> DEFINE u == Returned(x, y, MentionIds, s, k - 1)
             v == Returned(x, y, MentionIds, s, k)
  <2>1. u[s[k]] = NoMention /\ v = Put(u, s[k], y[s[k]])
    BY <1>1
  <2>2. f[k - 1] = GraphOf(n, e, u, h) /\ f[k] = GraphOf(n, e, v, h) /\ w[k] = <<>> /\ w[k - 1] = <<>>
    BY <1>4, <1>5
  <2> HIDE DEF u, v
  <2>3. After(Call("add_mention", s[k], y[s[k]]), GraphOf(n, e, u, h)) = GraphOf(n, e, v, h)
    BY <2>1, AfterAddMention
  <2>4. RowsAfter(Call("add_mention", s[k], y[s[k]]), GraphOf(n, e, u, h), <<>>) = <<>>
    BY RowsStay
  <2> QED
    BY <1>3, <2>2, <2>3, <2>4
<1>7. f[0] = GraphOf(n, e, x, h) /\ f[c] = GraphOf(n, e, y, h) /\ w[0] = <<>> /\ w[c] = <<>>
  BY <1>1, <1>4, <1>5
<1>8. /\ f[Len(cs)] = GraphOf(n, e, y, h) /\ w[Len(cs)] = <<>>
      /\ \A i \in 1 .. Len(cs) : f[i] = After(cs[i], f[i - 1]) /\ w[i] = RowsAfter(cs[i], f[i - 1], w[i - 1])
  BY <1>3, <1>6, <1>7
<1>9. Runs(cs, GraphOf(n, e, x, h), <<>>, GraphOf(n, e, y, h), <<>>)
  BY <1>7, <1>8, RunsBy
<1> QED
  BY <1>9 DEF cs

LEMMA PutBackInverts ==
  ASSUME NEW x, NEW s, NEW g, NEW b
  PROVE  /\ Runs(PutBack("create_relation", s), g, <<>>, b, <<>>) => Inverts(Row("delete_relations", x, s, NoImage), g, b)
         /\ Runs(PutBack("add_mention", s), g, <<>>, b, <<>>) => Inverts(Row("delete_mentions", x, s, NoImage), g, b)
<1>1. /\ InverseOf(Row("delete_relations", x, s, NoImage)) = PutBack("create_relation", s)
      /\ InverseOf(Row("delete_mentions", x, s, NoImage)) = PutBack("add_mention", s)
  BY RowIs DEF InverseOf
<1> QED
  BY <1>1 DEF Inverts

LEMMA DeletePlanned ==
  ASSUME GraphTyped, EndsExist, NEW e \in Entities, Exists(e)
  PROVE  Planned(<<Call("delete_mentions_for_entity", e, NoImage), Call("delete_entity", e, NoImage)>>,
                 <<Row("delete_mentions", e, Restrict(mention, MentionsOf(e)), NoImage),
                   Row("delete_relations", e, Restrict(edge, Incident(e)), NoImage),
                   Row("delete_entity", e, node[e], NoImage)>>)
<1> DEFINE c1 == Call("delete_mentions_for_entity", e, NoImage)
           c2 == Call("delete_entity", e, NoImage)
           row1 == Row("delete_mentions", e, Restrict(mention, MentionsOf(e)), NoImage)
           row2 == Row("delete_relations", e, Restrict(edge, Incident(e)), NoImage)
           row3 == Row("delete_entity", e, node[e], NoImage)
           v == <<row1, row2, row3>>
           n == Put(node, e, NoNode)
           x == Detached(edge, e)
           m == Without(mention, MentionsOf(e))
           k1 == GraphOf(node, edge, m, hidden)
           k2 == GraphOf(node, x, m, hidden)
           h == GraphOf(n, x, m, hidden)
           K == [i \in {0, 1, 2, 3} |-> IF i = 0 THEN Graph ELSE IF i = 1 THEN k1 ELSE IF i = 2 THEN k2 ELSE h]
<1>1. Graph = GraphOf(node, edge, mention, hidden)
      /\ IsFn(node, Entities) /\ IsFn(edge, Triples) /\ IsFn(mention, MentionIds)
  BY GraphIs
<1>2. n[e] = NoNode /\ Put(n, e, node[e]) = node
  BY <1>1, PutIs
<1>3. /\ IsFn(x, Triples) /\ Incident(e) \subseteq Triples
      /\ \A t \in Triples : t \notin Incident(e) => x[t] = edge[t]
      /\ \A t \in Incident(e) : x[t] = NoEdge /\ node[t[1]] # NoNode /\ node[t[3]] # NoNode
  <2>1. \A t \in Triples : x[t] = IF e \in {t[1], t[3]} THEN NoEdge ELSE edge[t]
    BY DEF Detached
  <2>2. IsFn(x, Triples)
    BY DEF Detached, IsFn
  <2> HIDE DEF x
  <2> QED
    BY <2>1, <2>2 DEF Incident, HasEdge, EndsExist, Exists
<1>4. /\ IsFn(m, MentionIds) /\ MentionsOf(e) \subseteq MentionIds
      /\ \A t \in MentionIds : t \notin MentionsOf(e) => m[t] = mention[t]
      /\ \A t \in MentionsOf(e) : m[t] = NoMention
  BY DEF IsFn, Without, MentionsOf
<1>5. Runs(<<c1>>, Graph, v, k1, v) /\ Runs(<<c2>>, k1, v, h, v)
  <2>1. After(c1, Graph) = k1
    <3>1. Naming(mention, e) = MentionsOf(e)
      BY DEF Naming, MentionsOf
    <3> QED
      BY <1>1, <3>1, AfterDeleteMentions
  <2>2. After(c2, k1) = h
    BY AfterDeleteEntity
  <2> HIDE DEF k1, h, v
  <2> QED
    BY <2>1, <2>2, RunsCall
<1> HIDE DEF n, x, m
<1>6. Inverts(row1, k1, Graph)
  <2>1. Runs(PutBack("add_mention", Restrict(mention, MentionsOf(e))), k1, <<>>, Graph, <<>>)
    BY <1>1, <1>4, MentionsPutBack
  <2> HIDE DEF k1
  <2> QED
    BY <2>1, PutBackInverts
<1>7. Inverts(row2, k2, k1)
  <2>1. Runs(PutBack("create_relation", Restrict(edge, Incident(e))), k2, <<>>, k1, <<>>)
    BY <1>1, <1>3, EdgesPutBack
  <2> HIDE DEF k1, k2
  <2> QED
    BY <2>1, PutBackInverts
<1>8. Inverts(row3, h, k2)
  <2>1. Inverts(row3, h, GraphOf(IF n[e] # NoNode THEN n ELSE Put(n, e, node[e]), x, m, hidden))
    BY NodeInverts
  <2> QED
    BY <1>2, <2>1
<1>9. ~ChecksDrift(row1) /\ ~ChecksDrift(row2) /\ HoldsIn(row3, h.node)
  BY <1>2, RowIs, NodeOf DEF ChecksDrift, HoldsIn
<1>10. v # <<>> /\ Len(v) = 3 /\ v[1] = row1 /\ v[2] = row2 /\ v[3] = row3
  OBVIOUS
<1>11. K[0] = Graph /\ K[1] = k1 /\ K[2] = k2 /\ K[3] = h
  OBVIOUS
<1> HIDE DEF c1, c2, row1, row2, row3, k1, k2, h, K
<1>12. Runs(<<c1, c2>>, Graph, v, h, v)
  BY <1>5, RunsTwo
<1> HIDE DEF v
<1>13. ASSUME NEW i \in 1 .. Len(v)
       PROVE  Inverts(v[i], K[i], K[i - 1]) /\ (ChecksDrift(v[i]) => HoldsIn(v[i], h.node))
  <2>1. (i = 1 /\ i - 1 = 0) \/ (i = 2 /\ i - 1 = 1) \/ (i = 3 /\ i - 1 = 2)
    BY <1>10
  <2> QED
    BY <1>6, <1>7, <1>8, <1>9, <1>10, <1>11, <2>1
<1>14. K[0] = Graph /\ K[Len(v)] = h
  BY <1>10, <1>11
<1>15. Planned(<<c1, c2>>, v)
  BY <1>10, <1>12, <1>13, <1>14, PlanBy
<1> QED
  BY <1>15 DEF c1, c2, row1, row2, row3, v

LEMMA TypeBack ==
  ASSUME NEW o \in Node, NEW from, o.type = from, NEW to \in Types, NEW x, x = [o EXCEPT !.type = to]
  PROVE  x \in Node /\ x # NoNode /\ x.type = to /\ Over([type |-> from], x) = o
<1>1. x \in Node /\ x.type = to
  BY DEF Node
<1>2. x # NoNode
  BY <1>1, ConstantsAssumption DEF ConstantsAssumption
<1>3. Over([type |-> from], x) = o
  <2>1. DOMAIN [type |-> from] = {"type"} /\ [type |-> from]["type"] = from
    OBVIOUS
  <2>2. o = [f \in FieldNames |-> o[f]] /\ x = [f \in FieldNames |-> x[f]]
    BY <1>1, NodeIs
  <2>3. \A f \in FieldNames : x[f] = IF f = "type" THEN to ELSE o[f]
    BY <2>2 DEF FieldNames
  <2>4. o["type"] = from
    OBVIOUS
  <2>5. Over([type |-> from], x) = [f \in FieldNames |-> IF f = "type" THEN from ELSE x[f]]
    BY <2>1, <2>2 DEF Over
  <2>6. \A f \in FieldNames : (IF f = "type" THEN from ELSE x[f]) = o[f]
    BY <2>3, <2>4
  <2> QED
    BY <2>2, <2>5, <2>6
<1> QED
  BY <1>1, <1>2, <1>3

LEMMA PlanFilled ==
  ASSUME NEW c, c.do = "relabel_entity_type", NEW h, NEW v, Runs(<<c>>, Graph, <<>>, h, v),
         IF v = <<>> THEN h = Graph ELSE Restores(v, Graph, h)
  PROVE  Planned(<<c>>, <<>>)
<1> DEFINE cs == <<c>>
<1>1. Len(cs) = 1 /\ cs[1].do = "relabel_entity_type"
  OBVIOUS
<1> HIDE DEF cs
<1>2. Runs(cs, Graph, <<>>, h, v)
  BY DEF cs
<1>3. Planned(cs, <<>>)
  BY <1>1, <1>2 DEF Planned, Leads
<1> QED
  BY <1>3 DEF cs

(* The rows of a relabelling are filled in by the call.                    *)
LEMMA RelabelPlanned ==
  ASSUME GraphTyped, NEW from \in Types, NEW to \in Types
  PROVE  Planned(<<Call("relabel_entity_type", from, to)>>, <<>>)
<1> DEFINE c == Call("relabel_entity_type", from, to)
           ids == OfType(node, from)
           S == SetToSeq(ids)
           v == Relabelling(ids, from, to)
           n == Relabelled(node, from, to)
           h == GraphOf(n, edge, mention, hidden)
<1>1. Graph = GraphOf(node, edge, mention, hidden)
      /\ IsFn(node, Entities) /\ IsFn(edge, Triples) /\ IsFn(mention, MentionIds)
  BY GraphIs
<1>2. Runs(<<c>>, Graph, <<>>, h, v)
  <2>1. After(c, Graph) = h
    BY <1>1, AfterRelabel
  <2>2. RowsAfter(c, Graph, <<>>) = v
    BY DEF RowsAfter, Call, Graph
  <2> HIDE DEF c, h, v
  <2> QED
    BY <2>1, <2>2, RunsOne
<1>3. ids \subseteq Entities /\ IsFiniteSet(ids) /\ \A e \in ids : node[e] \in Node /\ node[e].type = from
  <2>1. ids \subseteq Entities /\ \A e \in ids : node[e] \in Node /\ node[e].type = from
    BY DEF OfType, GraphTyped
  <2> QED
    BY <2>1, FiniteStores, FS_Subset
<1>4. n = [e \in Entities |-> IF e \in ids THEN [node[e] EXCEPT !.type = to] ELSE node[e]] /\ IsFn(n, Entities)
  BY DEF Relabelled, IsFn
<1>5. c.do = "relabel_entity_type"
  BY DEF Call
<1> HIDE DEF n, ids
<1>6. DOMAIN S = 1 .. Len(S) /\ v = [i \in DOMAIN S |-> Row("edit_fields", S[i], [type |-> from], [type |-> to])]
      /\ Len(S) \in Nat /\ (\A i \in DOMAIN S : S[i] \in ids) /\ \A e \in ids : \E i \in DOMAIN S : S[i] = e
  BY <1>3, SetToSeqIs DEF Relabelling
<1> HIDE DEF c, h, S, v
<1>7. CASE v = <<>>
  <2>1. ids = {}
    <3>1. DOMAIN v = DOMAIN S /\ DOMAIN v = {}
      BY <1>6, <1>7
    <3> QED
      BY <1>6, <3>1
  <2>2. n = node
    BY <1>1, <1>4, <2>1 DEF IsFn
  <2>3. h = Graph
    BY <1>1, <2>2 DEF h
  <2> QED
    <3>1. IF v = <<>> THEN h = Graph ELSE Restores(v, Graph, h)
      BY <1>7, <2>3
    <3>2. Planned(<<c>>, <<>>)
      BY <1>2, <1>5, <3>1, PlanFilled
    <3> QED
      BY <3>2 DEF c
<1>8. CASE v # <<>>
  <2> DEFINE N(k) == Returned(node, n, Entities, S, k)
             K == [k \in 0 .. Len(S) |-> GraphOf(N(k), edge, mention, hidden)]
  <2>1. \A e \in Entities : e \notin ids => node[e] = n[e]
    BY <1>4
  <2>2. /\ N(0) = node /\ N(Len(S)) = n
        /\ \A k \in 1 .. Len(S) : N(k - 1)[S[k]] = node[S[k]] /\ N(k) = Put(N(k - 1), S[k], n[S[k]])
    <3> DEFINE c0 == Cardinality(ids)
    <3>1. S = SetToSeq(ids)
      BY DEF S
    <3> HIDE DEF c0
    <3>2. /\ Len(S) = c0
          /\ N(0) = node /\ N(c0) = n
          /\ \A k \in 1 .. c0 : N(k - 1)[S[k]] = node[S[k]] /\ N(k) = Put(N(k - 1), S[k], n[S[k]])
      BY <1>1, <1>3, <1>4, <2>1, <3>1, ReturnedSteps, SMTT(30) DEF c0
    <3> QED
      BY <3>2
  <2>3. /\ Len(v) = Len(S) /\ 0 \in 0 .. Len(S) /\ Len(S) \in 0 .. Len(S)
        /\ \A k \in 1 .. Len(S) : k \in 0 .. Len(S) /\ k - 1 \in 0 .. Len(S)
        /\ \A i \in 1 .. Len(S) : v[i] = Row("edit_fields", S[i], [type |-> from], [type |-> to])
    BY <1>6
  <2>4. \A k \in 0 .. Len(S) : K[k] = GraphOf(N(k), edge, mention, hidden)
    OBVIOUS
  <2>5. \A k \in 0 .. Len(S) : IsFn(N(k), Entities)
    BY DEF Returned, IsFn
  <2> HIDE DEF N, K
  <2>6. ASSUME NEW i \in 1 .. Len(v)
        PROVE  Inverts(v[i], K[i], K[i - 1]) /\ (ChecksDrift(v[i]) => HoldsIn(v[i], h.node))
    <3> PICK f : f = N(i - 1)
      OBVIOUS
    <3> PICK g : g = N(i)
      OBVIOUS
    <3> PICK s : s = S[i]
      OBVIOUS
    <3>1. i \in 1 .. Len(S) /\ s \in ids /\ s \in Entities /\ i \in 0 .. Len(S) /\ i - 1 \in 0 .. Len(S)
      BY <1>3, <1>6, <2>3
    <3>2. node[s] \in Node /\ node[s].type = from /\ n[s] = [node[s] EXCEPT !.type = to]
      BY <1>3, <1>4, <3>1
    <3>3. n[s] # NoNode /\ n[s].type = to /\ Over([type |-> from], n[s]) = node[s]
      BY <3>2, TypeBack
    <3>4. f[s] = node[s] /\ g = Put(f, s, n[s]) /\ IsFn(f, Entities)
      BY <2>2, <2>5, <3>1
    <3>5. g[s] = n[s] /\ Put(g, s, node[s]) = f
      BY <3>1, <3>4, PutIs
    <3>6. v[i] = Row("edit_fields", s, [type |-> from], [type |-> to])
      BY <2>3, <3>1
    <3>7. K[i] = GraphOf(g, edge, mention, hidden) /\ K[i - 1] = GraphOf(f, edge, mention, hidden)
      BY <2>4, <3>1
    <3>8. Inverts(v[i], GraphOf(g, edge, mention, hidden),
                  GraphOf(Put(g, s, Over([type |-> from], g[s])), edge, mention, hidden))
      <4> DEFINE b == [type |-> from]
                 a == [type |-> to]
      <4>1. g[s] # NoNode
        BY <3>3, <3>5
      <4> HIDE DEF a, b
      <4>2. Inverts(Row("edit_fields", s, b, a), GraphOf(g, edge, mention, hidden),
                    GraphOf(Put(g, s, Over(b, g[s])), edge, mention, hidden))
        BY <4>1, NodeInverts
      <4> QED
        BY <3>6, <4>2 DEF a, b
    <3>9. Inverts(v[i], K[i], K[i - 1])
      BY <3>3, <3>5, <3>7, <3>8
    <3>10. HoldsIn(v[i], h.node)
      <4>1. h.node = n
        BY NodeOf DEF h
      <4>2. DOMAIN [type |-> to] = {"type"} /\ [type |-> to]["type"] = to
        OBVIOUS
      <4>3. v[i].op = "edit_fields" /\ v[i].target = s /\ v[i].after = [type |-> to]
        BY <3>6, RowIs
      <4> QED
        BY <3>3, <4>1, <4>2, <4>3 DEF HoldsIn
    <3> QED
      BY <3>9, <3>10
  <2>7. K[0] = Graph /\ K[Len(v)] = h
    BY <1>1, <2>2, <2>3, <2>4 DEF h
  <2>8. Restores(v, Graph, h)
    BY <2>6, <2>7 DEF Restores
  <2> QED
    <3>1. IF v = <<>> THEN h = Graph ELSE Restores(v, Graph, h)
      BY <1>8, <2>8
    <3>2. Planned(<<c>>, <<>>)
      BY <1>2, <1>5, <3>1, PlanFilled
    <3> QED
      BY <3>2 DEF c
<1> QED
  BY <1>7, <1>8

-----------------------------------------------------------------------------
(* Merging *)

(* The survivor is put back, and nothing else of it has changed.           *)
LEMMA SurvivorBack ==
  ASSUME GraphTyped, NEW a \in Entities, NEW b \in Entities, Exists(a), Exists(b),
         NEW kept \in Values \cup {NoValue}, NEW x, x = Consolidated(a, b, kept)
  PROVE  /\ x \in Node /\ x # NoNode /\ Over(Images(node[a]), x) = node[a]
         /\ \A f \in DOMAIN Images(x) : x[f] = Images(x)[f]
<1> DEFINE o == node[a]
<1>1. o \in Node /\ x \in Node
  BY ConsolidatedTyped DEF GraphTyped, Exists
<1>2. x # NoNode
  BY <1>1, ConstantsAssumption DEF ConstantsAssumption
<1>3. x["type"] = o["type"] /\ x["name"] = o["name"]
  BY <1>1 DEF Consolidated, Node
<1>4. o = [f \in FieldNames |-> o[f]] /\ x = [f \in FieldNames |-> x[f]]
  BY <1>1, NodeIs
<1>5. DOMAIN Images(o) = {"aliases", "prop"} /\ Images(o)["aliases"] = o["aliases"] /\ Images(o)["prop"] = o["prop"]
  BY DEF Images
<1>6. DOMAIN Images(x) = {"aliases", "prop"} /\ Images(x)["aliases"] = x["aliases"] /\ Images(x)["prop"] = x["prop"]
  BY DEF Images
<1> HIDE DEF o
<1> DEFINE p == Images(o)
<1> HIDE DEF p
<1>7. Over(p, x) = [f \in FieldNames |-> IF f \in DOMAIN p THEN p[f] ELSE x[f]]
  BY <1>4 DEF Over
<1>8. \A f \in FieldNames : (IF f \in DOMAIN p THEN p[f] ELSE x[f]) = o[f]
  BY <1>3, <1>5 DEF p, FieldNames
<1>9. Over(p, x) = o
  BY <1>4, <1>7, <1>8
<1> QED
  BY <1>1, <1>2, <1>6, <1>9 DEF p, o

(* The edges of b go to places of their own that are none of b's.          *)
Places(new, n) == {i \in 1 .. n : ~IsLoop(new[i]) /\ ~HasEdge(new[i])}

LEMMA MergeMoving ==
  ASSUME GraphTyped, EndsExist, NEW a \in Entities, NEW b \in Entities, a # b, Exists(a),
         NEW S, S = SetToSeq(Incident(b)), NEW n, n = Len(S), NEW new, new = [i \in 1 .. n |-> Swapped(S[i], a, b)]
  PROVE  /\ Moving(edge, S, new, Places(new, n), n)
         /\ S \in Seq(Incident(b)) /\ DOMAIN S = 1 .. n
         /\ \A i \in 1 .. n : /\ HasEdge(S[i]) /\ Exists(new[i][1]) /\ Exists(new[i][3])
                              /\ new[i][1] # b /\ new[i][3] # b
         /\ \A t \in Incident(b) : \E i \in 1 .. n : S[i] = t
<1>1. Incident(b) \subseteq Triples /\ IsFiniteSet(Incident(b))
  <2>1. Incident(b) \subseteq Triples
    BY DEF Incident
  <2> QED
    BY <2>1, FiniteStores, FS_Subset
<1>2. /\ S \in Seq(Incident(b)) /\ n \in Nat /\ DOMAIN S = 1 .. n
      /\ \A t \in Incident(b) : \E i \in 1 .. n : S[i] = t
      /\ \A i, j \in 1 .. n : S[i] = S[j] => i = j
  <2> DEFINE s == SetToSeq(Incident(b))
             c == Cardinality(Incident(b))
  <2>1. /\ s \in Seq(Incident(b)) /\ Len(s) = c /\ c \in Nat /\ DOMAIN s = 1 .. c
        /\ \A t \in Incident(b) : \E i \in 1 .. c : s[i] = t
        /\ \A i, j \in 1 .. c : s[i] = s[j] => i = j
    BY <1>1, SetToSeqIs
  <2>2. S = s /\ n = Len(s)
    OBVIOUS
  <2> HIDE DEF s, c
  <2> QED
    BY <2>1, <2>2
<1>3. \A t \in Triples : /\ t = <<t[1], t[2], t[3]>> /\ t[1] \in Entities /\ t[3] \in Entities
                         /\ Swapped(t, a, b) \in Triples
                         /\ Swapped(t, a, b)[1] = IF t[1] = b THEN a ELSE t[1]
                         /\ Swapped(t, a, b)[2] = t[2]
                         /\ Swapped(t, a, b)[3] = IF t[3] = b THEN a ELSE t[3]
  BY DEF Triples, Swapped
<1>4. \A i \in 1 .. n : /\ S[i] \in Triples /\ HasEdge(S[i]) /\ (S[i][1] = b \/ S[i][3] = b)
                        /\ new[i] = Swapped(S[i], a, b)
  <2> SUFFICES ASSUME NEW i \in 1 .. n
               PROVE  S[i] \in Triples /\ HasEdge(S[i]) /\ (S[i][1] = b \/ S[i][3] = b)
    OBVIOUS
  <2>1. S[i] \in Incident(b)
    BY <1>2
  <2> QED
    BY <2>1 DEF Incident
<1>5. \A i \in 1 .. n : /\ new[i] \in Triples
                        /\ new[i][1] = IF S[i][1] = b THEN a ELSE S[i][1]
                        /\ new[i][2] = S[i][2]
                        /\ new[i][3] = IF S[i][3] = b THEN a ELSE S[i][3]
  BY <1>3, <1>4
<1>6. \A i \in 1 .. n : new[i][1] # b /\ new[i][3] # b /\ Exists(new[i][1]) /\ Exists(new[i][3])
  BY <1>4, <1>5 DEF EndsExist
<1>7. \A i, j \in 1 .. n : new[i] # S[j]
  BY <1>4, <1>6
<1>8. ASSUME NEW i \in 1 .. n, NEW j \in 1 .. n, ~IsLoop(new[i]), new[i] = new[j] PROVE i = j
  <2>1. new[i][1] # new[i][3] /\ new[j][1] # new[j][3]
    BY <1>8 DEF IsLoop
  <2>2. S[i][1] = S[j][1] /\ S[i][2] = S[j][2] /\ S[i][3] = S[j][3]
    BY <1>4, <1>5, <1>8, <2>1
  <2>3. S[i] = S[j]
    BY <1>3, <1>4, <2>2
  <2> QED
    BY <1>2, <2>3
<1>9. \A i \in Places(new, n) : i \in 1 .. n /\ ~IsLoop(new[i]) /\ edge[new[i]] = NoEdge
  BY DEF Places, HasEdge
<1>10. Moving(edge, S, new, Places(new, n), n)
  BY <1>2, <1>4, <1>5, <1>7, <1>8, <1>9 DEF Moving
<1> QED
  BY <1>2, <1>4, <1>6, <1>10

(* The edges when k of those of b have been taken over.                    *)
Taken(S, new, n, k) == Moved(edge, S, new, [i \in 1 .. n |-> edge[S[i]]], Places(new, n), k)

TakesOver(nd, n, S, new, parts) ==
  /\ Moving(edge, S, new, Places(new, n), n)
  /\ \A i \in 1 .. n : /\ nd[S[i][1]] # NoNode /\ nd[S[i][3]] # NoNode
                       /\ nd[new[i][1]] # NoNode /\ nd[new[i][3]] # NoNode
                       /\ HasEdge(S[i])
  /\ parts \in Seq(Seq(GoodCalls)) /\ Len(parts) = n
  /\ \A i \in 1 .. n : parts[i] = MergeStepCalls(S[i], new[i])

LEMMA TakesStep ==
  ASSUME NEW nd, NEW n, NEW S, NEW new, NEW parts, TakesOver(nd, n, S, new, parts), NEW m, NEW h, NEW r,
         NEW i \in 1 .. n, NEW x, x = Taken(S, new, n, i - 1), NEW y, y = Taken(S, new, n, i)
  PROVE  /\ Runs(parts[i], GraphOf(nd, x, m, h), r, GraphOf(nd, y, m, h), r)
         /\ Inverts(MergeStepRow(S[i], new[i]), GraphOf(nd, y, m, h), GraphOf(nd, x, m, h))
<1> USE DEF TakesOver
<1> DEFINE o == S[i]
           w == new[i]
           made == Places(new, n)
           hd == [j \in 1 .. n |-> edge[S[j]]]
<1>1. hd[i] = edge[o]
  OBVIOUS
<1>2. i \in made <=> ~IsLoop(w) /\ edge[w] = NoEdge
  BY DEF Places, HasEdge
<1>3. x = Moved(edge, S, new, hd, made, i - 1) /\ y = Moved(edge, S, new, hd, made, i)
      /\ Moving(edge, S, new, made, n)
  BY DEF Taken
<1> HIDE DEF hd, made
<1>4. Puts(edge, S, new, hd, made, i, x, y)
  BY <1>3, MovedPuts
<1>5. /\ i \in made => /\ Put(Put(x, o, NoEdge), w, edge[o]) = y
                       /\ Put(x, o, NoEdge)[w] = NoEdge
                       /\ Put(y, w, NoEdge)[o] = NoEdge
                       /\ Put(Put(y, w, NoEdge), o, edge[o]) = x
      /\ i \notin made => Put(x, o, NoEdge) = y /\ Put(y, o, edge[o]) = x
      /\ edge[w] # NoEdge => Put(x, o, NoEdge)[w] # NoEdge
      /\ y[o] = NoEdge
  BY <1>1, <1>4 DEF Puts
<1>6. /\ nd[o[1]] # NoNode /\ nd[o[3]] # NoNode /\ nd[w[1]] # NoNode /\ nd[w[3]] # NoNode
      /\ parts[i] = MergeStepCalls(o, w) /\ (HasEdge(w) <=> edge[w] # NoEdge)
  BY DEF HasEdge
<1> HIDE DEF o, w
<1>7. Runs(MergeStepCalls(o, w), GraphOf(nd, x, m, h), r, GraphOf(nd, y, m, h), r)
  <2>1. ~IsLoop(w) /\ Put(x, o, NoEdge)[w] = NoEdge => Put(Put(x, o, NoEdge), w, edge[o]) = y
    BY <1>2, <1>5
  <2>2. IsLoop(w) \/ Put(x, o, NoEdge)[w] # NoEdge => Put(x, o, NoEdge) = y
    BY <1>2, <1>5
  <2> QED
    BY <1>6, <2>1, <2>2, MergeStepRuns
<1>8. Inverts(MergeStepRow(o, w), GraphOf(nd, y, m, h), GraphOf(nd, x, m, h))
  <2>1. ~IsLoop(w) /\ ~HasEdge(w) =>
          Put(y, w, NoEdge)[o] = NoEdge /\ Put(Put(y, w, NoEdge), o, edge[o]) = x
    BY <1>2, <1>5, <1>6
  <2>2. IsLoop(w) \/ HasEdge(w) => Put(y, o, edge[o]) = x
    BY <1>2, <1>5, <1>6
  <2> QED
    BY <1>5, <1>6, <2>1, <2>2, MergeStepInverts
<1> QED
  BY <1>6, <1>7, <1>8 DEF o, w

TakenBack(nd, n, S, new, m, h) ==
  \A i \in 1 .. n : Inverts(MergeStepRow(S[i], new[i]), GraphOf(nd, Taken(S, new, n, i), m, h),
                            GraphOf(nd, Taken(S, new, n, i - 1), m, h))

LEMMA TakesBack ==
  ASSUME NEW nd, NEW n, NEW S, NEW new, NEW parts, TakesOver(nd, n, S, new, parts), NEW m, NEW h
  PROVE  TakenBack(nd, n, S, new, m, h)
<1> SUFFICES ASSUME NEW i \in 1 .. n
             PROVE  Inverts(MergeStepRow(S[i], new[i]), GraphOf(nd, Taken(S, new, n, i), m, h),
                            GraphOf(nd, Taken(S, new, n, i - 1), m, h))
  BY DEF TakenBack
<1> PICK x : x = Taken(S, new, n, i - 1)
  OBVIOUS
<1> PICK y : y = Taken(S, new, n, i)
  OBVIOUS
<1>1. /\ Runs(parts[i], GraphOf(nd, x, m, h), <<>>, GraphOf(nd, y, m, h), <<>>)
      /\ Inverts(MergeStepRow(S[i], new[i]), GraphOf(nd, y, m, h), GraphOf(nd, x, m, h))
  BY TakesStep
<1> QED
  BY <1>1

LEMMA AbsorbedInverts ==
  ASSUME NEW n, NEW e, NEW m, NEW h, NEW x, NEW y, NEW z, n[x] = NoNode
  PROVE  Inverts(Row("delete_absorbed", x, y, z), GraphOf(n, e, m, h), GraphOf(Put(n, x, y), e, m, h))
<1>1. Inverts(Row("delete_absorbed", x, y, z), GraphOf(n, e, m, h),
              GraphOf(IF n[x] # NoNode THEN n ELSE Put(n, x, y), e, m, h))
  BY NodeInverts
<1> QED
  BY <1>1

LEMMA ConsolidateHolds ==
  ASSUME NEW n, NEW a, NEW b, NEW x, n[a] = x, x # NoNode, \A f \in DOMAIN Images(x) : x[f] = Images(x)[f]
  PROVE  HoldsIn(Row("merge_consolidate", a, b, Images(x)), n)
<1> DEFINE p == Images(x)
<1> HIDE DEF p
<1>1. LET w == Row("merge_consolidate", a, b, p) IN w.op = "merge_consolidate" /\ w.target = a /\ w.after = p
  BY RowIs
<1>2. HoldsIn(Row("merge_consolidate", a, b, p), n)
  BY <1>1 DEF HoldsIn, p
<1> QED
  BY <1>2 DEF p

LEMMA TakesAll ==
  ASSUME NEW nd, NEW n, NEW S, NEW new, NEW parts, TakesOver(nd, n, S, new, parts), NEW m, NEW h, NEW r
  PROVE  Runs(FlattenSeq(parts), GraphOf(nd, Taken(S, new, n, 0), m, h), r,
              GraphOf(nd, Taken(S, new, n, n), m, h), r)
<1> DEFINE K == [k \in 0 .. n |-> GraphOf(nd, Taken(S, new, n, k), m, h)]
           R == [k \in 0 .. n |-> r]
<1>1. n \in Nat /\ Len(parts) = n /\ parts \in Seq(Seq(GoodCalls))
  BY DEF TakesOver, Moving
<1>2. \A k \in 0 .. n : K[k] = GraphOf(nd, Taken(S, new, n, k), m, h) /\ R[k] = r
  OBVIOUS
<1> HIDE DEF K, R
<1>3. ASSUME NEW i \in 1 .. n PROVE Runs(parts[i], K[i - 1], R[i - 1], K[i], R[i])
  <2>1. i \in 0 .. n /\ i - 1 \in 0 .. n
    BY <1>1
  <2> PICK x : x = Taken(S, new, n, i - 1)
    OBVIOUS
  <2> PICK y : y = Taken(S, new, n, i)
    OBVIOUS
  <2>2. Runs(parts[i], GraphOf(nd, x, m, h), r, GraphOf(nd, y, m, h), r)
    BY TakesStep
  <2> QED
    BY <1>2, <2>1, <2>2
<1>4. Runs(FlattenSeq(parts), K[0], R[0], K[Len(parts)], R[Len(parts)])
  BY <1>1, <1>3, RunsFlat
<1>5. 0 \in 0 .. n /\ n \in 0 .. n
  BY <1>1
<1> QED
  BY <1>1, <1>2, <1>4, <1>5

(* No edge is left at b for its removal to take away.                      *)
LEMMA AllTaken ==
  ASSUME GraphTyped, EndsExist, NEW a \in Entities, NEW b \in Entities, a # b, Exists(a),
         NEW S, S = SetToSeq(Incident(b)), NEW n, n = Len(S), NEW new, new = [i \in 1 .. n |-> Swapped(S[i], a, b)]
  PROVE  /\ Taken(S, new, n, 0) = edge
         /\ Detached(Taken(S, new, n, n), b) = Taken(S, new, n, n)
<1> DEFINE made == Places(new, n)
           hd == [j \in 1 .. n |-> edge[S[j]]]
<1>1. /\ \A i \in 1 .. n : new[i][1] # b /\ new[i][3] # b
      /\ \A t \in Incident(b) : \E i \in 1 .. n : S[i] = t
  BY MergeMoving
<1>2. IsFn(edge, Triples)
  BY GraphIs
<1> HIDE DEF hd, made
<1>3. Moved(edge, S, new, hd, made, 0) = edge
  BY <1>2, MovedNone
<1>4. Detached(Moved(edge, S, new, hd, made, n), b) = Moved(edge, S, new, hd, made, n)
  <2> DEFINE x == Moved(edge, S, new, hd, made, n)
  <2>1. x = [t \in Triples |-> x[t]]
    BY DEF Moved
  <2>2. ASSUME NEW t \in Triples, b \in {t[1], t[3]} PROVE x[t] = NoEdge
    <3>1. CASE edge[t] # NoEdge
      <4>1. t \in Incident(b)
        BY <2>2, <3>1 DEF Incident, HasEdge
      <4> QED
        BY <1>1, <4>1 DEF Moved
    <3>2. CASE edge[t] = NoEdge
      <4>1. \A i \in 1 .. n : new[i] # t
        BY <1>1, <2>2
      <4> QED
        BY <3>2, <4>1 DEF Moved
    <3> QED
      BY <3>1, <3>2
  <2> HIDE DEF x
  <2>3. \A t \in Triples : (IF b \in {t[1], t[3]} THEN NoEdge ELSE x[t]) = x[t]
    BY <2>2
  <2>4. Detached(x, b) = [t \in Triples |-> x[t]]
    BY <2>3 DEF Detached
  <2> QED
    BY <2>1, <2>4 DEF x
<1> QED
  BY <1>3, <1>4 DEF Taken, hd, made

(* The mentions of b go back to it, and no other has become its.           *)
LEMMA MentionsGoBack ==
  ASSUME NEW m \in [MentionIds -> Mention \cup {NoMention}], NEW a \in Entities, NEW b \in Entities
  PROVE  Given(Given(m, Naming(m, b), a), Naming(m, b), b) = m
<1> DEFINE ids == Naming(m, b)
           x == Given(m, ids, a)
<1>1. NoMention \notin Mention
  BY ConstantsAssumption DEF ConstantsAssumption
<1>2. ASSUME NEW i \in MentionIds
      PROVE  (IF i \in ids /\ x[i] # NoMention THEN [x[i] EXCEPT !.entity = b] ELSE x[i]) = m[i]
  <2>1. CASE i \in ids
    <3> DEFINE o == m[i]
    <3>1. o \in Mention /\ o.entity = b /\ x[i] = [o EXCEPT !.entity = a]
      BY <2>1 DEF Naming, Given
    <3>2. [o EXCEPT !.entity = a] \in Mention /\ [[o EXCEPT !.entity = a] EXCEPT !.entity = b] = o
      BY <3>1 DEF Mention
    <3> QED
      BY <1>1, <2>1, <3>1, <3>2
  <2>2. CASE i \notin ids
    BY <2>2 DEF Given
  <2> QED
    BY <2>1, <2>2
<1> HIDE DEF ids, x
<1>3. Given(x, ids, b) = [i \in MentionIds |-> m[i]]
  BY <1>2 DEF Given
<1> QED
  BY <1>3 DEF ids, x

(* Only the row of the mentions is told which they were.                   *)
Quiet(f) == \A i \in 1 .. Len(f) : f[i].op # "repoint_mentions"

Filled(f, x, u, z, s, v) ==
  /\ Len(s) = Len(f) + 3 /\ Len(v) = Len(f) + 3
  /\ v[1] = x /\ v[Len(f) + 2] = u /\ v[Len(f) + 3] = z
  /\ \A k \in 2 .. Len(f) + 1 : v[k] = f[k - 1]

LEMMA ToldRows ==
  ASSUME NEW f \in Seq(GoodRows), Quiet(f), NEW x, x.op # "repoint_mentions", NEW z, z.op # "repoint_mentions",
         NEW y, y.op = "repoint_mentions", NEW s, s = <<x>> \o f \o <<y, z>>, NEW ids, NEW v, v = Telling(s, ids),
         NEW u, u = [y EXCEPT !.before = ids]
  PROVE  Filled(f, x, u, z, s, v)
<1> DEFINE n == Len(f)
<1>1. /\ n \in Nat /\ Len(s) = n + 3 /\ DOMAIN s = 1 .. Len(s)
      /\ s[1] = x /\ s[n + 2] = y /\ s[n + 3] = z
      /\ \A k \in 2 .. n + 1 : s[k] = f[k - 1]
  BY Sandwich
<1>0. n \in Nat /\ Quiet(f)
  OBVIOUS
<1> HIDE DEF n
<1>2. v = [i \in 1 .. n + 3 |-> IF s[i].op = "repoint_mentions" THEN [s[i] EXCEPT !.before = ids] ELSE s[i]]
  BY <1>1 DEF Telling
<1>3. Len(v) = n + 3
  <2> DEFINE T == {v[i] : i \in 1 .. n + 3}
  <2>1. v \in [1 .. n + 3 -> T]
    BY <1>2
  <2> HIDE DEF T
  <2> QED
    BY <1>1, <2>1
<1>4. 1 \in 1 .. n + 3 /\ n + 2 \in 1 .. n + 3 /\ n + 3 \in 1 .. n + 3
  BY <1>1, SMTT(30)
<1>5. v[1] = x /\ v[n + 3] = z /\ v[n + 2] = [y EXCEPT !.before = ids]
  <2>1. \A i \in 1 .. n + 3 : s[i].op # "repoint_mentions" => v[i] = s[i]
    BY <1>2
  <2>2. \A i \in 1 .. n + 3 : s[i].op = "repoint_mentions" => v[i] = [s[i] EXCEPT !.before = ids]
    BY <1>2
  <2>3. v[1] = x /\ v[n + 3] = z
    BY <1>1, <1>4, <2>1
  <2>4. v[n + 2] = [y EXCEPT !.before = ids]
    BY <1>1, <1>4, <2>2, ZenonT(40)
  <2> QED
    BY <2>3, <2>4
<1>6. ASSUME NEW k \in 2 .. n + 1 PROVE v[k] = f[k - 1]
  <2>1. k \in 1 .. n + 3 /\ k - 1 \in 1 .. n
    BY <1>0
  <2>2. s[k].op # "repoint_mentions"
    BY <1>0, <1>1, <2>1 DEF n, Quiet
  <2> QED
    BY <1>1, <1>2, <2>1, <2>2
<1> QED
  BY <1>1, <1>3, <1>5, <1>6 DEF n, Filled

LEMMA MergeRuns ==
  ASSUME GraphTyped, EndsExist, NEW a \in Entities, NEW b \in Entities, a # b, Exists(a), Exists(b), NEW x, x # NoNode,
         NEW S, S = SetToSeq(Incident(b)), NEW n, n = Len(S), NEW new, new = [i \in 1 .. n |-> Swapped(S[i], a, b)],
         NEW nd, nd = Put(node, a, x), NEW parts, TakesOver(nd, n, S, new, parts), NEW e, e = Taken(S, new, n, n),
         NEW m, m = Given(mention, Naming(mention, b), a),
         NEW c1, c1 = Call("update_entity", a, x), c1 \in GoodCalls,
         NEW c2, c2 = Call("repoint_mentions", b, a), c2 \in GoodCalls,
         NEW c3, c3 = Call("delete_entity", b, NoImage), c3 \in GoodCalls,
         NEW w, NEW v, v = Telling(w, Naming(mention, b))
  PROVE  Runs(<<c1>> \o FlattenSeq(parts) \o <<c2, c3>>, Graph, w, GraphOf(Put(nd, b, NoNode), e, m, hidden), v)
<1> DEFINE flat == FlattenSeq(parts)
           k1 == GraphOf(nd, edge, mention, hidden)
           k2 == GraphOf(nd, e, mention, hidden)
           k3 == GraphOf(nd, e, m, hidden)
           h == GraphOf(Put(nd, b, NoNode), e, m, hidden)
<1>1. Graph = GraphOf(node, edge, mention, hidden)
  BY GraphIs
<1>2. Runs(<<c1>>, Graph, w, k1, w)
  <2>1. After(c1, Graph) = k1
    BY <1>1, AfterUpdateEntity DEF Exists
  <2>2. RowsAfter(c1, Graph, w) = w
    BY RowsStay
  <2> HIDE DEF k1
  <2> QED
    BY <2>1, <2>2, RunsOne
<1>3. Runs(flat, k1, w, k2, w)
  <2>1. Taken(S, new, n, 0) = edge
    BY AllTaken
  <2> QED
    BY <2>1, TakesAll
<1>4. Runs(<<c2>>, k2, w, k3, v)
  <2>1. After(c2, k2) = k3
    BY AfterRepoint
  <2>2. RowsAfter(c2, k2, w) = v
    BY DEF RowsAfter, Call, GraphOf
  <2> HIDE DEF k2, k3
  <2> QED
    BY <2>1, <2>2, RunsOne
<1>5. Runs(<<c3>>, k3, v, h, v)
  <2>1. After(c3, k3) = h
    <3>1. Detached(e, b) = e
      BY AllTaken
    <3> QED
      BY <3>1, AfterDeleteEntity
  <2>2. RowsAfter(c3, k3, v) = v
    BY RowsStay
  <2> HIDE DEF k3, h
  <2> QED
    BY <2>1, <2>2, RunsOne
<1>6. flat \in Seq(GoodCalls) /\ <<c1>> \in Seq(GoodCalls) /\ <<c2, c3>> \in Seq(GoodCalls)
  BY FlattenType, Tuples DEF TakesOver
<1> HIDE DEF flat, k1, k2, k3, h
<1>7. Runs(<<c2, c3>>, k2, w, h, v)
  BY <1>4, <1>5, RunsTwo
<1>8. Runs(<<c1>> \o flat, Graph, w, k2, w)
  BY <1>2, <1>3, <1>6, RunsJoin
<1>9. <<c1>> \o flat \in Seq(GoodCalls)
  BY <1>6
<1>10. Runs((<<c1>> \o flat) \o <<c2, c3>>, Graph, w, h, v)
  BY <1>6, <1>7, <1>8, <1>9, RunsJoin
<1> QED
  BY <1>10 DEF flat, h

(* The rows of a merge, when it has been made.                             *)
MergeRows(a, b, x, S, n, new, ids, v) ==
  /\ n \in Nat /\ Len(v) = n + 3
  /\ v[1] = Row("merge_consolidate", a, Images(node[a]), Images(x))
  /\ \A k \in 2 .. n + 1 : v[k] = MergeStepRow(S[k - 1], new[k - 1])
  /\ v[n + 2] = Row("repoint_mentions", b, ids, NoImage)
  /\ v[n + 3] = Row("delete_absorbed", b, node[b], NoImage)

LEMMA MergeRestores ==
  ASSUME GraphTyped, EndsExist, NEW a \in Entities, NEW b \in Entities, a # b, Exists(a), Exists(b),
         NEW kept \in Values \cup {NoValue}, NEW x, x = Consolidated(a, b, kept),
         NEW S, S = SetToSeq(Incident(b)), NEW n, n = Len(S), NEW new, new = [i \in 1 .. n |-> Swapped(S[i], a, b)],
         NEW nd, nd = Put(node, a, x), NEW parts, TakesOver(nd, n, S, new, parts), NEW e, e = Taken(S, new, n, n),
         NEW ids, ids = Naming(mention, b), NEW m, m = Given(mention, ids, a),
         NEW h, h = GraphOf(Put(nd, b, NoNode), e, m, hidden),
         NEW v, MergeRows(a, b, x, S, n, new, ids, v)
  PROVE  Restores(v, Graph, h)
<1> USE DEF MergeRows
<1> DEFINE E(k) == Taken(S, new, n, k)
           K == [k \in 0 .. n + 3 |->
                  IF k = 0 THEN Graph
                  ELSE IF k = n + 3 THEN h
                  ELSE IF k = n + 2 THEN GraphOf(nd, e, m, hidden)
                  ELSE GraphOf(nd, E(k - 1), mention, hidden)]
<1>1. /\ Graph = GraphOf(node, edge, mention, hidden) /\ IsFn(node, Entities)
      /\ E(0) = edge /\ E(n) = e
  BY GraphIs, AllTaken
<1>2. /\ 0 \in 0 .. n + 3 /\ n + 3 \in 0 .. n + 3 /\ n + 2 \in 0 .. n + 3 /\ n + 1 \in 0 .. n + 3
      /\ 1 \in 0 .. n + 3 /\ n + 3 # 0 /\ n + 2 # 0 /\ n + 2 # n + 3
      /\ n + 1 # 0 /\ n + 1 # n + 3 /\ n + 1 # n + 2 /\ (n + 1) - 1 = n /\ (n + 3) - 1 = n + 2
      /\ (n + 2) - 1 = n + 1 /\ 1 # 0 /\ 1 # n + 3 /\ 1 # n + 2 /\ 1 - 1 = 0
  OBVIOUS
<1>3. K[0] = Graph /\ K[1] = GraphOf(nd, edge, mention, hidden) /\ K[n + 1] = GraphOf(nd, e, mention, hidden)
      /\ K[n + 2] = GraphOf(nd, e, m, hidden) /\ K[n + 3] = h
  <2> HIDE DEF E
  <2> QED
    BY <1>1, <1>2
<1>4. \A k \in 1 .. n + 1 : K[k] = GraphOf(nd, E(k - 1), mention, hidden)
  <2> HIDE DEF E
  <2>1. \A k \in 1 .. n + 1 : k \in 0 .. n + 3 /\ k # 0 /\ k # n + 3 /\ k # n + 2
    OBVIOUS
  <2> QED
    BY <2>1
<1> HIDE DEF K, E
<1>5. nd[a] = x /\ x # NoNode /\ Put(nd, a, Over(Images(node[a]), x)) = node /\ Put(nd, b, NoNode)[a] = x
      /\ Put(nd, b, NoNode)[b] = NoNode /\ Put(Put(nd, b, NoNode), b, node[b]) = nd
      /\ \A f \in DOMAIN Images(x) : x[f] = Images(x)[f]
  <2> DEFINE o == Over(Images(node[a]), x)
  <2>1. o = node[a] /\ x # NoNode /\ \A f \in DOMAIN Images(x) : x[f] = Images(x)[f]
    BY SurvivorBack
  <2> HIDE DEF o
  <2>2. nd[a] = x /\ IsFn(nd, Entities) /\ nd[b] = node[b] /\ Put(nd, a, node[a]) = node
    BY <1>1, PutIs
  <2>3. /\ Put(nd, b, NoNode)[a] = x /\ Put(nd, b, NoNode)[b] = NoNode
        /\ Put(Put(nd, b, NoNode), b, nd[b]) = nd
    BY <2>2, PutIs
  <2> QED
    BY <2>1, <2>2, <2>3 DEF o
<1>6. Inverts(v[1], K[1], K[0])
  <2> DEFINE p == Images(node[a])
             q == Images(x)
  <2>1. nd[a] # NoNode
    BY <1>5
  <2> HIDE DEF p, q
  <2>2. Inverts(Row("merge_consolidate", a, p, q), GraphOf(nd, edge, mention, hidden),
                GraphOf(Put(nd, a, Over(p, nd[a])), edge, mention, hidden))
    BY <2>1, NodeInverts
  <2> QED
    BY <1>1, <1>3, <1>5, <2>2 DEF p, q
<1>7. ASSUME NEW k \in 2 .. n + 1 PROVE Inverts(v[k], K[k], K[k - 1]) /\ ~ChecksDrift(v[k])
  <2> PICK i : i = k - 1
    OBVIOUS
  <2>1. i \in 1 .. n /\ k \in 1 .. n + 1 /\ i \in 1 .. n + 1 /\ v[k] = MergeStepRow(S[i], new[i])
    OBVIOUS
  <2> PICK f : f = Taken(S, new, n, i - 1)
    OBVIOUS
  <2> PICK g : g = Taken(S, new, n, i)
    OBVIOUS
  <2>2. K[k] = GraphOf(nd, g, mention, hidden) /\ K[k - 1] = GraphOf(nd, f, mention, hidden)
    BY <1>4, <2>1 DEF E
  <2>3. Inverts(MergeStepRow(S[i], new[i]), GraphOf(nd, g, mention, hidden), GraphOf(nd, f, mention, hidden))
    <3>1. TakenBack(nd, n, S, new, mention, hidden)
      BY TakesBack
    <3> QED
      BY <2>1, <3>1 DEF TakenBack
  <2> QED
    BY <2>1, <2>2, <2>3, RekeyRowChecks
<1>8. Inverts(v[n + 2], K[n + 2], K[n + 1])
  <2>1. Given(m, ids, b) = mention
    BY MentionsGoBack DEF GraphTyped
  <2>2. Inverts(Row("repoint_mentions", b, ids, NoImage), GraphOf(nd, e, m, hidden),
                GraphOf(nd, e, Given(m, ids, b), hidden))
    BY TextInverts, ZenonT(40)
  <2> QED
    BY <1>3, <2>1, <2>2
<1>9. Inverts(v[n + 3], K[n + 3], K[n + 2])
  <2> PICK c : c = Put(nd, b, NoNode)
    OBVIOUS
  <2> PICK y : y = node[b]
    OBVIOUS
  <2>1. Inverts(Row("delete_absorbed", b, y, NoImage), GraphOf(c, e, m, hidden),
                GraphOf(Put(c, b, y), e, m, hidden))
    BY <1>5, AbsorbedInverts
  <2> QED
    BY <1>3, <1>5, <2>1
<1>10. ~ChecksDrift(v[n + 2]) /\ ~ChecksDrift(v[n + 3]) /\ HoldsIn(v[1], h.node)
  <2>2. v[n + 2].op = "repoint_mentions" /\ v[n + 3].op = "delete_absorbed"
    BY RowIs
  <2>3. h.node = Put(nd, b, NoNode)
    BY NodeOf
  <2>4. HoldsIn(v[1], h.node)
    <3> PICK c : c = h.node
      OBVIOUS
    <3>1. c[a] = x /\ x # NoNode /\ \A f \in DOMAIN Images(x) : x[f] = Images(x)[f]
      BY <1>5, <2>3
    <3>2. HoldsIn(Row("merge_consolidate", a, Images(node[a]), Images(x)), c)
      BY <3>1, ConsolidateHolds, ZenonT(40)
    <3> QED
      BY <3>2
  <2> QED
    BY <2>2, <2>4 DEF ChecksDrift
<1>11. ASSUME NEW k \in 1 .. Len(v)
       PROVE  Inverts(v[k], K[k], K[k - 1]) /\ (ChecksDrift(v[k]) => HoldsIn(v[k], h.node))
  <2>1. k = 1 \/ k \in 2 .. n + 1 \/ k = n + 2 \/ k = n + 3
    OBVIOUS
  <2> QED
    BY <1>2, <1>6, <1>7, <1>8, <1>9, <1>10, <2>1, SMTT(30)
<1>12. K[0] = Graph /\ K[Len(v)] = h
  BY <1>3
<1> QED
  BY <1>11, <1>12 DEF Restores

LEMMA MergePlanned ==
  ASSUME GraphTyped, EndsExist, NEW a \in Entities, NEW b \in Entities, a # b, Exists(a), Exists(b),
         NEW kept \in Values \cup {NoValue}, NEW x, x = Consolidated(a, b, kept), NEW S, S = SetToSeq(Incident(b))
  PROVE  Planned(<<Call("update_entity", a, x)>>
                   \o FlattenSeq([i \in DOMAIN S |-> MergeStepCalls(S[i], Swapped(S[i], a, b))])
                   \o <<Call("repoint_mentions", b, a), Call("delete_entity", b, NoImage)>>,
                 <<Row("merge_consolidate", a, Images(node[a]), Images(x))>>
                   \o [i \in DOMAIN S |-> MergeStepRow(S[i], Swapped(S[i], a, b))]
                   \o <<Row("repoint_mentions", b, {}, NoImage), Row("delete_absorbed", b, node[b], NoImage)>>)
<1> PICK n : n = Len(S)
  OBVIOUS
<1> DEFINE new == [i \in 1 .. n |-> Swapped(S[i], a, b)]
           parts == [i \in DOMAIN S |-> MergeStepCalls(S[i], Swapped(S[i], a, b))]
           steps == [i \in DOMAIN S |-> MergeStepRow(S[i], Swapped(S[i], a, b))]
           nd == Put(node, a, x)
           e == Taken(S, new, n, n)
           ids == Naming(mention, b)
           m == Given(mention, ids, a)
           h == GraphOf(Put(nd, b, NoNode), e, m, hidden)
           c1 == Call("update_entity", a, x)
           c2 == Call("repoint_mentions", b, a)
           c3 == Call("delete_entity", b, NoImage)
           row1 == Row("merge_consolidate", a, Images(node[a]), Images(x))
           row2 == Row("repoint_mentions", b, {}, NoImage)
           row3 == Row("delete_absorbed", b, node[b], NoImage)
           told == Row("repoint_mentions", b, ids, NoImage)
           w == <<row1>> \o steps \o <<row2, row3>>
           v == Telling(w, ids)
<1>1. /\ Moving(edge, S, new, Places(new, n), n)
      /\ S \in Seq(Incident(b)) /\ DOMAIN S = 1 .. n
      /\ \A i \in 1 .. n : HasEdge(S[i]) /\ Exists(new[i][1]) /\ Exists(new[i][3])
  BY MergeMoving
<1>2. x \in Node /\ x # NoNode
  BY SurvivorBack
<1>3. \A i \in 1 .. n : new[i] = Swapped(S[i], a, b)
  OBVIOUS
<1> HIDE DEF new
<1>4. n \in Nat /\ \A i \in 1 .. n : S[i] \in Triples /\ new[i] \in Triples
  BY <1>1 DEF Moving
<1>5. \A i \in 1 .. n : /\ MergeStepCalls(S[i], Swapped(S[i], a, b)) \in Seq(GoodCalls)
                        /\ MergeStepRow(S[i], Swapped(S[i], a, b)) \in GoodRows
  BY <1>1, <1>3, <1>4, MergeStepTyped, ZenonT(40)
<1>6. /\ parts \in Seq(Seq(GoodCalls)) /\ Len(parts) = n
      /\ steps \in Seq(GoodRows) /\ Len(steps) = n
      /\ \A i \in 1 .. n : parts[i] = MergeStepCalls(S[i], new[i]) /\ steps[i] = MergeStepRow(S[i], new[i])
  <2>1. parts \in [1 .. n -> Seq(GoodCalls)] /\ steps \in [1 .. n -> GoodRows]
    BY <1>1, <1>5
  <2>2. parts \in Seq(Seq(GoodCalls)) /\ steps \in Seq(GoodRows) /\ Len(parts) = n /\ Len(steps) = n
    <3> HIDE DEF parts, steps
    <3> QED
      BY <1>4, <2>1, SMTT(30)
  <2> QED
    BY <1>1, <1>3, <2>2
<1> HIDE DEF parts, steps
<1>7. TakesOver(nd, n, S, new, parts)
  <2>1. \A z \in Entities : node[z] # NoNode => nd[z] # NoNode
    <3>1. IsFn(node, Entities)
      BY GraphIs
    <3>2. nd[a] = x /\ \A z \in Entities : z # a => nd[z] = node[z]
      BY <3>1, PutIs
    <3> QED
      BY <1>2, <3>2
  <2>2. \A i \in 1 .. n : /\ nd[S[i][1]] # NoNode /\ nd[S[i][3]] # NoNode
                          /\ nd[new[i][1]] # NoNode /\ nd[new[i][3]] # NoNode
    <3> SUFFICES ASSUME NEW i \in 1 .. n
                 PROVE  /\ nd[S[i][1]] # NoNode /\ nd[S[i][3]] # NoNode
                        /\ nd[new[i][1]] # NoNode /\ nd[new[i][3]] # NoNode
      OBVIOUS
    <3>1. S[i][1] \in Entities /\ S[i][3] \in Entities /\ new[i][1] \in Entities /\ new[i][3] \in Entities
      BY <1>4 DEF Triples
    <3>2. Exists(S[i][1]) /\ Exists(S[i][3]) /\ Exists(new[i][1]) /\ Exists(new[i][3])
      BY <1>1, <1>4 DEF EndsExist
    <3> HIDE DEF nd
    <3> QED
      BY <2>1, <3>1, <3>2 DEF Exists
  <2> HIDE DEF nd
  <2> QED
    BY <1>1, <1>6, <2>2 DEF TakesOver
<1>8. c1 \in GoodCalls /\ c2 \in GoodCalls /\ c3 \in GoodCalls
  BY <1>2, MakeCall
<1>9. /\ Len(v) = n + 3 /\ v[1] = row1 /\ v[n + 2] = told /\ v[n + 3] = row3
      /\ \A k \in 2 .. n + 1 : v[k] = MergeStepRow(S[k - 1], new[k - 1])
      /\ w # <<>> /\ v # <<>>
  <2>1. row1.op # "repoint_mentions" /\ row3.op # "repoint_mentions" /\ row2.op = "repoint_mentions"
        /\ [row2 EXCEPT !.before = ids] = told
    BY RowIs DEF Row
  <2>2. ASSUME NEW i \in 1 .. Len(steps) PROVE steps[i].op # "repoint_mentions"
    <3>1. steps[i] = MergeStepRow(S[i], new[i])
      BY <1>6
    <3> QED
      BY <3>1, RekeyRowChecks
  <2> HIDE DEF row1, row2, row3, told, ids
  <2>3. PICK s : s = w
    OBVIOUS
  <2>4. PICK t : t = Telling(s, ids)
    OBVIOUS
  <2>5. /\ Len(s) = Len(steps) + 3 /\ Len(t) = Len(steps) + 3
        /\ t[1] = row1 /\ t[Len(steps) + 2] = told /\ t[Len(steps) + 3] = row3
        /\ \A k \in 2 .. Len(steps) + 1 : t[k] = steps[k - 1]
    <3>1. Quiet(steps) /\ steps \in Seq(GoodRows)
      BY <1>6, <2>2 DEF Quiet
    <3>2. Filled(steps, row1, told, row3, s, t)
      BY <2>1, <2>3, <2>4, <3>1, ToldRows
    <3> QED
      BY <3>2 DEF Filled
  <2>6. v = t /\ w = s
    BY <2>3, <2>4
  <2> HIDE DEF v, w
  <2>7. \A k \in 2 .. n + 1 : k - 1 \in 1 .. n
    BY <1>4
  <2>8. n + 3 # 0
    BY <1>4
  <2>9. w # <<>> /\ v # <<>>
    BY <1>6, <2>5, <2>6, <2>8
  <2> QED
    BY <1>6, <2>1, <2>5, <2>6, <2>7, <2>9
<1>10. Runs(<<c1>> \o FlattenSeq(parts) \o <<c2, c3>>, Graph, w, h, v)
  <2> HIDE DEF w
  <2> QED
    BY <1>2, <1>3, <1>7, <1>8, MergeRuns DEF new
<1>11. Restores(v, Graph, h)
  <2> HIDE DEF v
  <2>1. MergeRows(a, b, x, S, n, new, ids, v)
    <3> HIDE DEF ids
    <3> QED
      BY <1>4, <1>9 DEF MergeRows
  <2> QED
    BY <1>7, <2>1, MergeRestores DEF new
<1> HIDE DEF w, v, h
<1>12. Planned(<<c1>> \o FlattenSeq(parts) \o <<c2, c3>>, w)
  BY <1>9, <1>10, <1>11 DEF Planned, Leads
<1> QED
  BY <1>12 DEF w, parts, steps

-----------------------------------------------------------------------------
(* Every operation knows its way back *)

(* The request after an operation has begun, and what it has yet to do.    *)
Started(r) ==
  \E calls, seed, rows :
    /\ Begin(r, calls, seed, rows) /\ Planned(calls, rows)
    /\ seed[1] = "relabel" => rows = <<>>

LEMMA EntityStarts ==
  ASSUME GraphTyped, EndsExist, NEW r \in Requests
  PROVE  /\ \A e \in Entities, patch \in Patches : EditEntity(r, e, patch) => Started(r)
         /\ \A from, to \in Types : RelabelEntityType(r, from, to) => Started(r)
         /\ \A b, a \in Entities, kept \in Values \cup {NoValue} : MergeEntities(r, b, a, kept) => Started(r)
         /\ \A e \in Entities : DeleteEntity(r, e) => Started(r)
<1>1. ASSUME NEW e \in Entities, NEW patch \in Patches, EditEntity(r, e, patch) PROVE Started(r)
  <2> DEFINE C == {f \in DOMAIN patch : patch[f] # node[e][f]}
  <2>1. patch \in Fields
    BY PatchesAssumption
  <2>2. /\ Exists(e)
        /\ Begin(r, <<Call("update_entity", e, Over(patch, node[e]))>>, Single,
                 <<Row("edit_fields", e, [f \in C |-> node[e][f]], [f \in C |-> patch[f]])>>)
    BY <1>1 DEF EditEntity
  <2>3. Planned(<<Call("update_entity", e, Over(patch, node[e]))>>,
                <<Row("edit_fields", e, [f \in C |-> node[e][f]], [f \in C |-> patch[f]])>>)
    BY <2>1, <2>2, EditPlanned
  <2> QED
    BY <2>2, <2>3 DEF Started, Single
<1>2. ASSUME NEW from \in Types, NEW to \in Types, RelabelEntityType(r, from, to) PROVE Started(r)
  BY <1>2, RelabelPlanned DEF RelabelEntityType, Started, Single
<1>3. ASSUME NEW b \in Entities, NEW a \in Entities, NEW kept \in Values \cup {NoValue}, MergeEntities(r, b, a, kept)
      PROVE  Started(r)
  <2> PICK S : S = SetToSeq(Incident(b))
    OBVIOUS
  <2> PICK x : x = Consolidated(a, b, kept)
    OBVIOUS
  <2> DEFINE calls == <<Call("update_entity", a, x)>>
                        \o FlattenSeq([i \in DOMAIN S |-> MergeStepCalls(S[i], Swapped(S[i], a, b))])
                        \o <<Call("repoint_mentions", b, a), Call("delete_entity", b, NoImage)>>
             rows == <<Row("merge_consolidate", a, Images(node[a]), Images(x))>>
                       \o [i \in DOMAIN S |-> MergeStepRow(S[i], Swapped(S[i], a, b))]
                       \o <<Row("repoint_mentions", b, {}, NoImage), Row("delete_absorbed", b, node[b], NoImage)>>
  <2>1. a # b /\ Exists(a) /\ Exists(b) /\ Begin(r, calls, <<"merge", b, a>>, rows)
    BY <1>3 DEF MergeEntities
  <2>2. Planned(calls, rows)
    BY <2>1, MergePlanned
  <2> HIDE DEF calls, rows
  <2> QED
    BY <2>1, <2>2 DEF Started, Single
<1>4. ASSUME NEW e \in Entities, DeleteEntity(r, e) PROVE Started(r)
  <2> DEFINE calls == <<Call("delete_mentions_for_entity", e, NoImage), Call("delete_entity", e, NoImage)>>
             rows == <<Row("delete_mentions", e, Restrict(mention, MentionsOf(e)), NoImage),
                       Row("delete_relations", e, Restrict(edge, Incident(e)), NoImage),
                       Row("delete_entity", e, node[e], NoImage)>>
  <2>1. Exists(e) /\ Begin(r, calls, <<"delete", e>>, rows)
    BY <1>4 DEF DeleteEntity
  <2>2. Planned(calls, rows)
    BY <2>1, DeletePlanned
  <2> HIDE DEF calls, rows
  <2> QED
    BY <2>1, <2>2 DEF Started, Single
<1> QED
  BY <1>1, <1>2, <1>3, <1>4

LEMMA RelationStarts ==
  ASSUME GraphTyped, EndsExist, NEW r \in Requests
  PROVE  /\ \A t \in Triples : AddRelation(r, t) \/ RemoveRelation(r, t) => Started(r)
         /\ \A old, new \in Triples : RetargetRelation(r, old, new) => Started(r)
         /\ \A p, q \in Predicates : RenamePredicate(r, p, q) => Started(r)
<1>1. ASSUME NEW t \in Triples, AddRelation(r, t) PROVE Started(r)
  <2>1. minted + 1 \in Nat
    BY DEF GraphTyped
  <2> QED
    BY <1>1, <2>1, AddPlanned DEF AddRelation, Started, Single
<1>2. ASSUME NEW t \in Triples, RemoveRelation(r, t) PROVE Started(r)
  BY <1>2, RemovePlanned DEF RemoveRelation, Started, Single
<1>3. ASSUME NEW old \in Triples, NEW new \in Triples, RetargetRelation(r, old, new) PROVE Started(r)
  BY <1>3, RetargetPlanned DEF RetargetRelation, Started, Single
<1>4. ASSUME NEW p \in Predicates, NEW q \in Predicates, RenamePredicate(r, p, q) PROVE Started(r)
  <2> PICK S : S = SetToSeq({t \in Triples : HasEdge(t) /\ t[2] = p})
    OBVIOUS
  <2> DEFINE calls == FlattenSeq([i \in DOMAIN S |-> Rekey(S[i], <<S[i][1], q, S[i][3]>>, i)])
             rows == [i \in DOMAIN S |-> RekeyRow(S[i], <<S[i][1], q, S[i][3]>>)]
  <2>1. p # q /\ S # <<>> /\ Begin(r, calls, <<"rename", p, q>>, rows)
    BY <1>4 DEF RenamePredicate
  <2>2. Planned(calls, rows)
    BY <2>1, RenamePlanned
  <2> HIDE DEF calls, rows
  <2> QED
    BY <2>1, <2>2 DEF Started, Single
<1> QED
  BY <1>1, <1>2, <1>3, <1>4

LEMMA TextStarts ==
  ASSUME GraphTyped, EndsExist, NEW r \in Requests
  PROVE  /\ \A e \in Entities, s \in Spans : TagExisting(r, e, s) => Started(r)
         /\ \A s \in Spans, type \in Types : TagNewEntity(r, s, type) => Started(r)
         /\ \A s \in Spans, who \in Entities \cup {Everyone} : SuppressOccurrence(r, s, who) => Started(r)
         /\ \A s \in Spans, from, to \in Entities : RetagOccurrence(r, s, from, to) => Started(r)
         /\ \A id \in MentionIds, s \in Spans : MoveBoundaries(r, id, s) => Started(r)
         /\ \A e \in Entities, old, new \in Spans : MaterializeBoundaries(r, e, old, new) => Started(r)
<1>1. ASSUME NEW e \in Entities, NEW s \in Spans, TagExisting(r, e, s) PROVE Started(r)
  BY <1>1, TagPlanned DEF TagExisting, Started, Single
<1>2. ASSUME NEW s \in Spans, NEW type \in Types, TagNewEntity(r, s, type) PROVE Started(r)
  <2> PICK e : e = TagEntity[s]
    OBVIOUS
  <2> PICK x : x = [type |-> type, name |-> Named[s], aliases |-> {}, prop |-> NoValue]
    OBVIOUS
  <2>1. e \in Entities /\ x \in Node
    BY ConstantsAssumption DEF ConstantsAssumption, Node
  <2>2. Begin(r, <<Call("create_entity", e, x), AddManual(e, s)>>, <<"tagnew", s>>,
              <<Row("create_entity_from_tag", e, NoImage, x), Row("add_mention", <<e, s>>, NoImage, NoImage)>>)
    BY <1>2 DEF TagNewEntity
  <2> QED
    <3> DEFINE seed == <<"tagnew", s>>
               calls == <<Call("create_entity", e, x), AddManual(e, s)>>
               rows == <<Row("create_entity_from_tag", e, NoImage, x), Row("add_mention", <<e, s>>, NoImage, NoImage)>>
    <3>1. Planned(calls, rows)
      BY <2>1, <2>2, TagNewPlanned
    <3>2. seed[1] # "relabel" /\ Begin(r, calls, seed, rows)
      BY <2>2
    <3> HIDE DEF seed, calls, rows
    <3> QED
      BY <3>1, <3>2 DEF Started
<1>3. ASSUME NEW s \in Spans, NEW who \in Entities \cup {Everyone}, SuppressOccurrence(r, s, who) PROVE Started(r)
  <2> PICK x : x = <<s, who>>
    OBVIOUS
  <2>1. Begin(r, <<Call("add_suppression", x, NoImage)>>, Single, <<Row("suppress_span", x, NoImage, NoImage)>>)
    BY <1>3 DEF SuppressOccurrence
  <2> QED
    BY <2>1, SuppressPlanned DEF Started, Single
<1>4. ASSUME NEW s \in Spans, NEW from \in Entities, NEW to \in Entities, RetagOccurrence(r, s, from, to)
      PROVE  Started(r)
  BY <1>4, RetagPlanned DEF RetagOccurrence, Started, Single
<1>5. ASSUME NEW id \in MentionIds, NEW s \in Spans, MoveBoundaries(r, id, s) PROVE Started(r)
  BY <1>5, MovePlanned DEF MoveBoundaries, Started, Single
<1>6. ASSUME NEW e \in Entities, NEW old \in Spans, NEW new \in Spans, MaterializeBoundaries(r, e, old, new)
      PROVE  Started(r)
  BY <1>6, MaterializePlanned DEF MaterializeBoundaries, Started, Single
<1> QED
  BY <1>1, <1>2, <1>3, <1>4, <1>5, <1>6

LEMMA OperationStarts ==
  ASSUME GraphTyped, EndsExist, NEW r \in Requests, Operation(r)
  PROVE  Started(r)
BY EntityStarts, RelationStarts, TextStarts DEF Operation

-----------------------------------------------------------------------------
(* The inverse of what the log has of an operation *)

Entry(op, at, v, j) == [op |-> op, seq |-> j, at |-> at, undone |-> FALSE, row |-> v[j]]
Logged(op, at, v) == {Entry(op, at, v, j) : j \in 1 .. Len(v)}

(* The rows from the last to the first.                                    *)
Backward(op, at, v) == [i \in 1 .. Len(v) |-> Entry(op, at, v, Len(v) + 1 - i)]

LEMMA LoggedBackward ==
  ASSUME NEW op, NEW at, NEW v \in Seq(GoodRows)
  PROVE  HighestFirst(Logged(op, at, v)) = Backward(op, at, v)
<1> DEFINE S == Logged(op, at, v)
           g == Backward(op, at, v)
           f == [j \in 1 .. Len(v) |-> Entry(op, at, v, j)]
<1> PICK n : n = Len(v)
  OBVIOUS
<1>1. n \in Nat /\ IsFiniteSet(1 .. n) /\ Cardinality(1 .. n) = n
  <2>1. n \in Nat
    OBVIOUS
  <2>2. \A m \in Nat : IsFiniteSet(1 .. m) /\ Cardinality(1 .. m) = m
    <3> TAKE m \in Nat
    <3>1. 1 \in Int /\ m \in Int
      OBVIOUS
    <3>2. IsFiniteSet(1 .. m) /\ Cardinality(1 .. m) = IF 1 > m THEN 0 ELSE m - 1 + 1
      BY <3>1, FS_Interval
    <3> QED
      BY <3>2
  <2> QED
    BY <2>1, <2>2
<1>2. \A j \in 1 .. n : Entry(op, at, v, j) \in S /\ Entry(op, at, v, j).seq = j
  BY DEF Logged, Entry
<1>3. \A x \in S : \E j \in 1 .. n : x = Entry(op, at, v, j)
  BY DEF Logged
<1>4. f \in [1 .. n -> S] /\ \A j \in 1 .. n : f[j] = Entry(op, at, v, j)
  BY <1>2
<1>5. g \in [1 .. n -> S] /\ \A i \in 1 .. n : g[i] = Entry(op, at, v, n + 1 - i)
  <2>1. \A i \in 1 .. n : n + 1 - i \in 1 .. n
    BY <1>1
  <2> QED
    BY <1>2, <2>1 DEF Backward
<1> HIDE DEF S, f, g
<1>6. \A i, j \in 1 .. n : f[i] = f[j] => i = j
  BY <1>2, <1>4
<1>7. f \in Bijection(1 .. n, S)
  BY <1>3, <1>4, <1>6 DEF Bijection, Injection, Surjection, IsInjective
<1>8. IsFiniteSet(S) /\ n = Cardinality(S)
  BY <1>1, <1>7, FS_Bijection DEF ExistsBijection
<1>9. \A x \in S : x.seq \in Nat
  BY <1>1, <1>2, <1>3
<1>10. \A i, j \in 1 .. n : i < j => g[i].seq > g[j].seq
  <2>1. \A i \in 1 .. n : g[i].seq = n + 1 - i
    <3>1. \A i \in 1 .. n : n + 1 - i \in 1 .. n
      BY <1>1
    <3> QED
      BY <1>2, <1>5, <3>1
  <2> QED
    BY <1>1, <2>1
<1>11. HighestFirst(S) = g
  BY <1>5, <1>8, <1>9, <1>10, HighestFirstSorts
<1> QED
  BY <1>11 DEF S, g

(* The calls of an undo restore the graph.                                 *)
LEMMA PlanRestores ==
  ASSUME NEW op, NEW at, NEW v \in Seq(GoodRows), NEW b, NEW h, Restores(v, b, h)
  PROVE  Runs(InversePlan(Logged(op, at, v)), h, <<>>, b, <<>>)
<1> PICK n : n = Len(v)
  OBVIOUS
<1> PICK K : /\ K[0] = b /\ K[n] = h
             /\ \A i \in 1 .. n : Inverts(v[i], K[i], K[i - 1])
  BY DEF Restores
<1> DEFINE H == HighestFirst(Logged(op, at, v))
           parts == [i \in DOMAIN H |-> InverseOf(H[i].row)]
           f == [i \in 0 .. n |-> K[n - i]]
           k == [i \in 0 .. n |-> <<>>]
<1>1. H = Backward(op, at, v)
  BY LoggedBackward
<1>2. n \in Nat /\ DOMAIN H = 1 .. n
  BY <1>1 DEF Backward
<1>3. \A i \in 1 .. n : H[i].row = v[n + 1 - i]
  BY <1>1, <1>2 DEF Backward, Entry
<1> HIDE DEF H
<1>4. /\ DOMAIN parts = 1 .. n
      /\ \A i \in 1 .. n : parts[i] = InverseOf(v[n + 1 - i])
  BY <1>2, <1>3
<1>5. \A i \in 1 .. n : n + 1 - i \in 1 .. n
  BY <1>2
<1>6. \A i \in 1 .. n : v[i] \in GoodRows
  OBVIOUS
<1>7. \A i \in 1 .. n : parts[i] \in Seq(GoodCalls)
  BY <1>4, <1>5, <1>6, InverseTyped
<1>8. parts = [i \in 1 .. n |-> parts[i]]
  BY <1>2
<1> HIDE DEF parts
<1>9. parts \in Seq(Seq(GoodCalls)) /\ Len(parts) = n
  BY <1>2, <1>7, <1>8
<1>10. f[0] = h /\ f[n] = b /\ k[0] = <<>> /\ k[n] = <<>>
  BY <1>2
<1>11. ASSUME NEW i \in 1 .. n PROVE Runs(parts[i], f[i - 1], k[i - 1], f[i], k[i])
  <2>1. n + 1 - i \in 1 .. n /\ (n + 1 - i) - 1 = n - i /\ n - (i - 1) = n + 1 - i /\ i \in 0 .. n /\ i - 1 \in 0 .. n
    BY <1>2
  <2>2. f[i - 1] = K[n + 1 - i] /\ f[i] = K[n - i] /\ k[i - 1] = <<>> /\ k[i] = <<>>
    BY <2>1
  <2>3. Inverts(v[n + 1 - i], K[n + 1 - i], K[n - i])
    BY <2>1
  <2> HIDE DEF f, k
  <2> QED
    BY <1>4, <2>2, <2>3 DEF Inverts
<1> HIDE DEF f, k
<1>12. Runs(FlattenSeq(parts), f[0], k[0], f[n], k[n])
  BY <1>9, <1>11, RunsFlat
<1> QED
  BY <1>10, <1>12 DEF InversePlan, parts, H

(* The drift check lets it through.                                        *)
LEMMA RestoresHolds ==
  ASSUME NEW op, NEW at, NEW v \in Seq(GoodRows), NEW b, Restores(v, b, Graph), LatestRows = Logged(op, at, v)
  PROVE  ~Drifted
<1>1. \A l \in LatestRows : \E j \in 1 .. Len(v) : l.row = v[j]
  BY DEF Logged, Entry
<1>2. \A l \in LatestRows : ChecksDrift(l.row) => HoldsIn(l.row, node)
  BY <1>1 DEF Restores, Graph
<1>3. \A row : HoldsIn(row, node) => Holds(row)
  BY DEF HoldsIn, Holds, Matches, Exists
<1> QED
  BY <1>2, <1>3 DEF Drifted

(* No inverse call is a relabel.                                           *)
Backwards == {c \in GoodCalls : c.do # "relabel_entity_type"}

LEMMA PlanBackwards ==
  ASSUME NEW rows, OneOperation(rows)
  PROVE  InversePlan(rows) \in Seq(Backwards)
<1> DEFINE H == HighestFirst(rows)
           parts == [i \in DOMAIN H |-> InverseOf(H[i].row)]
<1>1. H \in Seq(rows)
  BY HighestFirstIs DEF OneOperation
<1> HIDE DEF H
<1>2. ASSUME NEW row \in GoodRows PROVE InverseOf(row) \in Seq(Backwards)
  <2> DEFINE inv == InverseOf(row)
  <2>1. inv \in Seq(GoodCalls)
    BY InverseTyped
  <2>2. \A j \in 1 .. Len(inv) : inv[j].do # "relabel_entity_type"
    BY InverseNames
  <2> HIDE DEF inv
  <2>3. \A j \in 1 .. Len(inv) : inv[j] \in Backwards
    BY <2>1, <2>2 DEF Backwards
  <2>4. inv \in Seq(Backwards)
    BY <2>1, <2>3
  <2> QED
    BY <2>4 DEF inv
<1>3. \A i \in DOMAIN H : InverseOf(H[i].row) \in Seq(Backwards)
  BY <1>1, <1>2 DEF OneOperation
<1>4. parts \in Seq(Seq(Backwards))
  BY <1>1, <1>3
<1> HIDE DEF parts
<1>5. FlattenSeq(parts) \in Seq(Backwards)
  BY <1>4, FlattenType
<1> QED
  BY <1>5 DEF InversePlan, parts, H

-----------------------------------------------------------------------------
(* The stack of operations that can be taken back *)

OfOp(g, op) == {l \in g : l.op = op}

(* The log g has all rows of each operation of t, at its time; what else   *)
(* is live is older; and each operation can be taken back from the graph   *)
(* that the next one was begun on, the last one from the graph x.          *)
Linked(t, g, x, at, rows) ==
  /\ \E S : t \in Seq(S)
  /\ \A i \in 1 .. Len(t) :
       /\ at[i] \in Nat /\ rows[i] \in Seq(GoodRows) /\ rows[i] # <<>>
       /\ OfOp(g, t[i].op) = Logged(t[i].op, at[i], rows[i])
       /\ \A l \in g : ~l.undone /\ l.at >= at[i] => \E j \in i .. Len(t) : l.op = t[j].op
       /\ Restores(rows[i], t[i].before, IF i = Len(t) THEN x ELSE t[i + 1].before)
  /\ \A i, j \in 1 .. Len(t) : i < j => at[i] < at[j]

Stacked(t, g, x) == \E at, rows : Linked(t, g, x, at, rows)

LEMMA NothingStacked ==
  ASSUME NEW g, NEW x
  PROVE  Stacked(<<>>, g, x)
<1> DEFINE at == [i \in 1 .. 0 |-> 0]
<1>1. Len(<<>>) = 0 /\ (\A i \in 1 .. 0 : FALSE) /\ <<>> \in Seq({})
  OBVIOUS
<1>2. Linked(<<>>, g, x, at, at)
  <2> HIDE DEF at
  <2>1. \E S : <<>> \in Seq(S)
    BY <1>1
  <2> QED
    BY <1>1, <2>1 DEF Linked
<1> HIDE DEF at
<1> QED
  BY <1>2 DEF Stacked

(* The log has a row of each of them, and the rows of two are different.   *)
LEMMA StackHas ==
  ASSUME NEW t, NEW g, NEW x, NEW at, NEW rows, Linked(t, g, x, at, rows), NEW i \in 1 .. Len(t)
  PROVE  /\ \E l \in g : l.op = t[i].op /\ l.at = at[i] /\ ~l.undone
         /\ \A l \in g : l.op = t[i].op => l.at = at[i] /\ ~l.undone
<1>1. /\ rows[i] \in Seq(GoodRows) /\ rows[i] # <<>>
      /\ OfOp(g, t[i].op) = Logged(t[i].op, at[i], rows[i])
  BY DEF Linked
<1>2. 1 \in 1 .. Len(rows[i])
  BY <1>1
<1>3. \A j \in 1 .. Len(rows[i]) : Entry(t[i].op, at[i], rows[i], j) \in Logged(t[i].op, at[i], rows[i])
  BY DEF Logged
<1>4. \A l \in Logged(t[i].op, at[i], rows[i]) : l.op = t[i].op /\ l.at = at[i] /\ ~l.undone
  BY DEF Logged, Entry
<1>5. Entry(t[i].op, at[i], rows[i], 1) \in OfOp(g, t[i].op)
  BY <1>1, <1>2, <1>3
<1>6. \A l \in OfOp(g, t[i].op) : l.op = t[i].op /\ l.at = at[i] /\ ~l.undone
  BY <1>1, <1>4
<1>7. \A l : l \in OfOp(g, t[i].op) <=> l \in g /\ l.op = t[i].op
  BY DEF OfOp
<1> QED
  BY <1>5, <1>6, <1>7

(* An operation that is logged last goes on top.                           *)
LEMMA StackGrows ==
  ASSUME NEW t, NEW g, NEW x, Stacked(t, g, x), \A l \in g : l.at \in Nat,
         NEW op, NEW time \in Nat, NEW v \in Seq(GoodRows), v # <<>>, NEW y, Restores(v, x, y),
         OfOp(g, op) = {}, \A l \in g : l.at < time,
         NEW u, u = Append(t, [op |-> op, before |-> x]),
         NEW h, h = g \cup Logged(op, time, v)
  PROVE  Stacked(u, h, y)
<1> PICK at, rows : Linked(t, g, x, at, rows)
  BY DEF Stacked
<1> PICK n : n = Len(t)
  OBVIOUS
<1> PICK s : s = [op |-> op, before |-> x]
  OBVIOUS
<1>1. PICK S : t \in Seq(S)
  BY DEF Linked
<1>2. n \in Nat /\ s.op = op /\ s.before = x
  BY <1>1
<1>3. u \in Seq(S \cup {s}) /\ Len(u) = n + 1 /\ u[n + 1] = s /\ \A i \in 1 .. n : u[i] = t[i]
  <2>1. t \in Seq(S \cup {s})
    BY <1>1
  <2> QED
    BY <2>1
<1> DEFINE at2 == [i \in 1 .. n + 1 |-> IF i = n + 1 THEN time ELSE at[i]]
           rows2 == [i \in 1 .. n + 1 |-> IF i = n + 1 THEN v ELSE rows[i]]
<1>4. at2[n + 1] = time /\ rows2[n + 1] = v /\ \A i \in 1 .. n : at2[i] = at[i] /\ rows2[i] = rows[i]
  <2>1. n + 1 \in 1 .. n + 1 /\ \A i \in 1 .. n : i \in 1 .. n + 1 /\ i # n + 1
    BY <1>2
  <2> QED
    BY <2>1
<1> HIDE DEF at2, rows2
<1>5. \A l \in Logged(op, time, v) : l.op = op /\ l.at = time
  BY DEF Logged, Entry
<1>6. \A l : l \in OfOp(g, op) <=> l \in g /\ l.op = op
  BY DEF OfOp
<1>7. OfOp(h, op) = Logged(op, time, v)
  BY <1>5, <1>6 DEF OfOp
<1>8. \A i \in 1 .. n : at[i] \in Nat /\ at[i] < time /\ t[i].op # op
  <2> TAKE i \in 1 .. n
  <2>1. PICK l \in g : l.op = t[i].op /\ l.at = at[i] /\ ~l.undone
    BY StackHas
  <2> QED
    BY <1>6, <2>1
<1>9. \A i \in 1 .. n : OfOp(h, t[i].op) = OfOp(g, t[i].op)
  BY <1>5, <1>8 DEF OfOp
<1>10. ASSUME NEW i \in 1 .. n
       PROVE  /\ at[i] \in Nat /\ rows[i] \in Seq(GoodRows) /\ rows[i] # <<>>
              /\ OfOp(h, t[i].op) = Logged(t[i].op, at[i], rows[i])
              /\ \A l \in h : ~l.undone /\ l.at >= at[i] => \E j \in i .. n + 1 : l.op = u[j].op
              /\ Restores(rows[i], t[i].before, u[i + 1].before)
  <2>1. /\ at[i] \in Nat /\ rows[i] \in Seq(GoodRows) /\ rows[i] # <<>>
        /\ OfOp(g, t[i].op) = Logged(t[i].op, at[i], rows[i])
        /\ \A l \in g : ~l.undone /\ l.at >= at[i] => \E j \in i .. n : l.op = t[j].op
        /\ Restores(rows[i], t[i].before, IF i = n THEN x ELSE t[i + 1].before)
    BY DEF Linked
  <2>2. OfOp(h, t[i].op) = Logged(t[i].op, at[i], rows[i])
    BY <1>9, <2>1
  <2>3. ASSUME NEW l \in h, ~l.undone, l.at >= at[i] PROVE \E j \in i .. n + 1 : l.op = u[j].op
    <3>1. CASE l \in g
      <4>1. PICK j \in i .. n : l.op = t[j].op
        BY <2>1, <2>3, <3>1
      <4>2. j \in 1 .. n /\ j \in i .. n + 1
        BY <1>2
      <4> QED
        BY <1>3, <4>1, <4>2
    <3>2. CASE l \notin g
      <4>1. l.op = u[n + 1].op /\ n + 1 \in i .. n + 1
        BY <1>2, <1>3, <1>5, <3>2
      <4> QED
        BY <4>1
    <3> QED
      BY <3>1, <3>2
  <2>4. (IF i = n THEN x ELSE t[i + 1].before) = u[i + 1].before
    <3>1. i # n => i + 1 \in 1 .. n
      BY <1>2
    <3> QED
      BY <1>2, <1>3, <3>1
  <2> QED
    BY <2>1, <2>2, <2>3, <2>4
<1>11. ASSUME NEW i \in 1 .. n + 1
       PROVE  /\ at2[i] \in Nat /\ rows2[i] \in Seq(GoodRows) /\ rows2[i] # <<>>
              /\ OfOp(h, u[i].op) = Logged(u[i].op, at2[i], rows2[i])
              /\ \A l \in h : ~l.undone /\ l.at >= at2[i] => \E j \in i .. n + 1 : l.op = u[j].op
              /\ Restores(rows2[i], u[i].before, IF i = n + 1 THEN y ELSE u[i + 1].before)
  <2>1. CASE i \in 1 .. n
    <3>1. i # n + 1 /\ at2[i] = at[i] /\ rows2[i] = rows[i] /\ u[i] = t[i]
      BY <1>2, <1>3, <1>4, <2>1
    <3> QED
      BY <1>10, <2>1, <3>1, ZenonT(40)
  <2>2. CASE i \notin 1 .. n
    <3>1. i = n + 1
      BY <1>2, <2>2
    <3>2. u[i].op = op /\ u[i].before = x /\ at2[i] = time /\ rows2[i] = v
      BY <1>2, <1>3, <1>4, <3>1
    <3>3. ASSUME NEW l \in h, l.at >= time PROVE \E j \in i .. n + 1 : l.op = u[j].op
      <4>1. l \notin g
        BY <3>3
      <4>2. l.op = op
        BY <1>5, <4>1
      <4> QED
        BY <1>2, <3>1, <3>2, <4>2
    <3> QED
      BY <1>7, <3>1, <3>2, <3>3
  <2> QED
    BY <2>1, <2>2
<1>12. ASSUME NEW i \in 1 .. n + 1, NEW j \in 1 .. n + 1, i < j PROVE at2[i] < at2[j]
  <2>1. i \in 1 .. n
    BY <1>2, <1>12
  <2>2. CASE j \in 1 .. n
    BY <1>4, <1>12, <2>1, <2>2 DEF Linked
  <2>3. CASE j = n + 1
    BY <1>4, <1>8, <2>1, <2>3
  <2> QED
    BY <1>2, <2>2, <2>3
<1>13. \E T : u \in Seq(T)
  BY <1>3
<1>14. Linked(u, h, y, at2, rows2)
  <2>1. n + 1 = Len(u)
    BY <1>3
  <2>2. ASSUME NEW i \in 1 .. Len(u)
        PROVE  /\ at2[i] \in Nat /\ rows2[i] \in Seq(GoodRows) /\ rows2[i] # <<>>
               /\ OfOp(h, u[i].op) = Logged(u[i].op, at2[i], rows2[i])
               /\ \A l \in h : ~l.undone /\ l.at >= at2[i] => \E j \in i .. Len(u) : l.op = u[j].op
               /\ Restores(rows2[i], u[i].before, IF i = Len(u) THEN y ELSE u[i + 1].before)
    <3>1. i \in 1 .. n + 1
      BY <2>1
    <3>2. (IF i = Len(u) THEN y ELSE u[i + 1].before) = IF i = n + 1 THEN y ELSE u[i + 1].before
      BY <2>1
    <3>3. Restores(rows2[i], u[i].before, IF i = n + 1 THEN y ELSE u[i + 1].before)
      BY <1>11, <3>1
    <3>4. Restores(rows2[i], u[i].before, IF i = Len(u) THEN y ELSE u[i + 1].before)
      BY <3>2, <3>3
    <3>5. ASSUME NEW l \in h, ~l.undone, l.at >= at2[i] PROVE \E j \in i .. Len(u) : l.op = u[j].op
      <4>1. PICK j \in i .. n + 1 : l.op = u[j].op
        BY <1>11, <3>1, <3>5
      <4> QED
        BY <2>1, <4>1
    <3> QED
      BY <1>11, <3>1, <3>4, <3>5
  <2>3. \A i, j \in 1 .. Len(u) : i < j => at2[i] < at2[j]
    BY <1>12, <2>1
  <2> QED
    BY <1>13, <2>2, <2>3 DEF Linked
<1> QED
  BY <1>14 DEF Stacked

Marked(l, op) == [l EXCEPT !.undone = @ \/ l.op = op]

LEMMA MarkedIs ==
  ASSUME NEW op, NEW l, l.undone \in BOOLEAN,
         l = [op |-> l.op, seq |-> l.seq, at |-> l.at, undone |-> l.undone, row |-> l.row]
  PROVE  /\ Marked(l, op).op = l.op /\ Marked(l, op).at = l.at
         /\ ~Marked(l, op).undone => ~l.undone /\ l.op # op
         /\ l.op # op => Marked(l, op) = l
<1>1. PICK o, q, a, b, w : l = [op |-> o, seq |-> q, at |-> a, undone |-> b, row |-> w]
  OBVIOUS
<1>2. l.op = o /\ l.at = a /\ l.undone = b /\ b \in BOOLEAN
  BY <1>1
<1> PICK x : x = (l.undone \/ l.op = op)
  OBVIOUS
<1>3. Marked(l, op) = [op |-> o, seq |-> q, at |-> a, undone |-> x, row |-> w]
  <2>1. Marked(l, op) = [l EXCEPT !.undone = x]
    BY DEF Marked
  <2> QED
    BY <1>1, <2>1
<1>4. Marked(l, op).op = o /\ Marked(l, op).at = a /\ Marked(l, op).undone = x
  BY <1>3
<1>5. ~x => ~l.undone /\ l.op # op
  OBVIOUS
<1>6. ASSUME l.op # op PROVE Marked(l, op) = l
  <2>1. x = b
    BY <1>2, <1>6
  <2> QED
    BY <1>1, <1>3, <2>1
<1> QED
  BY <1>2, <1>4, <1>5, <1>6

(* An operation that is marked undone leaves the top.                      *)
LEMMA StackShrinks ==
  ASSUME NEW t, NEW g, NEW x, Stacked(t, g, x), t # <<>>,
         \A l \in g : /\ l.undone \in BOOLEAN
                      /\ l = [op |-> l.op, seq |-> l.seq, at |-> l.at, undone |-> l.undone, row |-> l.row],
         NEW h, h = {Marked(l, Last(t).op) : l \in g},
         NEW u, u = Front(t)
  PROVE  Stacked(u, h, Last(t).before)
<1> PICK at, rows : Linked(t, g, x, at, rows)
  BY DEF Stacked
<1> PICK n : n = Len(t)
  OBVIOUS
<1> PICK op : op = Last(t).op
  OBVIOUS
<1> PICK m : m = n - 1
  OBVIOUS
<1>1. PICK S : t \in Seq(S)
  BY DEF Linked
<1>2. n \in Nat /\ n # 0 /\ m \in Nat /\ n \in 1 .. n /\ m + 1 = n /\ op = t[n].op /\ Last(t) = t[n]
  BY <1>1 DEF Last
<1>3. u \in Seq(S) /\ Len(u) = m /\ \A i \in 1 .. m : i \in 1 .. n /\ u[i] = t[i]
  <2>1. u = [i \in 1 .. m |-> t[i]]
    BY <1>2 DEF Front, SubSeq
  <2>2. \A i \in 1 .. m : i \in 1 .. n /\ t[i] \in S
    BY <1>1, <1>2
  <2>3. u \in [1 .. m -> S] /\ \A i \in 1 .. m : u[i] = t[i]
    BY <2>1, <2>2
  <2> QED
    BY <1>2, <2>2, <2>3
<1>4. \A l \in g : /\ Marked(l, op).op = l.op /\ Marked(l, op).at = l.at
                   /\ ~Marked(l, op).undone => ~l.undone /\ l.op # op
                   /\ l.op # op => Marked(l, op) = l
  BY MarkedIs
<1>5. \A l \in h : \E k \in g : l = Marked(k, op)
  OBVIOUS
<1>6. \A k \in g : Marked(k, op) \in h
  OBVIOUS
<1>7. ASSUME NEW i \in 1 .. m PROVE t[i].op # op
  <2>1. i \in 1 .. n /\ i < n
    BY <1>2
  <2>2. at[i] \in Nat /\ at[n] \in Nat /\ at[i] < at[n]
    BY <1>2, <2>1 DEF Linked
  <2>3. PICK l \in g : l.op = t[i].op /\ l.at = at[i]
    BY <2>1, StackHas
  <2>4. l.op = t[n].op => l.at = at[n]
    BY <1>2, StackHas
  <2> QED
    BY <1>2, <2>2, <2>3, <2>4
<1>8. ASSUME NEW i \in 1 .. m PROVE OfOp(h, t[i].op) = OfOp(g, t[i].op)
  <2>1. \A l \in h : l.op = t[i].op => l \in g
    BY <1>4, <1>5, <1>7
  <2>2. \A l \in g : l.op = t[i].op => l \in h
    BY <1>4, <1>6, <1>7
  <2> QED
    BY <2>1, <2>2 DEF OfOp
<1>9. ASSUME NEW i \in 1 .. m
      PROVE  /\ at[i] \in Nat /\ rows[i] \in Seq(GoodRows) /\ rows[i] # <<>>
             /\ OfOp(h, u[i].op) = Logged(u[i].op, at[i], rows[i])
             /\ \A l \in h : ~l.undone /\ l.at >= at[i] => \E j \in i .. m : l.op = u[j].op
             /\ Restores(rows[i], u[i].before, IF i = m THEN Last(t).before ELSE u[i + 1].before)
  <2>1. i \in 1 .. n /\ i # n /\ u[i] = t[i]
    BY <1>2, <1>3
  <2>2. /\ at[i] \in Nat /\ rows[i] \in Seq(GoodRows) /\ rows[i] # <<>>
        /\ OfOp(g, t[i].op) = Logged(t[i].op, at[i], rows[i])
        /\ \A l \in g : ~l.undone /\ l.at >= at[i] => \E j \in i .. n : l.op = t[j].op
        /\ Restores(rows[i], t[i].before, IF i = n THEN x ELSE t[i + 1].before)
    BY <2>1 DEF Linked
  <2>3. OfOp(h, u[i].op) = Logged(u[i].op, at[i], rows[i])
    BY <1>8, <2>1, <2>2
  <2>4. ASSUME NEW l \in h, ~l.undone, l.at >= at[i] PROVE \E j \in i .. m : l.op = u[j].op
    <3>1. PICK k \in g : l = Marked(k, op)
      BY <1>5
    <3>2. ~k.undone /\ k.op # op /\ k.at >= at[i] /\ l.op = k.op
      BY <1>4, <2>4, <3>1
    <3>3. PICK j \in i .. n : k.op = t[j].op
      BY <2>2, <3>2
    <3>4. j \in i .. m /\ j \in 1 .. m
      BY <1>2, <3>2, <3>3
    <3> QED
      BY <1>3, <3>2, <3>3, <3>4
  <2>5. (IF i = n THEN x ELSE t[i + 1].before) = IF i = m THEN Last(t).before ELSE u[i + 1].before
    <3>1. i # m => i + 1 \in 1 .. m
      BY <1>2
    <3> QED
      BY <1>2, <1>3, <2>1, <3>1
  <2> QED
    BY <2>1, <2>2, <2>3, <2>4, <2>5
<1>10. \A i, j \in 1 .. m : i < j => at[i] < at[j]
  BY <1>3 DEF Linked
<1>11. \E T : u \in Seq(T)
  BY <1>3
<1>12. Linked(u, h, Last(t).before, at, rows)
  <2> PICK b : b = Last(t).before
    OBVIOUS
  <2>1. m = Len(u)
    BY <1>3
  <2>2. ASSUME NEW i \in 1 .. Len(u)
        PROVE  /\ at[i] \in Nat /\ rows[i] \in Seq(GoodRows) /\ rows[i] # <<>>
               /\ OfOp(h, u[i].op) = Logged(u[i].op, at[i], rows[i])
               /\ \A l \in h : ~l.undone /\ l.at >= at[i] => \E j \in i .. Len(u) : l.op = u[j].op
               /\ Restores(rows[i], u[i].before, IF i = Len(u) THEN b ELSE u[i + 1].before)
    <3>1. i \in 1 .. m
      BY <2>1
    <3>2. (IF i = Len(u) THEN b ELSE u[i + 1].before) = IF i = m THEN b ELSE u[i + 1].before
      BY <2>1
    <3>3. Restores(rows[i], u[i].before, IF i = m THEN b ELSE u[i + 1].before)
      BY <1>9, <3>1
    <3>4. Restores(rows[i], u[i].before, IF i = Len(u) THEN b ELSE u[i + 1].before)
      BY <3>2, <3>3
    <3>5. ASSUME NEW l \in h, ~l.undone, l.at >= at[i] PROVE \E j \in i .. Len(u) : l.op = u[j].op
      <4>1. PICK j \in i .. m : l.op = u[j].op
        BY <1>9, <3>1, <3>5, ZenonT(40)
      <4> QED
        BY <2>1, <4>1
    <3> QED
      BY <1>9, <3>1, <3>4, <3>5
  <2>3. \A i, j \in 1 .. Len(u) : i < j => at[i] < at[j]
    BY <1>10, <2>1
  <2>4. Linked(u, h, b, at, rows)
    BY <1>11, <2>2, <2>3 DEF Linked
  <2> QED
    BY <2>4
<1> QED
  BY <1>12 DEF Stacked

(* The operation on top is the one that undo takes.                        *)
LEMMA TopIsLatest ==
  ASSUME LogTyped, clock \in Nat, NEW t, NEW x, Stacked(t, log, x), t # <<>>
  PROVE  /\ Live # {} /\ Latest = Last(t).op /\ LatestRows = OfOp(log, Last(t).op)
         /\ \E time, v : /\ v \in Seq(GoodRows) /\ LatestRows = Logged(Last(t).op, time, v)
                         /\ Restores(v, Last(t).before, x)
<1> PICK at, rows : Linked(t, log, x, at, rows)
  BY DEF Stacked
<1> PICK n : n = Len(t)
  OBVIOUS
<1>1. n \in Nat /\ n # 0 /\ n \in 1 .. n /\ Last(t) = t[n]
  <2>1. PICK S : t \in Seq(S)
    BY DEF Linked
  <2> QED
    BY <2>1 DEF Last
<1> PICK op : op = t[n].op
  OBVIOUS
<1>2. /\ rows[n] \in Seq(GoodRows) /\ at[n] \in Nat
      /\ OfOp(log, op) = Logged(op, at[n], rows[n])
      /\ \A l \in log : ~l.undone /\ l.at >= at[n] => \E j \in n .. n : l.op = t[j].op
      /\ Restores(rows[n], t[n].before, IF n = n THEN x ELSE t[n + 1].before)
  BY <1>1 DEF Linked
<1>3. PICK k \in log : k.op = op /\ k.at = at[n] /\ ~k.undone
  BY <1>1, StackHas
<1>4. \A l \in log : l.op = op => l.at = at[n] /\ ~l.undone
  BY <1>1, StackHas
<1>5. \A l : l \in Live <=> l \in log /\ ~l.undone
  BY DEF Live
<1>6. \A l \in Live : l.at >= at[n] => l.op = op
  BY <1>1, <1>2, <1>5
<1>7. \A l \in Live : l.at \in Nat
  BY <1>5 DEF LogTyped
<1>8. Live # {} /\ k \in Live /\ \A l \in Live : l.at <= k.at
  <2> SUFFICES ASSUME NEW l \in Live PROVE l.at <= k.at
    BY <1>3, <1>5
  <2>1. CASE l.at >= at[n]
    <3>1. l.at = at[n]
      BY <1>4, <1>5, <1>6, <2>1
    <3> QED
      BY <1>2, <1>3, <3>1
  <2>2. CASE ~(l.at >= at[n])
    BY <1>2, <1>3, <1>7, <2>2
  <2> QED
    BY <2>1, <2>2
<1>9. PICK c : c = (CHOOSE l \in Live : \A m \in Live : m.at <= l.at)
  OBVIOUS
<1>10. c \in Live /\ \A m \in Live : m.at <= c.at
  BY <1>8, <1>9
<1>11. Latest = op
  <2>1. k.at <= c.at /\ c.at \in Nat
    BY <1>7, <1>8, <1>10
  <2>2. c.op = op
    BY <1>2, <1>3, <1>6, <1>10, <2>1
  <2> QED
    BY <1>9, <2>2 DEF Latest
<1>12. LatestRows = OfOp(log, op)
  BY <1>4, <1>5, <1>11 DEF LatestRows, OfOp
<1>13. Restores(rows[n], t[n].before, x)
  BY <1>2
<1> QED
  BY <1>1, <1>2, <1>8, <1>11, <1>12, <1>13

-----------------------------------------------------------------------------
(* What is in flight, and the stack *)

(* An edit: its calls lead to what its rows take back to the graph it was  *)
(* begun on; once stamped it is later than all that is logged.             *)
EditReady(q, gr, g, t) ==
  /\ Leads(q.calls, gr, q.rows, q.before)
  /\ q.seed[1] = "relabel" /\ q.calls # <<>> => q.rows = <<>>
  /\ q.op # NoOp => q.calls = <<>> /\ \A l \in g : l.at < q.at
  /\ Stacked(t, g, q.before)

(* An undo: its calls lead to the graph that the operation on top was      *)
(* begun on.                                                               *)
UndoReady(q, gr, g, t) ==
  /\ q.calls \in Seq(Backwards)
  /\ \E x : Stacked(t, g, x)
  /\ t # <<>> => q.op = Last(t).op /\ \E w, v : Runs(q.calls, gr, w, Last(t).before, v)

Ready(q, gr, g, t) ==
  /\ q = Idle => Stacked(t, g, gr)
  /\ q.kind = "edit" => EditReady(q, gr, g, t)
  /\ q.kind = "undo" => UndoReady(q, gr, g, t)

LEMMA RowsFilled ==
  ASSUME NEW rows \in Seq(GoodRows), NEW c, NEW gr, RowsAfter(c, gr, rows) = <<>>
  PROVE  \/ rows = <<>> /\ c.do # "relabel_entity_type"
         \/ c.do = "relabel_entity_type" /\ OfType(gr.node, c.on) = {}
<1>1. CASE c.do = "repoint_mentions"
  <2>1. RowsAfter(c, gr, rows) = Telling(rows, Naming(gr.mention, c.on))
    BY <1>1 DEF RowsAfter
  <2>2. DOMAIN RowsAfter(c, gr, rows) = DOMAIN rows
    BY <2>1 DEF Telling
  <2>3. DOMAIN rows = {}
    BY <2>2
  <2>4. Len(rows) = 0
    BY <2>3
  <2> QED
    BY <1>1, <2>4
<1>2. CASE c.do = "relabel_entity_type"
  <2> PICK ids : ids = OfType(gr.node, c.on)
    OBVIOUS
  <2> PICK s : s = SetToSeq(ids)
    OBVIOUS
  <2>1. ids \subseteq Entities /\ IsFiniteSet(Entities)
    BY ConstantsAssumption DEF ConstantsAssumption, OfType
  <2>2. IsFiniteSet(ids)
    BY <2>1, FS_Subset
  <2>3. DOMAIN s = 1 .. Cardinality(ids) /\ Cardinality(ids) \in Nat
    <3> DEFINE z == SetToSeq(ids)
    <3>1. DOMAIN z = 1 .. Cardinality(ids) /\ Cardinality(ids) \in Nat
      BY <2>2, SetToSeqIs
    <3> QED
      BY <3>1
  <2>4. RowsAfter(c, gr, rows) = Relabelling(ids, c.on, c.with)
    BY <1>2 DEF RowsAfter
  <2>5. DOMAIN RowsAfter(c, gr, rows) = DOMAIN s
    BY <2>4 DEF Relabelling
  <2>6. DOMAIN s = {}
    BY <2>5
  <2>7. Cardinality(ids) = 0
    BY <2>3, <2>6
  <2>8. ids = {}
    BY <2>2, <2>7, FS_EmptySet
  <2> QED
    BY <1>2, <2>8
<1>3. CASE c.do \notin {"repoint_mentions", "relabel_entity_type"}
  BY <1>3 DEF RowsAfter
<1> QED
  BY <1>1, <1>2, <1>3

LEMMA OneCallLeft ==
  ASSUME NEW S, NEW s \in Seq(S), Len(s) = 1
  PROVE  Tail(s) = <<>>
<1> PICK z : z = Tail(s)
  OBVIOUS
<1>1. z \in Seq(S) /\ Len(z) = 0
  BY SMTT(30)
<1>2. z = <<>>
  BY <1>1
<1> QED
  BY <1>2

(* A call brings an edit further.                                          *)
LEMMA EditGoes ==
  ASSUME NEW q, NEW gr, NEW g, NEW t, EditReady(q, gr, g, t), q.calls # <<>>,
         q.calls \in Seq(GoodCalls), q.rows \in Seq(GoodRows),
         NEW c, c = Head(q.calls), c.do = "relabel_entity_type" => q.seed[1] = "relabel",
         c.do = "relabel_entity_type" => OfType(gr.node, c.on) # {},
         NEW p, p.calls = Tail(q.calls), p.op = q.op, p.seed = q.seed, p.before = q.before,
         p.rows = RowsAfter(c, gr, q.rows), NEW h, h = After(c, gr)
  PROVE  EditReady(p, h, g, t)
<1>1. q.op = NoOp /\ Stacked(t, g, q.before) /\ Leads(q.calls, gr, q.rows, q.before)
      /\ (q.seed[1] = "relabel" => q.rows = <<>>)
  BY DEF EditReady
<1>2. q.rows = <<>> => Len(q.calls) = 1 /\ c.do = "relabel_entity_type"
  BY <1>1 DEF Leads
<1>3. q.rows = <<>> => p.calls = <<>>
  BY <1>2, OneCallLeft
<1>4. p.rows # <<>>
  BY <1>2, RowsFilled
<1>5. PICK x, v : /\ Runs(q.calls, gr, q.rows, x, v)
                  /\ IF v = <<>> THEN x = q.before ELSE Fresh(v, q.before) => Restores(v, q.before, x)
  BY <1>1 DEF Leads
<1>6. Runs(p.calls, h, p.rows, x, v)
  BY <1>5, RunsTail
<1>7. Leads(p.calls, h, p.rows, p.before)
  BY <1>4, <1>5, <1>6 DEF Leads
<1> QED
  BY <1>1, <1>3, <1>7 DEF EditReady

(* An edit that finds nothing to do leaves the graph as it was.            *)
LEMMA EditEnds ==
  ASSUME NEW q, NEW gr, NEW g, NEW t, EditReady(q, gr, g, t), q.calls # <<>>,
         q.calls \in Seq(GoodCalls),
         NEW c, c = Head(q.calls), c.do = "relabel_entity_type", q.seed[1] = "relabel",
         OfType(gr.node, c.on) = {}
  PROVE  After(c, gr) = q.before
<1>1. q.rows = <<>> /\ Leads(q.calls, gr, q.rows, q.before)
  BY DEF EditReady
<1>2. Tail(q.calls) = <<>>
  BY <1>1, OneCallLeft DEF Leads
<1>3. PICK x, v : /\ Runs(q.calls, gr, q.rows, x, v)
                  /\ IF v = <<>> THEN x = q.before ELSE Fresh(v, q.before) => Restores(v, q.before, x)
  BY <1>1 DEF Leads
<1>4. Runs(<<>>, After(c, gr), RowsAfter(c, gr, q.rows), x, v)
  <2>1. Runs(Tail(q.calls), After(c, gr), RowsAfter(c, gr, q.rows), x, v)
    BY <1>3, RunsTail
  <2> QED
    BY <1>2, <2>1
<1>5. x = After(c, gr) /\ v = RowsAfter(c, gr, q.rows)
  BY <1>2, <1>4, RunsNone
<1>6. RowsAfter(c, gr, q.rows) = Relabelling({}, c.on, c.with)
  BY DEF RowsAfter
<1>7. RowsAfter(c, gr, q.rows) = <<>>
  <2> PICK s : s = SetToSeq({})
    OBVIOUS
  <2>1. DOMAIN s = {}
    <3> DEFINE z == SetToSeq({})
    <3>1. IsFiniteSet({}) /\ Cardinality({}) = 0
      BY FS_EmptySet
    <3>2. DOMAIN z = 1 .. Cardinality({})
      BY <3>1, SetToSeqIs
    <3> QED
      BY <3>1, <3>2
  <2>2. Relabelling({}, c.on, c.with) = [i \in DOMAIN s |-> Row("edit_fields", s[i], [type |-> c.on], [type |-> c.with])]
    BY DEF Relabelling
  <2>3. Relabelling({}, c.on, c.with) = [i \in {} |-> Row("edit_fields", s[i], [type |-> c.on], [type |-> c.with])]
    BY <2>1, <2>2
  <2> QED
    BY <1>6, <2>3
<1> QED
  BY <1>3, <1>5, <1>7

(* A call brings an undo further.                                          *)
LEMMA UndoGoes ==
  ASSUME NEW q, NEW gr, NEW g, NEW t, UndoReady(q, gr, g, t), q.calls # <<>>,
         NEW c, c = Head(q.calls),
         NEW p, p.calls = Tail(q.calls), p.op = q.op, NEW h, h = After(c, gr)
  PROVE  UndoReady(p, h, g, t) /\ c.do # "relabel_entity_type"
<1>1. q.calls \in Seq(Backwards) /\ \E x : Stacked(t, g, x)
  BY DEF UndoReady
<1>2. p.calls \in Seq(Backwards) /\ c \in Backwards
  BY <1>1
<1>3. ASSUME t # <<>> PROVE p.op = Last(t).op /\ \E w, v : Runs(p.calls, h, w, Last(t).before, v)
  <2>1. PICK w, v : Runs(q.calls, gr, w, Last(t).before, v)
    BY <1>3 DEF UndoReady
  <2>2. Runs(Tail(q.calls), After(Head(q.calls), gr), RowsAfter(Head(q.calls), gr, w), Last(t).before, v)
    BY <1>1, <2>1, RunsTail
  <2> QED
    BY <1>3, <2>2 DEF UndoReady
<1> QED
  BY <1>1, <1>2, <1>3 DEF UndoReady, Backwards

-----------------------------------------------------------------------------
(* What each step does to the stack *)

Reversible(r) == Ready(req[r], Graph, log, trail)

LEMMA StampEffect ==
  ASSUME ReqShape, NEW r \in Requests, Stamp(r)
  PROVE  LET q == req[r]
             p == req'[r]
         IN  /\ q.kind = "edit" /\ q.calls = <<>> /\ p.kind = "edit"
             /\ p.calls = q.calls /\ p.seed = q.seed /\ p.rows = q.rows /\ p.before = q.before
             /\ p.at = clock + 1
<1> DEFINE op == StampedOp(r)
           n == [req[r] EXCEPT !.op = op]
           m == [n EXCEPT !.at = clock + 1]
           k == [req[r] EXCEPT !.op = op, !.at = clock + 1]
<1>0. k = m
  OBVIOUS
<1>1. req[r].kind = "edit" /\ req[r].calls = <<>> /\ req' = [req EXCEPT ![r] = k]
  BY DEF Stamp, StampedOp
<1>2. req'[r] = k
  BY <1>1 DEF ReqShape
<1>3. IsEdit(req[r])
  BY <1>1 DEF ReqShape, Idle, IsUndo
<1>4. PICK calls, seed, rows, op0, at, before : req[r] = Edit(calls, seed, rows, op0, at, before)
  BY <1>3 DEF IsEdit
<1> HIDE DEF op
<1>5. n = Edit(calls, seed, rows, op, at, before)
  BY <1>4 DEF Edit
<1>6. [Edit(calls, seed, rows, op, at, before) EXCEPT !.at = clock + 1]
        = Edit(calls, seed, rows, op, clock + 1, before)
  BY DEF Edit
<1>7. req'[r] = Edit(calls, seed, rows, op, clock + 1, before)
  BY <1>0, <1>2, <1>5, <1>6
<1> HIDE DEF n, m, k
<1> QED
  BY <1>1, <1>4, <1>7 DEF Edit

LEMMA BeginReady ==
  ASSUME NEW slot \in Requests, ReqShape, GraphTyped, EndsExist, Reversible(slot), Operation(slot)
  PROVE  Reversible(slot)'
<1>1. Started(slot)
  BY OperationStarts
<1>2. PICK calls, seed, rows : /\ Begin(slot, calls, seed, rows) /\ Planned(calls, rows)
                               /\ seed[1] = "relabel" => rows = <<>>
  BY <1>1 DEF Started
<1>3. req[slot] = Idle /\ UNCHANGED <<node, edge, mention, hidden>>
  BY OperationTouches DEF Operation
<1>4. UNCHANGED <<log, trail>> /\ Graph' = Graph
  BY <1>2, <1>3 DEF Begin, Graph
<1> PICK q : q = Edit(calls, seed, rows, NoOp, 0, Graph)
  OBVIOUS
<1>5. req'[slot] = q
  BY <1>2 DEF Begin, Edit, ReqShape
<1>6. /\ q.kind = "edit" /\ q.calls = calls /\ q.seed = seed /\ q.rows = rows
      /\ q.op = NoOp /\ q.before = Graph /\ q # Idle
  BY DEF Edit, Idle
<1>7. Stacked(trail, log, Graph)
  BY <1>3 DEF Reversible, Ready
<1>8. EditReady(q, Graph, log, trail)
  BY <1>2, <1>6, <1>7 DEF EditReady, Planned
<1>9. Ready(q, Graph', log', trail')
  BY <1>4, <1>6, <1>8 DEF Ready
<1> QED
  BY <1>5, <1>9 DEF Reversible

LEMMA CallReady ==
  ASSUME NEW slot \in Requests, ReqShape, ReqTyped, ReqSafe(slot), Reversible(slot), StoreCall(slot)
  PROVE  Reversible(slot)'
<1> PICK q : q = req[slot]
  OBVIOUS
<1> PICK p : p = req'[slot]
  OBVIOUS
<1> PICK c : c = Head(q.calls)
  BY SMTT(30)
<1>1. q # Idle /\ q.calls # <<>>
  BY DEF StoreCall, CreateEntity, UpdateEntity, RestoreFields, DeleteNode, RelabelType, CreateRelation,
     DeleteRelation, AddMention, DeleteMention, UpdateMentionSpan, DeleteMentionsOf, ReassignMentions,
     RepointMentions, AddSuppression, DeleteSuppression, Calls
<1>2. UNCHANGED <<log, trail>>
  BY DEF StoreCall, CreateEntity, UpdateEntity, RestoreFields, DeleteNode, RelabelType, CreateRelation,
     DeleteRelation, AddMention, DeleteMention, UpdateMentionSpan, DeleteMentionsOf, ReassignMentions,
     RepointMentions, AddSuppression, DeleteSuppression, Bookkeeping
<1>3. Graph' = After(c, Graph)
  BY CallIs
<1>4. \/ /\ p.kind = q.kind /\ p.calls = Tail(q.calls) /\ p.op = q.op
         /\ IsEdit(q) => p.seed = q.seed /\ p.before = q.before /\ p.rows = RowsAfter(c, Graph, q.rows)
         /\ c.do = "relabel_entity_type" => OfType(node, c.on) # {}
      \/ p = Idle /\ c.do = "relabel_entity_type" /\ OfType(node, c.on) = {}
  BY CallMoves DEF ReqShape
<1>5. q.calls \in Seq(GoodCalls) /\ Graph.node = node /\ Idle.kind = "idle"
  BY <1>1 DEF ReqTyped, GoodReq, Graph, Idle
<1>6. CASE IsEdit(q)
  <2>1. q.kind = "edit" /\ q.rows \in Seq(GoodRows)
    BY <1>6, EditIsEdit DEF ReqTyped, GoodReq
  <2>2. c.do = "relabel_entity_type" => q.seed[1] = "relabel"
    <3>1. 1 \in 1 .. Len(q.calls) /\ c = q.calls[1]
      BY <1>1, <1>5
    <3> QED
      BY <2>1, <3>1 DEF ReqSafe
  <2>3. EditReady(q, Graph, log, trail)
    BY <2>1 DEF Reversible, Ready
  <2>4. CASE p = Idle
    <3>1. c.do = "relabel_entity_type" /\ OfType(Graph.node, c.on) = {}
      BY <1>4, <1>5, <2>1, <2>4
    <3>2. Graph' = q.before
      BY <1>1, <1>3, <1>5, <2>2, <2>3, <3>1, EditEnds
    <3>3. Stacked(trail', log', Graph')
      BY <1>2, <2>3, <3>2 DEF EditReady
    <3>4. Ready(p, Graph', log', trail')
      BY <1>5, <2>4, <3>3 DEF Ready
    <3> QED
      BY <3>4 DEF Reversible
  <2>5. CASE p # Idle
    <3>1. /\ p.kind = "edit" /\ p.calls = Tail(q.calls) /\ p.op = q.op
          /\ p.seed = q.seed /\ p.before = q.before /\ p.rows = RowsAfter(c, Graph, q.rows)
          /\ c.do = "relabel_entity_type" => OfType(Graph.node, c.on) # {}
      BY <1>4, <1>5, <1>6, <2>1, <2>5
    <3>2. EditReady(p, Graph', log, trail)
      BY <1>1, <1>3, <1>5, <2>1, <2>2, <2>3, <3>1, EditGoes, ZenonT(40)
    <3>3. Ready(p, Graph', log', trail')
      BY <1>2, <2>5, <3>1, <3>2 DEF Ready
    <3> QED
      BY <3>3 DEF Reversible
  <2> QED
    BY <2>4, <2>5
<1>7. CASE IsUndo(q)
  <2>1. q.kind = "undo"
    BY <1>7 DEF IsUndo
  <2>2. UndoReady(q, Graph, log, trail)
    BY <2>1 DEF Reversible, Ready
  <2>3. c.do # "relabel_entity_type"
    BY <1>1, <2>2 DEF UndoReady, Backwards
  <2>4. p.kind = "undo" /\ p.calls = Tail(q.calls) /\ p.op = q.op
    BY <1>4, <2>1, <2>3
  <2>5. UndoReady(p, Graph', log, trail)
    BY <1>1, <1>3, <2>2, <2>4, UndoGoes
  <2>6. Ready(p, Graph', log', trail')
    BY <1>2, <1>5, <2>4, <2>5 DEF Ready
  <2> QED
    BY <2>6 DEF Reversible
<1> QED
  BY <1>1, <1>6, <1>7 DEF ReqShape

LEMMA StampReady ==
  ASSUME NEW slot \in Requests, ReqShape, LogTyped, clock \in Nat, Reversible(slot), Stamp(slot)
  PROVE  Reversible(slot)'
<1> PICK q : q = req[slot]
  OBVIOUS
<1> PICK p : p = req'[slot]
  OBVIOUS
<1>1. /\ q.kind = "edit" /\ q.calls = <<>> /\ p.kind = "edit"
      /\ p.calls = q.calls /\ p.seed = q.seed /\ p.rows = q.rows /\ p.before = q.before
      /\ p.at = clock + 1
  BY StampEffect
<1>2. EditReady(q, Graph, log, trail)
  BY <1>1 DEF Reversible, Ready
<1>3. UNCHANGED <<log, trail>> /\ Graph' = Graph
  BY DEF Stamp, Graph
<1>4. \A l \in log : l.at < p.at
  BY <1>1 DEF LogTyped
<1>5. EditReady(p, Graph, log, trail)
  BY <1>1, <1>2, <1>4 DEF EditReady
<1>6. p # Idle
  BY <1>1 DEF Idle
<1>7. Ready(p, Graph', log', trail')
  BY <1>1, <1>3, <1>5, <1>6 DEF Ready
<1> QED
  BY <1>7 DEF Reversible

(* An operation that can be taken back exactly is logged with all its rows. *)
LEMMA RecordAdds ==
  ASSUME ReqTyped, NEW r \in Requests, Record(r), IsExact(r)
  PROVE  /\ trail' = Append(trail, [op |-> req[r].op, before |-> req[r].before])
         /\ OfOp(log, req[r].op) = {}
         /\ log' = log \cup Logged(req[r].op, req[r].at, req[r].rows)
<1> PICK q : q = req[r]
  OBVIOUS
<1> PICK new : new = Logged(q.op, q.at, q.rows)
  OBVIOUS
<1>1. q.rows \in Seq(GoodRows)
  BY DEF Record, ReqTyped, GoodReq
<1>2. trail' = Append(trail, [op |-> q.op, before |-> q.before])
  BY DEF Record
<1>3. OfOp(log, q.op) = {} /\ RowsOf(q.op) = {}
  BY DEF IsExact, RowsOf, OfOp
<1>4. NewRows(r) = new
  <2>1. DOMAIN q.rows = 1 .. Len(q.rows)
    BY <1>1
  <2> QED
    BY <2>1 DEF NewRows, Logged, Entry
<1>5. \A n \in new : n.op = q.op
  BY DEF Logged, Entry
<1>6. log' = log \cup new
  <2>1. log' = log \cup {n \in NewRows(r) : \A l \in RowsOf(n.op) : l.seq # n.seq}
    BY DEF Record
  <2>2. {n \in NewRows(r) : \A l \in RowsOf(n.op) : l.seq # n.seq} = new
    BY <1>3, <1>4, <1>5
  <2> QED
    BY <2>1, <2>2
<1> QED
  BY <1>2, <1>3, <1>6

LEMMA RecordReady ==
  ASSUME NEW slot \in Requests, ReqShape, ReqTyped, LogTyped, clock \in Nat, Reversible(slot), Record(slot)
  PROVE  Reversible(slot)'
<1> PICK q : q = req[slot]
  OBVIOUS
<1>1. /\ q.kind = "edit" /\ q.op # NoOp /\ req'[slot] = Idle /\ Graph' = Graph
  BY DEF Record, ReqShape, Graph
<1>2. EditReady(q, Graph, log, trail)
  BY <1>1 DEF Reversible, Ready
<1>3. /\ q.calls = <<>> /\ \A l \in log : l.at < q.at /\ l.at \in Nat
      /\ Stacked(trail, log, q.before) /\ Leads(q.calls, Graph, q.rows, q.before)
  BY <1>1, <1>2 DEF EditReady, LogTyped
<1>4. q.rows \in Seq(GoodRows) /\ q.at \in Nat
  BY <1>1 DEF ReqTyped, GoodReq
<1>5. q.rows # <<>> /\ (Fresh(q.rows, q.before) => Restores(q.rows, q.before, Graph))
  <2>1. Len(<<>>) # 1 /\ Leads(<<>>, Graph, q.rows, q.before)
    BY <1>3
  <2>2. PICK x, v : /\ Runs(<<>>, Graph, q.rows, x, v)
                    /\ IF v = <<>> THEN x = q.before ELSE Fresh(v, q.before) => Restores(v, q.before, x)
    BY <2>1 DEF Leads
  <2>3. x = Graph /\ v = q.rows
    BY <2>2, RunsNone
  <2> QED
    BY <2>1, <2>2, <2>3 DEF Leads
<1>6. CASE IsExact(slot)
  <2> PICK u : u = Append(trail, [op |-> q.op, before |-> q.before])
    OBVIOUS
  <2> PICK new : new = Logged(q.op, q.at, q.rows)
    OBVIOUS
  <2>1. trail' = u /\ OfOp(log, q.op) = {} /\ log' = log \cup new
    BY <1>6, RecordAdds
  <2>2. Fresh(q.rows, q.before)
    BY <1>4, <1>6 DEF IsExact, Fresh
  <2>3. Restores(q.rows, q.before, Graph)
    BY <1>5, <2>2
  <2>4. Stacked(u, log', Graph)
    BY <1>3, <1>4, <1>5, <2>1, <2>3, StackGrows, ZenonT(40)
  <2>5. Stacked(trail', log', Graph')
    BY <1>1, <2>1, <2>4
  <2>6. Ready(Idle, Graph', log', trail')
    BY <2>5 DEF Ready, Idle
  <2> QED
    BY <1>1, <2>6 DEF Reversible
<1>7. CASE ~IsExact(slot)
  <2>1. trail' = <<>>
    BY <1>7 DEF Record
  <2>2. Stacked(trail', log', Graph')
    BY <2>1, NothingStacked
  <2>3. Ready(Idle, Graph', log', trail')
    BY <2>2 DEF Ready, Idle
  <2> QED
    BY <1>1, <2>3 DEF Reversible
<1> QED
  BY <1>6, <1>7

LEMMA UndoLastReady ==
  ASSUME NEW slot \in Requests, ReqShape, LogTyped, clock \in Nat, Reversible(slot), UndoLast(slot)
  PROVE  Reversible(slot)'
<1> DEFINE plan == InversePlan(LatestRows)
<1> PICK p : p = [kind |-> "undo", calls |-> plan, op |-> Latest]
  OBVIOUS
<1>1. req[slot] = Idle /\ req'[slot] = p /\ UNCHANGED <<log, trail>> /\ Graph' = Graph
  BY DEF UndoLast, ReqShape, Graph
<1>2. Stacked(trail, log, Graph)
  BY <1>1 DEF Reversible, Ready
<1>3. plan \in Seq(Backwards)
  BY LatestTyped, PlanBackwards
<1>4. ASSUME trail # <<>>
      PROVE  Latest = Last(trail).op /\ \E w, v : Runs(plan, Graph, w, Last(trail).before, v)
  <2>1. /\ Latest = Last(trail).op
        /\ \E time, v : /\ v \in Seq(GoodRows) /\ LatestRows = Logged(Last(trail).op, time, v)
                        /\ Restores(v, Last(trail).before, Graph)
    BY <1>2, <1>4, TopIsLatest
  <2>2. PICK time, v : /\ v \in Seq(GoodRows) /\ LatestRows = Logged(Last(trail).op, time, v)
                       /\ Restores(v, Last(trail).before, Graph)
    BY <2>1
  <2>3. Runs(InversePlan(Logged(Last(trail).op, time, v)), Graph, <<>>, Last(trail).before, <<>>)
    BY <2>2, PlanRestores
  <2>4. Runs(plan, Graph, <<>>, Last(trail).before, <<>>)
    BY <2>2, <2>3
  <2> QED
    BY <2>1, <2>4
<1> HIDE DEF plan
<1>5. p.kind = "undo" /\ p.calls = plan /\ p.op = Latest /\ p # Idle
  BY DEF Idle
<1>6. UndoReady(p, Graph, log, trail)
  BY <1>2, <1>3, <1>4, <1>5 DEF UndoReady
<1>7. Ready(p, Graph', log', trail')
  BY <1>1, <1>5, <1>6 DEF Ready
<1> QED
  BY <1>1, <1>7 DEF Reversible

LEMMA MarkReady ==
  ASSUME NEW slot \in Requests, ReqShape, LogShape, Reversible(slot), MarkUndone(slot)
  PROVE  Reversible(slot)'
<1> PICK q : q = req[slot]
  OBVIOUS
<1>1. q.kind = "undo" /\ q.calls = <<>> /\ req'[slot] = Idle /\ Graph' = Graph
  BY DEF MarkUndone, ReqShape, Graph
<1>2. UndoReady(q, Graph, log, trail)
  BY <1>1 DEF Reversible, Ready
<1>3. Stacked(trail', log', Graph')
  <2>1. CASE trail = <<>>
    <3>1. trail' = <<>>
      BY <2>1 DEF MarkUndone
    <3> QED
      BY <3>1, NothingStacked
  <2>2. CASE trail # <<>>
    <3>1. PICK x : Stacked(trail, log, x)
      BY <1>2 DEF UndoReady
    <3>2. q.op = Last(trail).op /\ \E w, v : Runs(<<>>, Graph, w, Last(trail).before, v)
      BY <1>1, <1>2, <2>2 DEF UndoReady
    <3>3. PICK w, v : Runs(<<>>, Graph, w, Last(trail).before, v)
      BY <3>2
    <3>4. Last(trail).before = Graph
      BY <3>3, RunsNone
    <3>5. trail' = Front(trail)
      BY <2>2, <3>2 DEF MarkUndone
    <3>6. log' = {Marked(l, Last(trail).op) : l \in log}
      BY <3>2 DEF MarkUndone, Marked
    <3>7. \A l \in log :
            /\ l.undone \in BOOLEAN
            /\ l = [op |-> l.op, seq |-> l.seq, at |-> l.at, undone |-> l.undone, row |-> l.row]
      BY DEF LogShape
    <3>8. Stacked(trail', log', Last(trail).before)
      BY <2>2, <3>1, <3>5, <3>6, <3>7, StackShrinks
    <3> QED
      BY <1>1, <3>4, <3>8
  <2> QED
    BY <2>1, <2>2
<1>4. Ready(Idle, Graph', log', trail')
  BY <1>3 DEF Ready, Idle
<1> QED
  BY <1>1, <1>4 DEF Reversible

LEMMA FailReady ==
  ASSUME NEW slot \in Requests, ReqShape, Fail(slot)
  PROVE  Reversible(slot)'
<1>1. req'[slot] = Idle /\ trail' = <<>>
  BY DEF Fail, ReqShape
<1>2. Stacked(trail', log', Graph')
  BY <1>1, NothingStacked
<1>3. Ready(Idle, Graph', log', trail')
  BY <1>2 DEF Ready, Idle
<1> QED
  BY <1>1, <1>3 DEF Reversible

LEMMA ReversibleStep ==
  ASSUME NEW slot, Requests = {slot}, Alone(slot), Reversible(slot), [Next]_vars
  PROVE  Reversible(slot)'
<1>0. /\ slot \in Requests /\ clock \in Nat /\ ReqShape /\ LogShape /\ GraphTyped /\ EndsExist
      /\ LogTyped /\ ReqTyped /\ ReqSafe(slot)
  BY DEF Alone, Inv, IdsOK, TypeInv
<1>1. CASE UNCHANGED vars
  BY <1>1 DEF vars, Reversible, Graph
<1>2. CASE Next
  BY <1>0, <1>2, BeginReady, CallReady, StampReady, RecordReady, UndoLastReady, MarkReady, FailReady DEF Next
<1> QED
  BY <1>1, <1>2

LEMMA ReversibleInit ==
  ASSUME NEW slot, Requests = {slot}, Init
  PROVE  Reversible(slot)
<1>1. req[slot] = Idle /\ trail = <<>>
  BY DEF Init
<1>2. Ready(Idle, Graph, log, trail)
  BY <1>1, NothingStacked DEF Ready, Idle
<1> QED
  BY <1>1, <1>2 DEF Reversible

(* So undo takes the operation on top, and restores what was before it.    *)
LEMMA ReversibleIsExact ==
  ASSUME NEW slot, Requests = {slot}, Alone(slot), Reversible(slot)
  PROVE  UndoIsExact
<1>0. clock \in Nat /\ LogTyped /\ Ready(req[slot], Graph, log, trail)
  BY DEF Alone, Inv, IdsOK, TypeInv, Reversible
<1>1. ASSUME req[slot].kind = "undo", req[slot].calls = <<>>, trail # <<>>
      PROVE  req[slot].op = Last(trail).op /\ Graph = Last(trail).before
  <2>1. UndoReady(req[slot], Graph, log, trail)
    BY <1>0, <1>1 DEF Ready
  <2>2. req[slot].op = Last(trail).op /\ \E w, v : Runs(<<>>, Graph, w, Last(trail).before, v)
    BY <1>1, <2>1 DEF UndoReady
  <2>3. PICK w, v : Runs(<<>>, Graph, w, Last(trail).before, v)
    BY <2>2
  <2> QED
    BY <2>2, <2>3, RunsNone
<1>2. ASSUME req[slot] = Idle, trail # <<>> PROVE Live # {} /\ Latest = Last(trail).op /\ ~Drifted
  <2>1. Stacked(trail, log, Graph)
    BY <1>0, <1>2 DEF Ready
  <2>2. /\ Live # {} /\ Latest = Last(trail).op
        /\ \E time, v : /\ v \in Seq(GoodRows) /\ LatestRows = Logged(Last(trail).op, time, v)
                        /\ Restores(v, Last(trail).before, Graph)
    BY <1>0, <1>2, <2>1, TopIsLatest
  <2>3. ~Drifted
    BY <2>2, RestoresHolds
  <2> QED
    BY <2>2, <2>3
<1> QED
  BY <1>1, <1>2 DEF UndoIsExact, UndoRestores, UndoTakesTheLatest, AtRest

(* One request at a time: the operation that has just been done is the one *)
(* that undo takes, the drift check lets it, and its inverse calls restore *)
(* every node, edge, handle, mention and suppression -- of any operation,  *)
(* on any graph, through any stack of operations done and undone.          *)
THEOREM UndoneIsRestored ==
  ASSUME NEW slot, Requests = {slot} PROVE Spec => []UndoIsExact
<1>1. ConstantsAssumption
  BY ConstantsAssumption
<1> DEFINE I == Alone(slot) /\ Reversible(slot)
<1>2. Init => I
  BY <1>1, InvInit, TypedInit, SafeInit, ReversibleInit DEF Alone
<1>3. I /\ [Next]_vars => I'
  BY InvStep, TypedStep, FreshStep, SafeStep, ReversibleStep DEF Alone
<1>4. I => UndoIsExact
  BY ReversibleIsExact
<1> QED
  BY <1>2, <1>3, <1>4, PTL DEF Spec

-----------------------------------------------------------------------------
(* A handle names one edge *)

Edges == [Triples -> Handles \cup {NoEdge}]
OneEach(f) == \A t, u \in Triples : f[t] = f[u] /\ f[t] \notin {NoEdge, Legacy} => t = u
NotAbove(f, n) == \A t \in Triples : f[t] # NoEdge => f[t] <= n
Within(h, f) == \A t \in Triples : h[t] \in {NoEdge, f[t]}

Ties(c) == c.do = "create_relation"
Cuts(c, t) == c.do = "delete_relation" /\ c.on = t
Breaks(c, t) == Cuts(c, t) \/ (c.do = "delete_entity" /\ c.on \in {t[1], t[3]})

(* A call adds the edge it is made for, or leaves some of what there was.  *)
Adds(c, f, h) == Ties(c) /\ c.on \in Triples /\ c.with \in Handles /\ f[c.on] = NoEdge /\ h = Put(f, c.on, c.with)
Leaves(c, f, h) ==
  /\ Within(h, f)
  /\ \A t \in Triples : (Cuts(c, t) => h[t] = NoEdge) /\ (~Breaks(c, t) => h[t] = f[t])

LEMMA EdgeEffect ==
  ASSUME NEW c \in GoodCalls, NEW n, NEW f \in Edges
  PROVE  LET h == EdgeAfter(c, n, f) IN h \in Edges /\ (Adds(c, f, h) \/ Leaves(c, f, h))
<1> PICK h : h = EdgeAfter(c, n, f)
  OBVIOUS
<1>1. CASE c.do = "create_relation"
  <2>1. c.on \in Triples /\ c.with \in Handles
    BY <1>1, CallFacts
  <2>2. h = f \/ (f[c.on] = NoEdge /\ h = Put(f, c.on, c.with))
    BY <1>1 DEF EdgeAfter
  <2>3. CASE h = f
    BY <1>1, <2>3 DEF Leaves, Within, Cuts, Breaks
  <2>4. CASE f[c.on] = NoEdge /\ h = Put(f, c.on, c.with)
    BY <1>1, <2>1, <2>4 DEF Adds, Ties, Put, Edges
  <2> QED
    BY <2>2, <2>3, <2>4
<1>2. CASE c.do = "delete_relation"
  <2>1. c.on \in Triples
    BY <1>2, CallFacts
  <2>2. h = Put(f, c.on, NoEdge)
    BY <1>2 DEF EdgeAfter
  <2> QED
    BY <1>2, <2>1, <2>2 DEF Leaves, Within, Cuts, Breaks, Put, Edges
<1>3. CASE c.do = "delete_entity"
  <2>1. h = Detached(f, c.on)
    BY <1>3 DEF EdgeAfter
  <2> QED
    BY <1>3, <2>1 DEF Leaves, Within, Cuts, Breaks, Detached, Edges
<1>4. CASE c.do \notin OnEdges
  <2>1. h = f
    BY <1>4, Untouched
  <2> QED
    BY <1>4, <2>1 DEF Leaves, Within, Cuts, Breaks, OnEdges
<1> QED
  BY <1>1, <1>2, <1>3, <1>4 DEF OnEdges

(* The calls cs take edges f back towards edges w and give no handle twice *)
(* wherever they stop: what is not as in w is cut, what they tie is of w,  *)
(* and another edge of that handle is cut before.                          *)
Unwinds(cs, f, w) ==
  /\ OneEach(f) /\ OneEach(w)
  /\ \A t \in Triples : f[t] \in {NoEdge, w[t]} \/ \E k \in 1 .. Len(cs) : Cuts(cs[k], t)
  /\ \A k \in 1 .. Len(cs) : Ties(cs[k]) =>
       /\ cs[k].with = w[cs[k].on]
       /\ \A u \in Triples : u # cs[k].on /\ f[u] = cs[k].with /\ f[u] \notin {NoEdge, Legacy} =>
            \E m \in 1 .. k - 1 : Cuts(cs[m], u)

LEMMA FewerUnwind ==
  ASSUME NEW cs, NEW f, NEW w, Unwinds(cs, f, w), NEW h, Within(h, f)
  PROVE  Unwinds(cs, h, w)
<1>1. \A t \in Triples : h[t] \in {NoEdge, f[t]}
  BY DEF Within
<1>2. OneEach(h)
  BY <1>1 DEF Unwinds, OneEach
<1>3. \A t \in Triples : h[t] \in {NoEdge, w[t]} \/ \E k \in 1 .. Len(cs) : Cuts(cs[k], t)
  BY <1>1 DEF Unwinds
<1>4. ASSUME NEW k \in 1 .. Len(cs), Ties(cs[k])
      PROVE  /\ cs[k].with = w[cs[k].on]
             /\ \A u \in Triples : u # cs[k].on /\ h[u] = cs[k].with /\ h[u] \notin {NoEdge, Legacy} =>
                  \E m \in 1 .. k - 1 : Cuts(cs[m], u)
  BY <1>1, <1>4 DEF Unwinds
<1> QED
  BY <1>1, <1>2, <1>3, <1>4 DEF Unwinds

(* What is tied is of w, so of a handle that nothing else bears.           *)
LEMMA TieUnwinds ==
  ASSUME NEW cs \in Seq(GoodCalls), NEW f \in Edges, NEW w \in Edges, Unwinds(cs, f, w),
         NEW t \in Triples, f[t] = NoEdge,
         \A u \in Triples : u # t /\ f[u] = w[t] => f[u] \in {NoEdge, Legacy},
         NEW h, h = Put(f, t, w[t])
  PROVE  Unwinds(cs, h, w)
<1>1. h[t] = w[t] /\ \A u \in Triples : u # t => h[u] = f[u]
  BY DEF Put, Edges
<1>2. OneEach(h)
  BY <1>1 DEF Unwinds, OneEach
<1>3. \A u \in Triples : h[u] \in {NoEdge, w[u]} \/ \E k \in 1 .. Len(cs) : Cuts(cs[k], u)
  BY <1>1 DEF Unwinds
<1>0. \A k \in 1 .. Len(cs) : Ties(cs[k]) => cs[k].on \in Triples
  BY CallFacts DEF Ties
<1>4. ASSUME NEW k \in 1 .. Len(cs), Ties(cs[k]),
             NEW u \in Triples, u # cs[k].on, h[u] = cs[k].with, h[u] \notin {NoEdge, Legacy}
      PROVE  \E m \in 1 .. k - 1 : Cuts(cs[m], u)
  <2>1. cs[k].with = w[cs[k].on]
    BY <1>4 DEF Unwinds
  <2>2. u # t
    BY <1>0, <1>1, <1>4, <2>1 DEF Unwinds, OneEach
  <2> QED
    BY <1>1, <1>4, <2>2 DEF Unwinds
<1> QED
  BY <1>2, <1>3, <1>4 DEF Unwinds

(* A call of an undo brings it further; the plan it is made of could still *)
(* be carried out from its start.                                          *)
LEMMA UnwindsGoes ==
  ASSUME NEW cs \in Seq(GoodCalls), cs # <<>>, NEW f \in Edges, NEW w \in Edges, Unwinds(cs, f, w),
         NEW ps \in Seq(GoodCalls), Unwinds(ps, f, w),
         NEW n, NEW h, h = EdgeAfter(Head(cs), n, f)
  PROVE  Unwinds(Tail(cs), h, w) /\ Unwinds(ps, h, w) /\ h \in Edges
<1> PICK c : c = Head(cs)
  OBVIOUS
<1> PICK z : z = Tail(cs)
  OBVIOUS
<1>1. /\ c \in GoodCalls /\ c = cs[1] /\ 1 \in 1 .. Len(cs) /\ z \in Seq(GoodCalls)
      /\ Len(z) \in Nat /\ Len(cs) = Len(z) + 1 /\ \A k \in 1 .. Len(z) : z[k] = cs[k + 1]
  BY SMTT(30)
<1>2. h \in Edges /\ (Adds(c, f, h) \/ Leaves(c, f, h))
  BY <1>1, EdgeEffect
<1>3. Unwinds(cs, h, w) /\ Unwinds(ps, h, w)
  <2>1. CASE Leaves(c, f, h)
    BY <2>1, FewerUnwind DEF Leaves
  <2>2. CASE Adds(c, f, h)
    <3>1. c.with = w[c.on] /\ c.on \in Triples
      BY <1>1, <2>2 DEF Unwinds, Adds
    <3>2. \A u \in Triples : u # c.on /\ f[u] = w[c.on] => f[u] \in {NoEdge, Legacy}
      <4>1. ~\E m \in 1 .. 1 - 1 : Cuts(cs[m], c.on)
        OBVIOUS
      <4>2. \A u \in Triples : u # c.on /\ f[u] = c.with /\ f[u] \notin {NoEdge, Legacy} =>
              \E m \in 1 .. 1 - 1 : Cuts(cs[m], u)
        BY <1>1, <2>2 DEF Unwinds, Adds
      <4> QED
        BY <3>1, <4>2
    <3>3. f[c.on] = NoEdge /\ h = Put(f, c.on, w[c.on])
      BY <2>2, <3>1 DEF Adds
    <3> QED
      BY <3>1, <3>2, <3>3, TieUnwinds
  <2> QED
    BY <1>2, <2>1, <2>2
<1>4. \A u \in Triples : Cuts(c, u) => h[u] = NoEdge
  BY <1>2 DEF Adds, Leaves, Ties, Cuts
<1>5. \A u \in Triples : h[u] \in {NoEdge, w[u]} \/ \E k \in 1 .. Len(z) : Cuts(z[k], u)
  <2> SUFFICES ASSUME NEW u \in Triples, h[u] \notin {NoEdge, w[u]} PROVE \E k \in 1 .. Len(z) : Cuts(z[k], u)
    OBVIOUS
  <2>1. PICK k \in 1 .. Len(cs) : Cuts(cs[k], u)
    BY <1>3 DEF Unwinds
  <2>2. k # 1
    BY <1>1, <1>4, <2>1
  <2>3. k - 1 \in 1 .. Len(z) /\ z[k - 1] = cs[k]
    BY <1>1, <2>2
  <2> QED
    BY <2>1, <2>3
<1>6. ASSUME NEW k \in 1 .. Len(z), Ties(z[k])
      PROVE  /\ z[k].with = w[z[k].on]
             /\ \A u \in Triples : u # z[k].on /\ h[u] = z[k].with /\ h[u] \notin {NoEdge, Legacy} =>
                  \E m \in 1 .. k - 1 : Cuts(z[m], u)
  <2>1. k + 1 \in 1 .. Len(cs) /\ cs[k + 1] = z[k]
    BY <1>1
  <2>2. z[k].with = w[z[k].on]
    BY <1>3, <1>6, <2>1 DEF Unwinds
  <2>3. ASSUME NEW u \in Triples, u # z[k].on, h[u] = z[k].with, h[u] \notin {NoEdge, Legacy}
        PROVE  \E m \in 1 .. k - 1 : Cuts(z[m], u)
    <3>1. \E m \in 1 .. (k + 1) - 1 : Cuts(cs[m], u)
      BY <1>3, <1>6, <2>1, <2>3 DEF Unwinds
    <3>2. PICK m \in 1 .. (k + 1) - 1 : Cuts(cs[m], u)
      BY <3>1
    <3>3. m # 1
      BY <1>1, <1>4, <2>3, <3>2
    <3>4. m - 1 \in 1 .. k - 1 /\ z[m - 1] = cs[m]
      BY <1>1, <3>3
    <3> QED
      BY <3>2, <3>4
  <2> QED
    BY <2>2, <2>3
<1>7. Unwinds(z, h, w)
  BY <1>3, <1>5, <1>6 DEF Unwinds
<1> QED
  BY <1>2, <1>3, <1>7

(* What an edge that was not there may be the work of: of a row that says  *)
(* where it was moved from, or that it was made.                           *)
New(h, w) == \A t \in Triples : w[t] # h
CameFrom(v, t, h, w) ==
  \E i \in 1 .. Len(v) :
    \/ v[i].op = "repoint_relation" /\ v[i].after = t /\ (v[i].before = h \/ New(h, w))
    \/ v[i].op = "add_relation" /\ v[i].target = t /\ ~v[i].after /\ New(h, w)

EdgeRows == {"repoint_relation", "fold_relation", "discard_self_loop_relation", "remove_relation"}

(* The rows say what the edges w were, of an edge no two.                  *)
Tells(v, w) ==
  /\ \A i \in 1 .. Len(v) : v[i].op \in EdgeRows => v[i].before = w[v[i].target]
  /\ \A i, j \in 1 .. Len(v) :
       v[i].op \in EdgeRows /\ v[j].op \in EdgeRows /\ v[i].target = v[j].target => i = j
  /\ \A i \in 1 .. Len(v) : v[i].op = "delete_relations" =>
       /\ \A t \in DOMAIN v[i].before : v[i].before[t] = w[t]
       /\ \A j \in 1 .. Len(v) : v[j].op # "repoint_relation"

(* An edit that was begun on edges w and has come to edges f, with cs to   *)
(* do and v to log.                                                        *)
Rewires(cs, v, w, f, n) ==
  /\ OneEach(w) /\ NotAbove(f, n) /\ Tells(v, w)
  /\ \A t \in Triples : f[t] \in {NoEdge, w[t]} \/ CameFrom(v, t, f[t], w)
  /\ \A t, u \in Triples : f[t] = f[u] /\ f[t] # NoEdge /\ New(f[t], w) => t = u
  /\ \A k \in 1 .. Len(cs) : Ties(cs[k]) =>
       /\ cs[k].with <= n
       /\ \/ CameFrom(v, cs[k].on, cs[k].with, w)
          \/ f[cs[k].on] # NoEdge /\ \A m \in 1 .. Len(cs) : ~Breaks(cs[m], cs[k].on)
       /\ New(cs[k].with, w) =>
            /\ \A t \in Triples : f[t] = cs[k].with => t = cs[k].on
            /\ \A m \in 1 .. Len(cs) : Ties(cs[m]) /\ cs[m].with = cs[k].with => cs[m].on = cs[k].on
  /\ \A i \in 1 .. Len(v) : v[i].op = "repoint_relation" =>
       /\ \A k \in 1 .. Len(cs) : Ties(cs[k]) => cs[k].on # v[i].target
       /\ f[v[i].target] = NoEdge \/ \E k \in 1 .. Len(cs) : Cuts(cs[k], v[i].target)
  /\ \A k \in 1 .. Len(cs) : cs[k].do = "relabel_entity_type" => v = <<>> /\ Len(cs) = 1

(* A call brings an edit further.                                          *)
LEMMA RewiresGoes ==
  ASSUME NEW cs \in Seq(GoodCalls), cs # <<>>, NEW v \in Seq(GoodRows), NEW f \in Edges, NEW w \in Edges,
         NEW n \in Nat, Rewires(cs, v, w, f, n), NEW nd, NEW h, h = EdgeAfter(Head(cs), nd, f)
  PROVE  Rewires(Tail(cs), v, w, h, n)
<1> PICK c : c = Head(cs)
  OBVIOUS
<1> PICK z : z = Tail(cs)
  OBVIOUS
<1>1. /\ c \in GoodCalls /\ c = cs[1] /\ 1 \in 1 .. Len(cs) /\ z \in Seq(GoodCalls)
      /\ Len(z) \in Nat /\ Len(cs) = Len(z) + 1 /\ \A k \in 1 .. Len(z) : z[k] = cs[k + 1]
  BY SMTT(30)
<1>2. h \in Edges /\ (Adds(c, f, h) \/ Leaves(c, f, h))
  BY <1>1, EdgeEffect
<1>3. \A k \in 1 .. Len(z) : k + 1 \in 1 .. Len(cs) /\ z[k] = cs[k + 1]
  BY <1>1
<1>4. /\ \A t \in Triples : h[t] = NoEdge \/ h[t] = f[t] \/ (Adds(c, f, h) /\ t = c.on /\ h[t] = c.with)
      /\ \A t \in Triples : ~Breaks(c, t) => h[t] = f[t] \/ f[t] = NoEdge
      /\ \A t \in Triples : Cuts(c, t) => h[t] = NoEdge
  <2>1. CASE Leaves(c, f, h)
    BY <2>1 DEF Leaves, Within
  <2>2. CASE Adds(c, f, h)
    BY <2>2 DEF Adds, Put, Edges, Ties, Cuts
  <2> QED
    BY <1>2, <2>1, <2>2
<1>5. Adds(c, f, h) => /\ c.with <= n /\ CameFrom(v, c.on, c.with, w) /\ c.on \in Triples
                       /\ New(c.with, w) =>
                            /\ \A t \in Triples : f[t] = c.with => t = c.on
                            /\ \A m \in 1 .. Len(cs) : Ties(cs[m]) /\ cs[m].with = c.with => cs[m].on = c.on
  BY <1>1 DEF Rewires, Adds
<1>6. NotAbove(h, n)
  BY <1>4, <1>5 DEF Rewires, NotAbove
<1>7. \A t \in Triples : h[t] \in {NoEdge, w[t]} \/ CameFrom(v, t, h[t], w)
  BY <1>4, <1>5 DEF Rewires
<1>8. \A t, u \in Triples : h[t] = h[u] /\ h[t] # NoEdge /\ New(h[t], w) => t = u
  BY <1>4, <1>5 DEF Rewires
<1>9. ASSUME NEW k \in 1 .. Len(z), Ties(z[k])
      PROVE  /\ z[k].with <= n
             /\ \/ CameFrom(v, z[k].on, z[k].with, w)
                \/ h[z[k].on] # NoEdge /\ \A m \in 1 .. Len(z) : ~Breaks(z[m], z[k].on)
             /\ New(z[k].with, w) =>
                  /\ \A t \in Triples : h[t] = z[k].with => t = z[k].on
                  /\ \A m \in 1 .. Len(z) : Ties(z[m]) /\ z[m].with = z[k].with => z[m].on = z[k].on
  <2>1. k + 1 \in 1 .. Len(cs) /\ z[k] = cs[k + 1] /\ k + 1 # 1
    BY <1>3
  <2>2. z[k].on \in Triples /\ z[k].with \in Handles /\ NoEdge \notin Handles
    BY <1>1, <1>9, CallFacts, ConstantsAssumption DEF Ties, ConstantsAssumption
  <2>3. /\ z[k].with <= n
        /\ \/ CameFrom(v, z[k].on, z[k].with, w)
           \/ f[z[k].on] # NoEdge /\ \A m \in 1 .. Len(cs) : ~Breaks(cs[m], z[k].on)
        /\ New(z[k].with, w) =>
             /\ \A t \in Triples : f[t] = z[k].with => t = z[k].on
             /\ \A m \in 1 .. Len(cs) : Ties(cs[m]) /\ cs[m].with = z[k].with => cs[m].on = z[k].on
    BY <1>9, <2>1 DEF Rewires
  <2>4. f[z[k].on] # NoEdge /\ (\A m \in 1 .. Len(cs) : ~Breaks(cs[m], z[k].on)) =>
          h[z[k].on] # NoEdge /\ \A m \in 1 .. Len(z) : ~Breaks(z[m], z[k].on)
    BY <1>1, <1>3, <1>4, <2>2
  <2>5. New(z[k].with, w) => \A t \in Triples : h[t] = z[k].with => t = z[k].on
    <3> SUFFICES ASSUME New(z[k].with, w), NEW t \in Triples, h[t] = z[k].with, t # z[k].on PROVE FALSE
      OBVIOUS
    <3>1. Adds(c, f, h) /\ c.with = z[k].with /\ t = c.on
      BY <1>4, <2>2, <2>3
    <3> QED
      BY <1>5, <2>1, <1>9, <3>1
  <2>6. New(z[k].with, w) =>
          \A m \in 1 .. Len(z) : Ties(z[m]) /\ z[m].with = z[k].with => z[m].on = z[k].on
    BY <1>3, <2>3
  <2> QED
    BY <2>3, <2>4, <2>5, <2>6
<1>10. ASSUME NEW i \in 1 .. Len(v), v[i].op = "repoint_relation"
       PROVE  /\ \A k \in 1 .. Len(z) : Ties(z[k]) => z[k].on # v[i].target
              /\ h[v[i].target] = NoEdge \/ \E k \in 1 .. Len(z) : Cuts(z[k], v[i].target)
  <2>0. v[i].target \in Triples
    BY <1>10, RowFacts
  <2>1. /\ \A k \in 1 .. Len(cs) : Ties(cs[k]) => cs[k].on # v[i].target
        /\ f[v[i].target] = NoEdge \/ \E k \in 1 .. Len(cs) : Cuts(cs[k], v[i].target)
    BY <1>10 DEF Rewires
  <2>2. \A k \in 1 .. Len(z) : Ties(z[k]) => z[k].on # v[i].target
    BY <1>3, <2>1
  <2>3. ~Adds(c, f, h) \/ c.on # v[i].target
    BY <1>1, <2>1 DEF Adds
  <2>4. CASE f[v[i].target] = NoEdge
    BY <1>4, <2>0, <2>2, <2>3, <2>4
  <2>5. CASE \E k \in 1 .. Len(cs) : Cuts(cs[k], v[i].target)
    <3>1. PICK k \in 1 .. Len(cs) : Cuts(cs[k], v[i].target)
      BY <2>5
    <3>2. CASE k = 1
      BY <1>1, <1>4, <2>0, <2>2, <3>1, <3>2
    <3>3. CASE k # 1
      <4>1. k - 1 \in 1 .. Len(z) /\ z[k - 1] = cs[k]
        BY <1>1, <3>3
      <4> QED
        BY <2>2, <3>1, <4>1
    <3> QED
      BY <3>2, <3>3
  <2> QED
    BY <2>1, <2>4, <2>5
<1>11. \A k \in 1 .. Len(z) : z[k].do = "relabel_entity_type" => v = <<>> /\ Len(z) = 1
  BY <1>1, <1>3 DEF Rewires
<1>12. OneEach(w) /\ Tells(v, w)
  BY DEF Rewires
<1>13. Rewires(z, v, w, h, n)
  BY <1>6, <1>7, <1>8, <1>9, <1>10, <1>11, <1>12 DEF Rewires
<1> QED
  BY <1>13

(* Sequences in one: what there is in it is of one of them, behind what is *)
(* before it there, and nothing is left out.                               *)
Arises(s, parts, k) ==
  \E i \in DOMAIN parts : \E m \in 1 .. Len(parts[i]) :
    s[k] = parts[i][m] /\ \A j \in 1 .. m - 1 : \E l \in 1 .. k - 1 : s[l] = parts[i][j]
FromParts(s, parts) == \A k \in 1 .. Len(s) : Arises(s, parts, k)
Includes(s, z) == \A m \in 1 .. Len(z) : \E k \in 1 .. Len(s) : s[k] = z[m]

LEMMA JoinArises ==
  ASSUME NEW A, NEW parts \in Seq(Seq(A)), NEW s \in Seq(A), NEW i \in DOMAIN parts,
         FromParts(s, parts), NEW u, u = s \o parts[i]
  PROVE  /\ u \in Seq(A) /\ FromParts(u, parts)
         /\ Includes(u, parts[i]) /\ \A z : Includes(s, z) => Includes(u, z)
<1> PICK t : t = parts[i]
  OBVIOUS
<1>1. /\ t \in Seq(A) /\ u \in Seq(A) /\ Len(u) = Len(s) + Len(t) /\ Len(s) \in Nat /\ Len(t) \in Nat
      /\ \A k \in 1 .. Len(s) : u[k] = s[k]
      /\ \A k \in 1 .. Len(t) : u[Len(s) + k] = t[k]
  <2>1. \A x, y \in Seq(A) : /\ x \o y \in Seq(A) /\ Len(x \o y) = Len(x) + Len(y)
                             /\ Len(x) \in Nat /\ Len(y) \in Nat
                             /\ \A k \in 1 .. Len(x) : (x \o y)[k] = x[k]
                             /\ \A k \in 1 .. Len(y) : (x \o y)[Len(x) + k] = y[k]
    OBVIOUS
  <2>2. t \in Seq(A) /\ u = s \o t
    OBVIOUS
  <2> QED
    BY <2>1, <2>2
<1>2. ASSUME NEW k \in 1 .. Len(u) PROVE Arises(u, parts, k)
  <2>1. CASE k \in 1 .. Len(s)
    <3>1. PICK j \in DOMAIN parts : \E m \in 1 .. Len(parts[j]) :
            s[k] = parts[j][m] /\ \A d \in 1 .. m - 1 : \E l \in 1 .. k - 1 : s[l] = parts[j][d]
      BY <2>1 DEF Arises, FromParts
    <3>2. PICK m \in 1 .. Len(parts[j]) :
            s[k] = parts[j][m] /\ \A d \in 1 .. m - 1 : \E l \in 1 .. k - 1 : s[l] = parts[j][d]
      BY <3>1
    <3>3. \A l \in 1 .. k - 1 : u[l] = s[l]
      BY <1>1, <2>1
    <3>4. \A d \in 1 .. m - 1 : \E l \in 1 .. k - 1 : u[l] = parts[j][d]
      BY <3>2, <3>3
    <3>5. u[k] = parts[j][m]
      BY <1>1, <2>1, <3>2
    <3> QED
      BY <3>4, <3>5 DEF Arises
  <2>2. CASE k \notin 1 .. Len(s)
    <3>1. PICK m : m = k - Len(s)
      OBVIOUS
    <3>2. m \in 1 .. Len(t) /\ k = Len(s) + m
      BY <1>1, <2>2, <3>1
    <3>3. u[k] = parts[i][m]
      BY <1>1, <3>2
    <3>4. ASSUME NEW d \in 1 .. m - 1 PROVE \E l \in 1 .. k - 1 : u[l] = parts[i][d]
      <4>1. d \in 1 .. Len(t) /\ Len(s) + d \in 1 .. k - 1
        BY <1>1, <3>2
      <4> QED
        BY <1>1, <4>1
    <3>5. m \in 1 .. Len(parts[i])
      BY <3>2
    <3> QED
      BY <3>3, <3>4, <3>5 DEF Arises
  <2> QED
    BY <2>1, <2>2
<1>3. Includes(u, t)
  <2>1. \A m \in 1 .. Len(t) : Len(s) + m \in 1 .. Len(u)
    BY <1>1
  <2> QED
    BY <1>1, <2>1 DEF Includes
<1>4. ASSUME NEW z, Includes(s, z) PROVE Includes(u, z)
  <2>1. \A k \in 1 .. Len(s) : k \in 1 .. Len(u)
    BY <1>1
  <2> QED
    BY <1>1, <1>4, <2>1 DEF Includes
<1> QED
  BY <1>1, <1>2, <1>3, <1>4 DEF FromParts

LEMMA FlattenHas ==
  ASSUME NEW A, NEW parts \in Seq(Seq(A)), NEW s, s = FlattenSeq(parts)
  PROVE  /\ s \in Seq(A)
         /\ FromParts(s, parts)
         /\ \A i \in DOMAIN parts : Includes(s, parts[i])
<1>0. ASSUME NEW i \in DOMAIN parts, NEW x \in Seq(A), FromParts(x, parts)
      PROVE  /\ x \o parts[i] \in Seq(A) /\ FromParts(x \o parts[i], parts)
             /\ Includes(x \o parts[i], parts[i]) /\ \A z : Includes(x, z) => Includes(x \o parts[i], z)
  BY <1>0, JoinArises
<1> PICK n : n = Len(parts)
  OBVIOUS
<1>1. n \in Nat /\ DOMAIN parts = 1 .. n /\ \A i \in 1 .. n : parts[i] \in Seq(A)
  OBVIOUS
<1>2. CASE n = 0
  <2>1. s = <<>>
    <3>1. Len(parts) = 0
      BY <1>2
    <3> QED
      BY <3>1 DEF FlattenSeq
  <2>2. s \in Seq(A) /\ Len(s) = 0
    BY <2>1
  <2> QED
    BY <1>1, <1>2, <2>2 DEF FromParts
<1>3. CASE n # 0
  <2>1. PICK f : Flattens(parts, f, n) /\ s = f[n]
    BY <1>1, <1>3, FlattenIs
  <2>2. ASSUME NEW i \in 1 .. n PROVE f[i] = IF i = 1 THEN parts[i] ELSE f[i - 1] \o parts[i]
    <3>1. f = [j \in 1 .. n |-> IF j = 1 THEN parts[j] ELSE f[j - 1] \o parts[j]]
      BY <2>1 DEF Flattens
    <3> QED
      BY <3>1
  <2> DEFINE Good(x, k) == /\ x \in Seq(A) /\ FromParts(x, parts)
                           /\ \A i \in 1 .. k : Includes(x, parts[i])
             Bad == {k \in 1 .. n : ~Good(f[k], k)}
  <2>3. Good(f[1], 1)
    <3>1. f[1] = parts[1] /\ 1 \in DOMAIN parts /\ parts[1] \in Seq(A)
      BY <1>1, <1>3, <2>2
    <3>2. <<>> \in Seq(A) /\ Len(<<>>) = 0 /\ \A x \in Seq(A) : x = <<>> \o x
      OBVIOUS
    <3>3. FromParts(<<>>, parts)
      BY <3>2 DEF FromParts
    <3>4. /\ f[1] \in Seq(A) /\ FromParts(f[1], parts)
          /\ Includes(f[1], parts[1])
      <4>1. f[1] = <<>> \o parts[1]
        BY <3>1, <3>2
      <4> QED
        BY <3>1, <3>2, <3>3, <4>1, JoinArises
    <3>5. \A i \in 1 .. 1 : i = 1
      OBVIOUS
    <3> QED
      BY <3>4, <3>5
  <2>4. ASSUME NEW m \in 1 .. n, m # 1, Good(f[m - 1], m - 1) PROVE Good(f[m], m)
    <3>1. f[m] = f[m - 1] \o parts[m] /\ m \in DOMAIN parts
      BY <1>1, <2>2, <2>4
    <3>2. /\ f[m] \in Seq(A) /\ FromParts(f[m], parts)
          /\ Includes(f[m], parts[m]) /\ \A z : Includes(f[m - 1], z) => Includes(f[m], z)
      <4>1. f[m - 1] \in Seq(A) /\ FromParts(f[m - 1], parts)
        BY <2>4
      <4> HIDE DEF Good
      <4> QED
        BY <1>0, <3>1, <4>1
    <3>3. \A i \in 1 .. m : i = m \/ i \in 1 .. m - 1
      BY <1>1
    <3>4. ASSUME NEW i \in 1 .. m PROVE Includes(f[m], parts[i])
      BY <2>4, <3>2, <3>3
    <3> QED
      BY <3>2, <3>4
  <2> HIDE DEF Good
  <2>5. Bad = {}
    <3> SUFFICES ASSUME Bad # {} PROVE FALSE
      OBVIOUS
    <3>1. Bad \subseteq Nat
      OBVIOUS
    <3>2. PICK m \in Bad : \A k \in Bad : m <= k
      <4> HIDE DEF Bad
      <4> QED
        BY <3>1, LeastNat
    <3>3. m \in 1 .. n /\ ~Good(f[m], m) /\ m # 1
      BY <2>3, <3>2
    <3>4. m - 1 \in 1 .. n /\ ~(m <= m - 1)
      BY <3>3
    <3>5. Good(f[m - 1], m - 1)
      BY <3>2, <3>4
    <3> QED
      BY <2>4, <3>3, <3>5
  <2>6. Good(f[n], n)
    <3>1. n \in 1 .. n
      BY <1>1, <1>3
    <3> QED
      BY <2>5, <3>1
  <2> QED
    BY <1>1, <2>1, <2>6 DEF Good
<1> QED
  BY <1>2, <1>3

(* What the inverse of a row ties, and what it cuts first.                 *)
LEMMA InverseTies ==
  ASSUME NEW row \in GoodRows, NEW k \in 1 .. Len(InverseOf(row)), Ties(InverseOf(row)[k])
  PROVE  LET c == InverseOf(row)[k]
         IN  \/ /\ row.op \in EdgeRows /\ c.on = row.target /\ c.with = row.before
                /\ row.op = "repoint_relation" => k = 2
             \/ row.op = "delete_relations" /\ c.on \in DOMAIN row.before /\ c.with = row.before[c.on]
<1>1. CASE row.op = "delete_relations"
  <2> DEFINE s == SetToSeq(DOMAIN row.before)
  <2>1. InverseOf(row) = [i \in DOMAIN s |-> Call("create_relation", s[i], row.before[s[i]])]
    BY <1>1 DEF InverseOf, PutBack
  <2>2. k \in DOMAIN InverseOf(row)
    BY InverseTyped
  <2>3. s[k] \in DOMAIN row.before
    <3>1. DOMAIN row.before \subseteq Triples
      BY <1>1, RowFacts DEF Partial
    <3>2. IsFiniteSet(DOMAIN row.before)
      BY <3>1, FiniteStores, FS_Subset
    <3>3. s \in Seq(DOMAIN row.before)
      BY <3>2, SetToSeqIs
    <3> HIDE DEF s
    <3>4. k \in DOMAIN s
      BY <2>1, <2>2
    <3> QED
      BY <3>3, <3>4
  <2> HIDE DEF s
  <2>4. InverseOf(row)[k] = Call("create_relation", s[k], row.before[s[k]])
    BY <2>1, <2>2
  <2> QED
    BY <1>1, <2>3, <2>4 DEF Call
<1>2. CASE row.op = "repoint_relation"
  <2>1. InverseOf(row) = <<Call("delete_relation", row.after, NoImage),
                           Call("create_relation", row.target, row.before)>>
    BY <1>2 DEF InverseOf
  <2>2. \/ k = 1 /\ InverseOf(row)[k] = Call("delete_relation", row.after, NoImage)
        \/ k = 2 /\ InverseOf(row)[k] = Call("create_relation", row.target, row.before)
    BY <2>1
  <2> QED
    BY <1>2, <2>2 DEF Ties, Call, EdgeRows
<1>3. CASE row.op \in EdgeRows /\ row.op # "repoint_relation"
  <2>1. InverseOf(row) = <<Call("create_relation", row.target, row.before)>>
    BY <1>3 DEF InverseOf, EdgeRows
  <2>2. InverseOf(row)[k] = Call("create_relation", row.target, row.before)
    BY <2>1
  <2> QED
    BY <1>3, <2>2, SMTT(30) DEF Call
<1>4. CASE row.op = "delete_mentions"
  <2> DEFINE s == SetToSeq(DOMAIN row.before)
  <2>1. InverseOf(row) = [i \in DOMAIN s |-> Call("add_mention", s[i], row.before[s[i]])]
    BY <1>4 DEF InverseOf, PutBack
  <2>2. k \in DOMAIN InverseOf(row)
    BY InverseTyped
  <2> HIDE DEF s
  <2>3. InverseOf(row)[k] = Call("add_mention", s[k], row.before[s[k]])
    BY <2>1, <2>2
  <2> QED
    BY <2>3 DEF Call, Ties
<1>5. CASE row.op = "add_relation"
  <2>1. InverseOf(row) = IF row.after THEN <<>> ELSE <<Call("delete_relation", row.target, NoImage)>>
    BY <1>5 DEF InverseOf
  <2>2. InverseOf(row)[k] = Call("delete_relation", row.target, NoImage)
    BY <2>1
  <2> QED
    BY <2>2 DEF Call, Ties
<1>6. CASE row.op \in {"delete_absorbed", "delete_entity", "edit_fields", "merge_consolidate", "add_mention",
                       "suppress_span", "edit_mention_span", "repoint_mentions", "create_entity_from_tag"}
  <2>1. \E do, on, with :
          /\ do \in {"create_entity", "restore_fields", "delete_mention", "delete_suppression",
                     "update_mention_span", "reassign_mentions", "delete_entity"}
          /\ InverseOf(row) = <<Call(do, on, with)>>
    BY <1>6 DEF InverseOf
  <2>2. PICK do, on, with :
          /\ do \in {"create_entity", "restore_fields", "delete_mention", "delete_suppression",
                     "update_mention_span", "reassign_mentions", "delete_entity"}
          /\ InverseOf(row) = <<Call(do, on, with)>>
    BY <2>1
  <2>3. InverseOf(row)[k] = Call(do, on, with)
    BY <2>2
  <2> QED
    BY <2>2, <2>3, SMTT(30) DEF Call, Ties
<1> QED
  BY <1>1, <1>2, <1>3, <1>4, <1>5, <1>6 DEF GoodRows, EdgeRows

LEMMA InverseCuts ==
  ASSUME NEW row
  PROVE  /\ row.op = "repoint_relation" =>
              Len(InverseOf(row)) = 2 /\ Cuts(InverseOf(row)[1], row.after)
         /\ row.op = "add_relation" /\ ~row.after =>
              Len(InverseOf(row)) = 1 /\ Cuts(InverseOf(row)[1], row.target)
BY DEF InverseOf, Cuts, Call

(* An edit that is done: its rows take the edges back.                     *)
LEMMA RewiresEnds ==
  ASSUME NEW v \in Seq(GoodRows), NEW f \in Edges, NEW w \in Edges, NEW n, Rewires(<<>>, v, w, f, n),
         NEW op, NEW at
  PROVE  Unwinds(InversePlan(Logged(op, at, v)), f, w)
<1> PICK r : r = Len(v)
  OBVIOUS
<1> DEFINE H == HighestFirst(Logged(op, at, v))
           parts == [i \in DOMAIN H |-> InverseOf(H[i].row)]
<1> PICK cs : cs = InversePlan(Logged(op, at, v))
  OBVIOUS
<1>0. r \in Nat /\ \A i \in 1 .. r : v[i] \in GoodRows
  OBVIOUS
<1>1. DOMAIN H = 1 .. r /\ \A i \in 1 .. r : H[i].row = v[r + 1 - i]
  BY LoggedBackward DEF Backward, Entry
<1> HIDE DEF H
<1>2. DOMAIN parts = 1 .. r /\ \A i \in 1 .. r : parts[i] = InverseOf(v[r + 1 - i])
  BY <1>1
<1>3. cs = FlattenSeq(parts)
  BY DEF InversePlan, H
<1>4. parts \in Seq(Seq(GoodCalls))
  <2>1. parts = [i \in 1 .. r |-> parts[i]]
    BY <1>1
  <2>2. ASSUME NEW i \in 1 .. r PROVE parts[i] \in Seq(GoodCalls)
    <3>1. v[r + 1 - i] \in GoodRows
      BY <1>0
    <3> QED
      BY <1>2, <3>1, InverseTyped
  <2> HIDE DEF parts
  <2> QED
    BY <1>0, <2>1, <2>2
<1> HIDE DEF parts
<1>5. cs \in Seq(GoodCalls) /\ FromParts(cs, parts) /\ \A i \in 1 .. r : Includes(cs, parts[i])
  BY <1>2, <1>3, <1>4, FlattenHas
<1>6. ASSUME NEW i \in 1 .. r PROVE Includes(cs, InverseOf(v[i]))
  <2>1. r + 1 - i \in 1 .. r /\ r + 1 - (r + 1 - i) = i
    BY <1>0
  <2> QED
    BY <1>2, <1>5, <2>1
<1>7. ASSUME NEW k \in 1 .. Len(cs)
      PROVE  \E i \in 1 .. r : \E m \in 1 .. Len(InverseOf(v[i])) :
               cs[k] = InverseOf(v[i])[m]
               /\ \A j \in 1 .. m - 1 : \E l \in 1 .. k - 1 : cs[l] = InverseOf(v[i])[j]
  <2>1. Arises(cs, parts, k)
    BY <1>5 DEF FromParts
  <2>2. PICK d \in 1 .. r : \E m \in 1 .. Len(parts[d]) :
          cs[k] = parts[d][m] /\ \A j \in 1 .. m - 1 : \E l \in 1 .. k - 1 : cs[l] = parts[d][j]
    BY <1>2, <2>1 DEF Arises
  <2>3. PICK i \in 1 .. r : parts[d] = InverseOf(v[i])
    <3>1. r + 1 - d \in 1 .. r
      BY <1>0
    <3> QED
      BY <1>2, <3>1
  <2>4. PICK m \in 1 .. Len(parts[d]) :
          cs[k] = parts[d][m] /\ \A j \in 1 .. m - 1 : \E l \in 1 .. k - 1 : cs[l] = parts[d][j]
    BY <2>2
  <2>5. m \in 1 .. Len(InverseOf(v[i])) /\ cs[k] = InverseOf(v[i])[m]
    BY <2>3, <2>4
  <2>6. \A j \in 1 .. m - 1 : \E l \in 1 .. k - 1 : cs[l] = InverseOf(v[i])[j]
    BY <2>3, <2>4
  <2> QED
    BY <2>5, <2>6
<1>8. /\ OneEach(w) /\ Tells(v, w)
      /\ \A t \in Triples : f[t] \in {NoEdge, w[t]} \/ CameFrom(v, t, f[t], w)
      /\ \A t, u \in Triples : f[t] = f[u] /\ f[t] # NoEdge /\ New(f[t], w) => t = u
      /\ \A i \in 1 .. r : v[i].op = "repoint_relation" => f[v[i].target] = NoEdge
  BY DEF Rewires
(* An edge of a handle there was is that edge, or moved from it.           *)
<1>9. ASSUME NEW t \in Triples, NEW s \in Triples, f[t] = w[s], f[t] \notin {NoEdge, Legacy}
      PROVE  \/ t = s
             \/ \E i \in 1 .. r : v[i].op = "repoint_relation" /\ v[i].after = t /\ v[i].target = s
  <2>1. ~New(f[t], w)
    BY <1>9 DEF New
  <2>2. CASE f[t] = w[t]
    BY <1>8, <1>9, <2>2 DEF OneEach
  <2>3. CASE f[t] # w[t]
    <3>1. PICK i \in 1 .. r : v[i].op = "repoint_relation" /\ v[i].after = t /\ v[i].before = f[t]
      BY <1>8, <1>9, <2>1, <2>3 DEF CameFrom
    <3>2. v[i].target \in Triples /\ w[v[i].target] = f[t]
      <4>1. v[i].target \in Triples
        BY <1>0, <3>1, RowFacts
      <4>2. v[i].before = w[v[i].target]
        BY <1>8, <3>1 DEF Tells, EdgeRows
      <4> QED
        BY <3>1, <4>1, <4>2
    <3>3. v[i].target = s
      BY <1>8, <1>9, <3>2 DEF OneEach
    <3> QED
      BY <3>1, <3>3
  <2> QED
    BY <2>2, <2>3
<1>10. OneEach(f)
  <2> SUFFICES ASSUME NEW t \in Triples, NEW u \in Triples, f[t] = f[u], f[t] \notin {NoEdge, Legacy} PROVE t = u
    BY DEF OneEach
  <2>1. CASE New(f[t], w)
    BY <1>8, <2>1
  <2>2. CASE ~New(f[t], w)
    <3>1. PICK s \in Triples : w[s] = f[t]
      BY <2>2 DEF New
    <3>2. \A i \in 1 .. r : v[i].op = "repoint_relation" => v[i].target \notin {t, u}
      BY <1>8
    <3>3. t = s \/ \E i \in 1 .. r : v[i].op = "repoint_relation" /\ v[i].after = t /\ v[i].target = s
      BY <1>9, <3>1
    <3>4. u = s \/ \E i \in 1 .. r : v[i].op = "repoint_relation" /\ v[i].after = u /\ v[i].target = s
      BY <1>9, <3>1
    <3>5. \A i, j \in 1 .. r : v[i].op = "repoint_relation" /\ v[j].op = "repoint_relation"
                               /\ v[i].target = v[j].target => i = j
      BY <1>8 DEF Tells, EdgeRows
    <3> QED
      BY <3>2, <3>3, <3>4, <3>5
  <2> QED
    BY <2>1, <2>2
<1>11. ASSUME NEW t \in Triples, f[t] \notin {NoEdge, w[t]} PROVE \E k \in 1 .. Len(cs) : Cuts(cs[k], t)
  <2>1. PICK i \in 1 .. r : \/ v[i].op = "repoint_relation" /\ v[i].after = t
                            \/ v[i].op = "add_relation" /\ v[i].target = t /\ ~v[i].after
    BY <1>8, <1>11 DEF CameFrom
  <2>2. 1 \in 1 .. Len(InverseOf(v[i])) /\ Cuts(InverseOf(v[i])[1], t)
    BY <2>1, InverseCuts
  <2>3. \E k \in 1 .. Len(cs) : cs[k] = InverseOf(v[i])[1]
    BY <1>6, <2>2 DEF Includes
  <2> QED
    BY <2>2, <2>3
<1>12. ASSUME NEW k \in 1 .. Len(cs), Ties(cs[k])
       PROVE  /\ cs[k].with = w[cs[k].on]
              /\ \A u \in Triples : u # cs[k].on /\ f[u] = cs[k].with /\ f[u] \notin {NoEdge, Legacy} =>
                   \E m \in 1 .. k - 1 : Cuts(cs[m], u)
  <2>0. cs[k].on \in Triples
    BY <1>5, <1>12, CallFacts DEF Ties
  <2>1. PICK i \in 1 .. r : \E m \in 1 .. Len(InverseOf(v[i])) :
               cs[k] = InverseOf(v[i])[m]
               /\ \A j \in 1 .. m - 1 : \E l \in 1 .. k - 1 : cs[l] = InverseOf(v[i])[j]
    BY <1>7
  <2>2. PICK m \in 1 .. Len(InverseOf(v[i])) :
               cs[k] = InverseOf(v[i])[m]
               /\ \A j \in 1 .. m - 1 : \E l \in 1 .. k - 1 : cs[l] = InverseOf(v[i])[j]
    BY <2>1
  <2>3. v[i] \in GoodRows
    BY <1>0
  <2>4. \/ /\ v[i].op \in EdgeRows /\ cs[k].on = v[i].target /\ cs[k].with = v[i].before
           /\ v[i].op = "repoint_relation" => m = 2
        \/ v[i].op = "delete_relations" /\ cs[k].on \in DOMAIN v[i].before /\ cs[k].with = v[i].before[cs[k].on]
    BY <1>12, <2>2, <2>3, InverseTies
  <2>5. cs[k].with = w[cs[k].on]
    BY <1>8, <2>4 DEF Tells
  <2>6. ASSUME NEW u \in Triples, u # cs[k].on, f[u] = cs[k].with, f[u] \notin {NoEdge, Legacy}
        PROVE  \E l \in 1 .. k - 1 : Cuts(cs[l], u)
    <3>1. \E j \in 1 .. r : v[j].op = "repoint_relation" /\ v[j].after = u /\ v[j].target = cs[k].on
      BY <1>9, <2>0, <2>5, <2>6
    <3>2. PICK j \in 1 .. r : v[j].op = "repoint_relation" /\ v[j].after = u /\ v[j].target = cs[k].on
      BY <3>1
    <3>3. v[i].op \in EdgeRows /\ v[i].target = v[j].target /\ v[j].op \in EdgeRows
      BY <1>8, <2>4, <3>2 DEF Tells, EdgeRows
    <3>4. i = j
      BY <1>8, <3>3 DEF Tells
    <3>5. m = 2 /\ Cuts(InverseOf(v[i])[1], u)
      BY <2>4, <3>2, <3>4, InverseCuts DEF EdgeRows
    <3>6. 1 \in 1 .. m - 1
      BY <3>5
    <3>7. \E l \in 1 .. k - 1 : cs[l] = InverseOf(v[i])[1]
      BY <2>2, <3>6
    <3> QED
      BY <3>5, <3>7
  <2> QED
    BY <2>5, <2>6
<1> QED
  BY <1>8, <1>10, <1>11, <1>12 DEF Unwinds

(* What the calls fill in of the rows is not about edges.                  *)
AlikeOnEdges(u, v) ==
  /\ Len(u) = Len(v)
  /\ \A i \in 1 .. Len(v) : u[i] = v[i] \/ (u[i].op = "repoint_mentions" /\ v[i].op = "repoint_mentions")

LEMMA AlikeRewires ==
  ASSUME NEW cs, NEW v, NEW w, NEW f, NEW n, Rewires(cs, v, w, f, n), NEW u, AlikeOnEdges(u, v),
         \A k \in 1 .. Len(cs) : cs[k].do # "relabel_entity_type"
  PROVE  Rewires(cs, u, w, f, n)
<1>1. /\ Len(u) = Len(v)
      /\ \A i \in 1 .. Len(v) : u[i] = v[i] \/ (u[i].op = "repoint_mentions" /\ v[i].op = "repoint_mentions")
  BY DEF AlikeOnEdges
<1>2. \A t, h : CameFrom(v, t, h, w) => CameFrom(u, t, h, w)
  BY <1>1 DEF CameFrom
<1>3. \A i \in 1 .. Len(u) : u[i].op # "repoint_mentions" => i \in 1 .. Len(v) /\ u[i] = v[i]
  BY <1>1
<1>4. Tells(u, w)
  <2>1. Tells(v, w)
    BY DEF Rewires
  <2>2. \A i \in 1 .. Len(u) : u[i].op \in EdgeRows \cup {"delete_relations", "repoint_relation"} =>
          i \in 1 .. Len(v) /\ u[i] = v[i]
    BY <1>3 DEF EdgeRows
  <2>3. \A i \in 1 .. Len(u) : u[i].op \in EdgeRows => u[i].before = w[u[i].target]
    BY <2>1, <2>2 DEF Tells
  <2>4. \A i, j \in 1 .. Len(u) :
          u[i].op \in EdgeRows /\ u[j].op \in EdgeRows /\ u[i].target = u[j].target => i = j
    BY <2>1, <2>2 DEF Tells
  <2>5. \A i \in 1 .. Len(u) : u[i].op = "delete_relations" =>
          /\ \A t \in DOMAIN u[i].before : u[i].before[t] = w[t]
          /\ \A j \in 1 .. Len(u) : u[j].op # "repoint_relation"
    BY <2>1, <2>2 DEF Tells
  <2> QED
    BY <2>3, <2>4, <2>5 DEF Tells
<1>5. ASSUME NEW i \in 1 .. Len(u), u[i].op = "repoint_relation"
      PROVE  /\ \A k \in 1 .. Len(cs) : Ties(cs[k]) => cs[k].on # u[i].target
             /\ f[u[i].target] = NoEdge \/ \E k \in 1 .. Len(cs) : Cuts(cs[k], u[i].target)
  <2>1. i \in 1 .. Len(v) /\ u[i] = v[i]
    BY <1>3, <1>5
  <2> QED
    BY <1>5, <2>1 DEF Rewires
<1>6. /\ OneEach(w) /\ NotAbove(f, n)
      /\ \A t \in Triples : f[t] \in {NoEdge, w[t]} \/ CameFrom(u, t, f[t], w)
      /\ \A t, s \in Triples : f[t] = f[s] /\ f[t] # NoEdge /\ New(f[t], w) => t = s
  BY <1>2 DEF Rewires
<1>7. ASSUME NEW k \in 1 .. Len(cs), Ties(cs[k])
      PROVE  /\ cs[k].with <= n
             /\ \/ CameFrom(u, cs[k].on, cs[k].with, w)
                \/ f[cs[k].on] # NoEdge /\ \A m \in 1 .. Len(cs) : ~Breaks(cs[m], cs[k].on)
             /\ New(cs[k].with, w) =>
                  /\ \A t \in Triples : f[t] = cs[k].with => t = cs[k].on
                  /\ \A m \in 1 .. Len(cs) : Ties(cs[m]) /\ cs[m].with = cs[k].with => cs[m].on = cs[k].on
  BY <1>2, <1>7 DEF Rewires
<1> QED
  BY <1>4, <1>5, <1>6, <1>7 DEF Rewires

LEMMA EditRewires ==
  ASSUME NEW cs \in Seq(GoodCalls), cs # <<>>, NEW v \in Seq(GoodRows), NEW w \in Edges, NEW n \in Nat,
         NEW gr, gr.edge \in Edges, Rewires(cs, v, w, gr.edge, n), NEW c, c = Head(cs),
         NEW u, u = RowsAfter(c, gr, v), NEW h, h = EdgeAfter(c, gr.node, gr.edge)
  PROVE  Rewires(Tail(cs), u, w, h, n)
<1> PICK z : z = Tail(cs)
  OBVIOUS
<1>1. Rewires(z, v, w, h, n)
  BY RewiresGoes
<1>2. /\ z \in Seq(GoodCalls) /\ c = cs[1] /\ 1 \in 1 .. Len(cs)
      /\ Len(z) \in Nat /\ Len(cs) = Len(z) + 1 /\ \A k \in 1 .. Len(z) : k + 1 \in 1 .. Len(cs) /\ z[k] = cs[k + 1]
  BY SMTT(30)
<1>3. CASE c.do = "relabel_entity_type"
  <2>1. v = <<>> /\ Len(cs) = 1
    BY <1>2, <1>3 DEF Rewires
  <2>2. Len(v) = 0 /\ Len(z) = 0
    BY <1>2, <2>1
  <2>3. \A i \in 1 .. Len(u) : u[i].op = "edit_fields"
    <3> PICK s : s = SetToSeq(OfType(gr.node, c.on))
      OBVIOUS
    <3>1. u = [i \in DOMAIN s |-> Row("edit_fields", s[i], [type |-> c.on], [type |-> c.with])]
      BY <1>3 DEF RowsAfter, Relabelling
    <3>2. DOMAIN s = 1 .. Cardinality(OfType(gr.node, c.on)) /\ Cardinality(OfType(gr.node, c.on)) \in Nat
      <4> DEFINE S == OfType(gr.node, c.on)
      <4>1. IsFiniteSet(S)
        BY ConstantsAssumption, FS_Subset DEF ConstantsAssumption, OfType
      <4> HIDE DEF S
      <4> DEFINE y == SetToSeq(S)
      <4>2. DOMAIN y = 1 .. Cardinality(S) /\ Cardinality(S) \in Nat
        BY <4>1, SetToSeqIs
      <4> QED
        BY <4>2 DEF S
    <3>3. Len(u) = Cardinality(OfType(gr.node, c.on)) /\ DOMAIN u = DOMAIN s
      BY <3>1, <3>2
    <3> QED
      BY <3>1, <3>2, <3>3 DEF Row
  <2>4. \A t, x : ~CameFrom(v, t, x, w)
    BY <2>2 DEF CameFrom
  <2>5. Tells(u, w)
    BY <2>3, SMTT(30) DEF Tells, EdgeRows
  <2> QED
    BY <1>1, <2>2, <2>3, <2>4, <2>5 DEF Rewires
<1>4. CASE c.do # "relabel_entity_type"
  <2>1. ASSUME NEW k \in 1 .. Len(z) PROVE z[k].do # "relabel_entity_type"
    BY <1>2, <2>1, SMTT(30) DEF Rewires
  <2>2. AlikeOnEdges(u, v)
    <3>1. CASE c.do = "repoint_mentions"
      <4> PICK ids : ids = Naming(gr.mention, c.on)
        OBVIOUS
      <4>1. u = [i \in DOMAIN v |-> IF v[i].op = "repoint_mentions" THEN [v[i] EXCEPT !.before = ids] ELSE v[i]]
        BY <3>1 DEF RowsAfter, Telling
      <4>2. DOMAIN v = 1 .. Len(v) /\ Len(v) \in Nat /\ \A i \in 1 .. Len(v) : v[i] \in GoodRows
        OBVIOUS
      <4>3. Len(u) = Len(v)
        BY <4>1, <4>2
      <4>4. \A x \in GoodRows : x.op = "repoint_mentions" => [x EXCEPT !.before = ids].op = "repoint_mentions"
        BY DEF GoodRows
      <4> QED
        BY <4>1, <4>2, <4>3, <4>4, ZenonT(60) DEF AlikeOnEdges
    <3>2. CASE c.do # "repoint_mentions"
      <4>1. u = v
        BY <1>4, <3>2 DEF RowsAfter
      <4> QED
        BY <4>1 DEF AlikeOnEdges
    <3> QED
      BY <3>1, <3>2
  <2> QED
    BY <1>1, <2>1, <2>2, AlikeRewires
<1> QED
  BY <1>3, <1>4

-----------------------------------------------------------------------------
(* The edges that each live operation was begun on *)

(* Each operation is logged at a time of its own, and all of it is live or *)
(* none.                                                                   *)
Filed(g) ==
  /\ \A l \in g : l.at \in Nat
  /\ \A l, m \in g : (l.op = m.op <=> l.at = m.at) /\ (l.op = m.op => l.undone = m.undone)

Alive(g) == {l \in g : ~l.undone}
IsTop(g, l) == \A k \in Alive(g) : k.at <= l.at
JustBefore(g, l, m) == l.at < m.at /\ \A k \in Alive(g) : k.at <= l.at \/ m.at <= k.at
PlanOf(g, l) == InversePlan(OfOp(g, l.op))

(* The newest live operation takes edges f back towards those it was begun *)
(* on, b of its time, and each of the others what the next was begun on.   *)
Piled(g, f, b, n) ==
  /\ Filed(g) /\ OneEach(f) /\ NotAbove(f, n)
  /\ \A l \in Alive(g) : b[l.at] \in Edges /\ NotAbove(b[l.at], n)
  /\ \A l \in Alive(g) : IsTop(g, l) => Unwinds(PlanOf(g, l), f, b[l.at])
  /\ \A l, m \in Alive(g) : JustBefore(g, l, m) => Unwinds(PlanOf(g, l), b[m.at], b[l.at])
Heaped(g, f, n) == \E b : Piled(g, f, b, n)

LEMMA NothingPiled ==
  ASSUME NEW f, NEW n, OneEach(f), NotAbove(f, n), NEW b
  PROVE  Piled({}, f, b, n)
BY DEF Piled, Filed, Alive

(* Handles are given out, none are taken back.                             *)
LEMMA PiledLater ==
  ASSUME NEW g, NEW f \in Edges, NEW b, NEW n \in Nat, NEW m \in Nat, n <= m, Piled(g, f, b, n)
  PROVE  Piled(g, f, b, m)
<1>1. \A x \in Edges : NotAbove(x, n) => NotAbove(x, m)
  BY DEF NotAbove, Edges, Handles
<1> QED
  BY <1>1 DEF Piled

(* An operation that is logged goes on the pile.                           *)
LEMMA PileGrows ==
  ASSUME NEW g, NEW w \in Edges, NEW b, NEW n, Piled(g, w, b, n),
         NEW op, NEW time \in Nat, \A l \in g : l.at < time, OfOp(g, op) = {},
         NEW v \in Seq(GoodRows), NEW new, new = Logged(op, time, v),
         NEW h, h = g \cup new, NEW f, NotAbove(f, n), Unwinds(InversePlan(new), f, w), v # <<>>
  PROVE  Heaped(h, f, n)
<1> SUFFICES \E c : Piled(h, f, c, n)
  BY DEF Heaped
<1> PICK c : c = [t \in Nat |-> IF t = time THEN w ELSE b[t]]
  OBVIOUS
<1>1. \A l \in new : l.op = op /\ l.at = time /\ ~l.undone
  BY DEF Logged, Entry
<1>2. PICK e \in new : TRUE
  <2>1. 1 \in 1 .. Len(v)
    OBVIOUS
  <2> QED
    BY <2>1 DEF Logged
<1>3. /\ \A l \in g : l.at \in Nat
      /\ \A l, m \in g : (l.op = m.op <=> l.at = m.at) /\ (l.op = m.op => l.undone = m.undone)
  BY DEF Piled, Filed
<1>4. \A l \in g : l.op # op /\ l.at # time /\ ~(time < l.at) /\ ~(time <= l.at)
  BY <1>3 DEF OfOp
<1>5. Filed(h)
  <2>1. \A l \in h : l.at \in Nat
    BY <1>1, <1>3
  <2>2. ASSUME NEW l \in h, NEW m \in h
        PROVE  (l.op = m.op <=> l.at = m.at) /\ (l.op = m.op => l.undone = m.undone)
    <3>1. CASE l \in new /\ m \in new
      <4>1. l.undone = FALSE /\ m.undone = FALSE
        BY <3>1 DEF Logged, Entry
      <4> QED
        BY <1>1, <3>1, <4>1
    <3>2. CASE l \in g /\ m \in g
      BY <1>3, <3>2
    <3>3. CASE l \in g /\ m \in new
      <4>1. m.op = op /\ m.at = time /\ l.op # op /\ l.at # time
        BY <1>1, <1>4, <3>3
      <4> QED
        BY <4>1
    <3>4. CASE l \in new /\ m \in g
      <4>1. l.op = op /\ l.at = time /\ m.op # op /\ m.at # time
        BY <1>1, <1>4, <3>4
      <4> QED
        BY <4>1
    <3> QED
      BY <3>1, <3>2, <3>3, <3>4
  <2> QED
    BY <2>1, <2>2 DEF Filed
<1>6. \A l : l \in Alive(h) <=> l \in Alive(g) \/ l \in new
  BY <1>1 DEF Alive
<1>7. \A l \in g : PlanOf(h, l) = PlanOf(g, l)
  <2> SUFFICES ASSUME NEW l \in g PROVE OfOp(h, l.op) = OfOp(g, l.op)
    BY DEF PlanOf
  <2> QED
    BY <1>1, <1>4 DEF OfOp
<1>8. \A l \in new : PlanOf(h, l) = InversePlan(new)
  <2>1. OfOp(h, op) = new
    BY <1>1, <1>4 DEF OfOp
  <2> QED
    BY <1>1, <2>1 DEF PlanOf
<1>9. (\A l \in g : c[l.at] = b[l.at]) /\ (\A l \in new : c[l.at] = w)
  BY <1>1, <1>3, <1>4
<1>10. OneEach(w) /\ NotAbove(w, n) /\ OneEach(f)
  BY DEF Piled, Unwinds
<1>11. \A l \in Alive(h) : c[l.at] \in Edges /\ NotAbove(c[l.at], n)
  BY <1>6, <1>9, <1>10 DEF Piled, Alive
<1>12. ASSUME NEW l \in Alive(h), IsTop(h, l) PROVE Unwinds(PlanOf(h, l), f, c[l.at])
  <2>1. l \in new
    <3>1. e \in Alive(h) /\ time <= l.at
      BY <1>1, <1>2, <1>6, <1>12 DEF IsTop
    <3> QED
      BY <1>4, <1>6, <3>1 DEF Alive
  <2> QED
    BY <1>8, <1>9, <2>1
<1>13. ASSUME NEW l \in Alive(h), NEW m \in Alive(h), JustBefore(h, l, m) PROVE Unwinds(PlanOf(h, l), c[m.at], c[l.at])
  <2>1. l.at < m.at /\ \A k \in Alive(g) : k.at <= l.at \/ m.at <= k.at
    BY <1>6, <1>13 DEF JustBefore
  <2>2. CASE m \in new
    <3>1. l \in Alive(g) /\ m.at = time
      <4>1. m.at = time
        BY <1>1, <2>2
      <4>2. l \notin new
        BY <1>1, <2>1, <4>1
      <4> QED
        BY <1>6, <4>1, <4>2
    <3>2. IsTop(g, l)
      <4> SUFFICES ASSUME NEW k \in Alive(g) PROVE k.at <= l.at
        BY DEF IsTop
      <4> QED
        BY <1>4, <2>1, <3>1 DEF Alive
    <3>3. Unwinds(PlanOf(g, l), w, b[l.at])
      BY <3>1, <3>2 DEF Piled
    <3>4. l \in g
      BY <3>1 DEF Alive
    <3>5. c[m.at] = w /\ c[l.at] = b[l.at] /\ PlanOf(h, l) = PlanOf(g, l)
      BY <1>7, <1>9, <2>2, <3>4
    <3> QED
      BY <3>3, <3>5
  <2>3. CASE m \in Alive(g)
    <3>1. l \in Alive(g)
      BY <1>1, <1>4, <1>6, <2>1, <2>3 DEF Alive
    <3>2. Unwinds(PlanOf(g, l), b[m.at], b[l.at])
      BY <2>1, <2>3, <3>1 DEF Piled, JustBefore
    <3>3. l \in g /\ m \in g
      BY <2>3, <3>1 DEF Alive
    <3> QED
      BY <1>7, <1>9, <3>2, <3>3
  <2> QED
    BY <1>6, <2>2, <2>3
<1>14. Piled(h, f, c, n)
  BY <1>5, <1>10, <1>11, <1>12, <1>13 DEF Piled
<1> QED
  BY <1>14

(* The operation on top is marked undone, and leaves the pile.             *)
LEMMA PileShrinks ==
  ASSUME NEW g, NEW f \in Edges, NEW b, NEW n, Piled(g, f, b, n),
         NEW top \in Alive(g), IsTop(g, top), Within(f, b[top.at]), NEW op, op = top.op,
         \A l \in g :
            /\ l.undone \in BOOLEAN
            /\ l = [op |-> l.op, seq |-> l.seq, at |-> l.at, undone |-> l.undone, row |-> l.row],
         NEW h, h = {Marked(l, op) : l \in g}
  PROVE  Piled(h, f, b, n)
<1>1. /\ \A l \in g : l.at \in Nat
      /\ \A l, m \in g : (l.op = m.op <=> l.at = m.at) /\ (l.op = m.op => l.undone = m.undone)
  BY DEF Piled, Filed
<1>2. ASSUME NEW l \in g
      PROVE  /\ Marked(l, op).op = l.op /\ Marked(l, op).at = l.at
             /\ ~Marked(l, op).undone => ~l.undone /\ l.op # op
             /\ l.op # op => Marked(l, op) = l
  BY MarkedIs
<1>3. ASSUME NEW l \in g, l.op = op PROVE Marked(l, op).undone = TRUE
  <2> PICK o, q, a, u, x : l = [op |-> o, seq |-> q, at |-> a, undone |-> u, row |-> x]
    OBVIOUS
  <2>1. (l.undone \/ l.op = op) = TRUE
    BY <1>3
  <2>2. Marked(l, op) = [l EXCEPT !.undone = TRUE]
    BY <2>1 DEF Marked
  <2> QED
    BY <2>2
<1>4. Filed(h)
  <2>1. ASSUME NEW l \in h, NEW m \in h
        PROVE  (l.op = m.op <=> l.at = m.at) /\ (l.op = m.op => l.undone = m.undone) /\ l.at \in Nat
    <3>1. PICK x \in g, y \in g : l = Marked(x, op) /\ m = Marked(y, op)
      BY <2>1
    <3>2. l.op = x.op /\ l.at = x.at /\ m.op = y.op /\ m.at = y.at
      BY <1>2, <3>1
    <3>3. ASSUME l.op = m.op PROVE l.undone = m.undone
      <4>1. CASE x.op = op
        <5>1. y.op = op
          BY <3>2, <3>3, <4>1
        <5>2. Marked(x, op).undone = TRUE /\ Marked(y, op).undone = TRUE
          BY <1>3, <4>1, <5>1
        <5> QED
          BY <3>1, <5>2
      <4>2. CASE x.op # op
        <5>1. l = x /\ m = y
          BY <1>2, <3>1, <3>2, <3>3, <4>2
        <5> QED
          BY <1>1, <3>1, <3>3, <5>1
      <4> QED
        BY <4>1, <4>2
    <3> QED
      BY <1>1, <3>2, <3>3
  <2> QED
    BY <2>1 DEF Filed
<1>5. \A l : l \in Alive(h) <=> l \in Alive(g) /\ l.op # op
  <2>1. ASSUME NEW l \in Alive(h) PROVE l \in Alive(g) /\ l.op # op
    <3>1. PICK x \in g : l = Marked(x, op)
      BY <2>1 DEF Alive
    <3> QED
      BY <1>2, <2>1, <3>1 DEF Alive
  <2>2. ASSUME NEW l \in Alive(g), l.op # op PROVE l \in Alive(h)
    <3>1. l \in g /\ ~l.undone /\ Marked(l, op) = l
      BY <1>2, <2>2 DEF Alive
    <3> QED
      BY <3>1 DEF Alive
  <2> QED
    BY <2>1, <2>2
<1>6. ASSUME NEW l \in g, l.op # op PROVE PlanOf(h, l) = PlanOf(g, l)
  <2>1. OfOp(h, l.op) = OfOp(g, l.op)
    <3>1. ASSUME NEW x \in OfOp(h, l.op) PROVE x \in OfOp(g, l.op)
      <4>1. PICK y \in g : x = Marked(y, op)
        BY <3>1 DEF OfOp
      <4>2. y.op = l.op /\ x = y
        BY <1>2, <1>6, <3>1, <4>1 DEF OfOp
      <4> QED
        BY <4>2 DEF OfOp
    <3>2. ASSUME NEW x \in OfOp(g, l.op) PROVE x \in OfOp(h, l.op)
      <4>1. x \in g /\ x.op = l.op /\ Marked(x, op) = x
        BY <1>2, <1>6, <3>2 DEF OfOp
      <4> QED
        BY <4>1 DEF OfOp
    <3> QED
      BY <3>1, <3>2
  <2> QED
    BY <2>1 DEF PlanOf
<1>7. top \in g /\ \A k \in Alive(g) : k \in g /\ k.at \in Nat /\ k.at <= top.at
  BY <1>1 DEF Alive, IsTop
<1>8. ASSUME NEW l \in Alive(h), IsTop(h, l) PROVE Unwinds(PlanOf(h, l), f, b[l.at])
  <2>1. l \in Alive(g) /\ l.op # op /\ l \in g
    BY <1>5 DEF Alive
  <2>2. l.at < top.at
    BY <1>1, <1>7, <2>1
  <2>3. JustBefore(g, l, top)
    <3> SUFFICES ASSUME NEW k \in Alive(g) PROVE k.at <= l.at \/ top.at <= k.at
      BY <2>2 DEF JustBefore
    <3>1. CASE k.op = op
      BY <1>1, <1>7, <3>1
    <3>2. CASE k.op # op
      BY <1>5, <1>8, <3>2 DEF IsTop
    <3> QED
      BY <3>1, <3>2
  <2>4. Unwinds(PlanOf(g, l), b[top.at], b[l.at])
    BY <2>1, <2>3 DEF Piled
  <2> QED
    BY <1>6, <2>1, <2>4, FewerUnwind
<1>9. ASSUME NEW l \in Alive(h), NEW m \in Alive(h), JustBefore(h, l, m) PROVE Unwinds(PlanOf(h, l), b[m.at], b[l.at])
  <2>1. l \in Alive(g) /\ l.op # op /\ l \in g /\ m \in Alive(g) /\ m \in g
    BY <1>5 DEF Alive
  <2>2. JustBefore(g, l, m)
    <3> SUFFICES ASSUME NEW k \in Alive(g) PROVE k.at <= l.at \/ m.at <= k.at
      BY <1>9 DEF JustBefore
    <3>1. CASE k.op = op
      <4>1. k.at = top.at
        BY <1>1, <1>7, <3>1
      <4> QED
        BY <1>7, <2>1, <4>1
    <3>2. CASE k.op # op
      BY <1>5, <1>9, <3>2 DEF JustBefore
    <3> QED
      BY <3>1, <3>2
  <2>3. Unwinds(PlanOf(g, l), b[m.at], b[l.at])
    BY <2>1, <2>2 DEF Piled
  <2> QED
    BY <1>6, <2>1, <2>3
<1>10. /\ OneEach(f) /\ NotAbove(f, n)
       /\ \A l \in Alive(h) : b[l.at] \in Edges /\ NotAbove(b[l.at], n)
  BY <1>5 DEF Piled
<1> QED
  BY <1>4, <1>8, <1>9, <1>10 DEF Piled

(* Where a plan takes edges that were in use back, the handles were given  *)
(* out before.                                                             *)
LEMMA UnwindsBelow ==
  ASSUME NEW cs \in Seq(GoodCalls), cs # <<>>, NEW f \in Edges, NEW w \in Edges, Unwinds(cs, f, w),
         NEW m, NotAbove(f, m), NotAbove(w, m), NEW n, NEW h, h = EdgeAfter(Head(cs), n, f)
  PROVE  NotAbove(h, m)
<1> PICK c : c = cs[1]
  OBVIOUS
<1>1. c \in GoodCalls /\ Head(cs) = c /\ 1 \in 1 .. Len(cs)
  OBVIOUS
<1>2. h \in Edges /\ (Adds(c, f, h) \/ Leaves(c, f, h))
  BY <1>1, EdgeEffect
<1>3. CASE Leaves(c, f, h)
  BY <1>3 DEF Leaves, Within, NotAbove
<1>4. CASE Adds(c, f, h)
  <2>1. c.with = w[c.on] /\ c.on \in Triples /\ c.with \in Handles
    BY <1>1, <1>4 DEF Adds, Unwinds
  <2>2. c.with # NoEdge
    BY <2>1, ConstantsAssumption
  <2> QED
    BY <1>4, <2>1, <2>2 DEF Adds, Put, Edges, NotAbove
<1> QED
  BY <1>2, <1>3, <1>4

-----------------------------------------------------------------------------
(* Every operation begins as an edit of the edges there are *)

LEMMA StartRewires ==
  ASSUME OneEach(edge), NEW n, NotAbove(edge, n), NEW cs, NEW v, Tells(v, edge),
         \A k \in 1 .. Len(cs) : Ties(cs[k]) =>
           /\ cs[k].with <= n
           /\ \/ CameFrom(v, cs[k].on, cs[k].with, edge)
              \/ edge[cs[k].on] # NoEdge /\ \A m \in 1 .. Len(cs) : ~Breaks(cs[m], cs[k].on)
           /\ New(cs[k].with, edge) =>
                \A m \in 1 .. Len(cs) : Ties(cs[m]) /\ cs[m].with = cs[k].with => cs[m].on = cs[k].on,
         \A i \in 1 .. Len(v) : v[i].op = "repoint_relation" =>
           /\ \A k \in 1 .. Len(cs) : Ties(cs[k]) => cs[k].on # v[i].target
           /\ \E k \in 1 .. Len(cs) : Cuts(cs[k], v[i].target),
         \A k \in 1 .. Len(cs) : cs[k].do = "relabel_entity_type" => v = <<>> /\ Len(cs) = 1
  PROVE  Rewires(cs, v, edge, edge, n)
<1>1. \A t \in Triples : ~New(edge[t], edge)
  BY DEF New
<1>2. \A k \in 1 .. Len(cs) : Ties(cs[k]) /\ New(cs[k].with, edge) => \A t \in Triples : edge[t] # cs[k].with
  BY DEF New
<1> QED
  BY <1>1, <1>2 DEF Rewires

(* What an operation on the graph or on the text is begun with.            *)
Rewiring(r) ==
  \E calls, seed, rows :
    /\ Begin(r, calls, seed, rows)
    /\ minted <= minted' /\ Rewires(calls, rows, edge, edge, minted')

(* What makes no edge and says nothing of one.                             *)
Still(cs, v) ==
  /\ \A k \in 1 .. Len(cs) : ~Ties(cs[k]) /\ cs[k].do # "relabel_entity_type"
  /\ \A i \in 1 .. Len(v) : v[i].op \notin EdgeRows \cup {"delete_relations"}

LEMMA StillRewires ==
  ASSUME OneEach(edge), NEW n, NotAbove(edge, n), NEW cs, NEW v, Still(cs, v)
  PROVE  Rewires(cs, v, edge, edge, n)
<1>1. Tells(v, edge)
  BY DEF Still, Tells
<1>2. \A i \in 1 .. Len(v) : v[i].op # "repoint_relation"
  BY DEF Still, EdgeRows
<1> QED
  BY <1>1, <1>2, StartRewires DEF Still

LEMMA StillBegins ==
  ASSUME GraphTyped, OneEach(edge), NotAbove(edge, minted), NEW r, NEW calls, NEW seed, NEW rows,
         Begin(r, calls, seed, rows), UNCHANGED minted, Still(calls, rows)
  PROVE  Rewiring(r)
<1>1. minted' = minted /\ minted \in Nat /\ minted <= minted'
  BY DEF GraphTyped
<1>2. Rewires(calls, rows, edge, edge, minted')
  BY <1>1, StillRewires
<1> QED
  BY <1>1, <1>2 DEF Rewiring

Quietly == {"update_entity", "create_entity", "add_mention", "add_suppression", "update_mention_span"}
Wordless == {"edit_fields", "add_mention", "create_entity_from_tag", "suppress_span", "edit_mention_span"}

LEMMA StillOne ==
  ASSUME NEW c, NEW w, c.do \in Quietly, w.op \in Wordless
  PROVE  Still(<<c>>, <<w>>)
<1> PICK cs, v : cs = <<c>> /\ v = <<w>>
  OBVIOUS
<1>1. Len(cs) = 1 /\ cs[1] = c /\ Len(v) = 1 /\ v[1] = w
  OBVIOUS
<1>2. ASSUME NEW k \in 1 .. Len(cs) PROVE ~Ties(cs[k]) /\ cs[k].do # "relabel_entity_type"
  <2>1. cs[k] = c
    BY <1>1, <1>2
  <2> QED
    BY <2>1 DEF Ties, Quietly
<1>3. ASSUME NEW k \in 1 .. Len(v) PROVE v[k].op \notin EdgeRows \cup {"delete_relations"}
  <2>1. v[k] = w
    BY <1>1, <1>3
  <2> QED
    BY <2>1 DEF Wordless, EdgeRows
<1>4. Still(cs, v)
  BY <1>2, <1>3 DEF Still
<1> QED
  BY <1>4

LEMMA StillTwo ==
  ASSUME NEW c, NEW d, NEW w, NEW x, c.do \in Quietly, d.do \in Quietly, w.op \in Wordless, x.op \in Wordless
  PROVE  Still(<<c, d>>, <<w, x>>)
<1> PICK cs, v : cs = <<c, d>> /\ v = <<w, x>>
  OBVIOUS
<1>1. Len(cs) = 2 /\ cs[1] = c /\ cs[2] = d /\ Len(v) = 2 /\ v[1] = w /\ v[2] = x
  OBVIOUS
<1>2. ASSUME NEW k \in 1 .. Len(cs) PROVE ~Ties(cs[k]) /\ cs[k].do # "relabel_entity_type"
  <2>1. cs[k] = c \/ cs[k] = d
    BY <1>1, <1>2
  <2> QED
    BY <2>1 DEF Ties, Quietly
<1>3. ASSUME NEW k \in 1 .. Len(v) PROVE v[k].op \notin EdgeRows \cup {"delete_relations"}
  <2>1. v[k] = w \/ v[k] = x
    BY <1>1, <1>3
  <2> QED
    BY <2>1 DEF Wordless, EdgeRows
<1>4. Still(cs, v)
  BY <1>2, <1>3 DEF Still
<1> QED
  BY <1>4

LEMMA TextRewires ==
  ASSUME GraphTyped, OneEach(edge), NotAbove(edge, minted), NEW r
  PROVE  /\ \A e \in Entities, patch \in Patches : EditEntity(r, e, patch) => Rewiring(r)
         /\ \A e \in Entities, s \in Spans : TagExisting(r, e, s) => Rewiring(r)
         /\ \A s \in Spans, type \in Types : TagNewEntity(r, s, type) => Rewiring(r)
         /\ \A s \in Spans, who \in Entities \cup {Everyone} : SuppressOccurrence(r, s, who) => Rewiring(r)
         /\ \A s \in Spans, from, to \in Entities : RetagOccurrence(r, s, from, to) => Rewiring(r)
         /\ \A id \in MentionIds, s \in Spans : MoveBoundaries(r, id, s) => Rewiring(r)
         /\ \A e \in Entities, old, new \in Spans : MaterializeBoundaries(r, e, old, new) => Rewiring(r)
<1>0. /\ \A do, on, with : Call(do, on, with).do = do
      /\ \A op, target, before, after : Row(op, target, before, after).op = op
      /\ \A e, s : AddManual(e, s).do = "add_mention"
  BY DEF Call, Row, AddManual
<1>1. ASSUME NEW do \in Quietly, NEW op \in Wordless, NEW on, NEW with, NEW target, NEW before, NEW after, NEW seed,
             Begin(r, <<Call(do, on, with)>>, seed, <<Row(op, target, before, after)>>), UNCHANGED minted
      PROVE  Rewiring(r)
  <2>1. Still(<<Call(do, on, with)>>, <<Row(op, target, before, after)>>)
    BY <1>0, StillOne
  <2> QED
    BY <1>1, <2>1, StillBegins
<1>2. ASSUME NEW c, NEW d, NEW w, NEW x, c.do \in Quietly, d.do \in Quietly, w.op \in Wordless, x.op \in Wordless,
             NEW seed, Begin(r, <<c, d>>, seed, <<w, x>>), UNCHANGED minted
      PROVE  Rewiring(r)
  <2>1. Still(<<c, d>>, <<w, x>>)
    BY <1>2, StillTwo
  <2> QED
    BY <1>2, <2>1, StillBegins
<1>3. ASSUME NEW e \in Entities, NEW patch \in Patches, EditEntity(r, e, patch) PROVE Rewiring(r)
  BY <1>1, <1>3 DEF EditEntity, Quietly, Wordless
<1>4. ASSUME NEW e \in Entities, NEW s \in Spans, TagExisting(r, e, s) PROVE Rewiring(r)
  BY <1>1, <1>4 DEF TagExisting, AddManual, Quietly, Wordless
<1>5. ASSUME NEW s \in Spans, NEW type \in Types, TagNewEntity(r, s, type) PROVE Rewiring(r)
  BY <1>0, <1>2, <1>5 DEF TagNewEntity, Quietly, Wordless
<1>6. ASSUME NEW s \in Spans, NEW who \in Entities \cup {Everyone}, SuppressOccurrence(r, s, who) PROVE Rewiring(r)
  BY <1>1, <1>6 DEF SuppressOccurrence, Quietly, Wordless
<1>7. ASSUME NEW s \in Spans, NEW from \in Entities, NEW to \in Entities, RetagOccurrence(r, s, from, to)
      PROVE  Rewiring(r)
  BY <1>0, <1>2, <1>7 DEF RetagOccurrence, Quietly, Wordless
<1>8. ASSUME NEW id \in MentionIds, NEW s \in Spans, MoveBoundaries(r, id, s) PROVE Rewiring(r)
  BY <1>1, <1>8 DEF MoveBoundaries, Quietly, Wordless
<1>9. ASSUME NEW e \in Entities, NEW old \in Spans, NEW new \in Spans, MaterializeBoundaries(r, e, old, new)
      PROVE  Rewiring(r)
  BY <1>0, <1>2, <1>9 DEF MaterializeBoundaries, Quietly, Wordless
<1> QED
  BY <1>3, <1>4, <1>5, <1>6, <1>7, <1>8, <1>9

LEMMA AloneRewires ==
  ASSUME GraphTyped, OneEach(edge), NotAbove(edge, minted), NEW r
  PROVE  /\ \A from, to \in Types : RelabelEntityType(r, from, to) => Rewiring(r)
         /\ \A e \in Entities : DeleteEntity(r, e) => Rewiring(r)
         /\ \A t \in Triples : RemoveRelation(r, t) => Rewiring(r)
<1>0. minted \in Nat /\ minted <= minted
  BY DEF GraphTyped
<1>1. ASSUME NEW calls, NEW seed, NEW rows, Begin(r, calls, seed, rows), UNCHANGED minted,
             Tells(rows, edge), \A k \in 1 .. Len(calls) : ~Ties(calls[k]),
             \A i \in 1 .. Len(rows) : rows[i].op # "repoint_relation",
             \A k \in 1 .. Len(calls) : calls[k].do = "relabel_entity_type" => rows = <<>> /\ Len(calls) = 1
      PROVE  Rewiring(r)
  <2>1. Rewires(calls, rows, edge, edge, minted)
    BY <1>1, StartRewires
  <2> QED
    BY <1>0, <1>1, <2>1 DEF Rewiring
<1>2. ASSUME NEW from \in Types, NEW to \in Types, RelabelEntityType(r, from, to) PROVE Rewiring(r)
  <2> PICK c : c = Call("relabel_entity_type", from, to)
    OBVIOUS
  <2> PICK calls, rows : calls = <<c>> /\ rows = <<>>
    OBVIOUS
  <2>1. ~Ties(c) /\ Len(calls) = 1 /\ calls[1] = c /\ Len(rows) = 0
    BY DEF Call, Ties
  <2>2. Begin(r, calls, <<"relabel", from, to>>, rows) /\ UNCHANGED minted
    BY <1>2 DEF RelabelEntityType
  <2>3. Tells(rows, edge)
    BY <2>1 DEF Tells
  <2>4. /\ \A k \in 1 .. Len(calls) : ~Ties(calls[k])
        /\ \A i \in 1 .. Len(rows) : rows[i].op # "repoint_relation"
    BY <2>1
  <2> QED
    BY <1>1, <2>1, <2>2, <2>3, <2>4
<1>3. ASSUME NEW e \in Entities, DeleteEntity(r, e) PROVE Rewiring(r)
  <2> PICK m : m = Restrict(mention, MentionsOf(e))
    OBVIOUS
  <2> PICK f : f = Restrict(edge, Incident(e))
    OBVIOUS
  <2> PICK calls : calls = <<Call("delete_mentions_for_entity", e, NoImage), Call("delete_entity", e, NoImage)>>
    OBVIOUS
  <2> PICK rows : rows = <<Row("delete_mentions", e, m, NoImage), Row("delete_relations", e, f, NoImage),
                           Row("delete_entity", e, node[e], NoImage)>>
    OBVIOUS
  <2>1. Begin(r, calls, <<"delete", e>>, rows) /\ UNCHANGED minted
    BY <1>3 DEF DeleteEntity
  <2>2. /\ Len(calls) = 2 /\ calls[1].do = "delete_mentions_for_entity" /\ calls[2].do = "delete_entity"
        /\ Len(rows) = 3 /\ rows[1].op = "delete_mentions" /\ rows[2].op = "delete_relations"
        /\ rows[2].before = f /\ rows[3].op = "delete_entity"
    BY DEF Call, Row
  <2>3. \A t \in DOMAIN f : f[t] = edge[t]
    BY DEF Restrict
  <2>4. \A i \in 1 .. Len(rows) : i = 2 \/ rows[i].op \notin EdgeRows \cup {"delete_relations"}
    BY <2>2 DEF EdgeRows
  <2>5. Tells(rows, edge)
    BY <2>2, <2>3, <2>4 DEF Tells, EdgeRows
  <2>6. \A i \in 1 .. Len(rows) : rows[i].op # "repoint_relation"
    BY <2>2
  <2>7. \A k \in 1 .. Len(calls) : ~Ties(calls[k]) /\ calls[k].do # "relabel_entity_type"
    BY <2>2 DEF Ties
  <2> QED
    BY <1>1, <2>1, <2>5, <2>6, <2>7
<1>4. ASSUME NEW t \in Triples, RemoveRelation(r, t) PROVE Rewiring(r)
  <2> PICK h : h = edge[t]
    OBVIOUS
  <2> PICK calls, rows : calls = <<Call("delete_relation", t, NoImage)>> /\ rows = <<Row("remove_relation", t, h, NoImage)>>
    OBVIOUS
  <2>1. Begin(r, calls, Single, rows) /\ UNCHANGED minted
    BY <1>4 DEF RemoveRelation
  <2>2. /\ Len(calls) = 1 /\ calls[1].do = "delete_relation"
        /\ Len(rows) = 1 /\ rows[1].op = "remove_relation" /\ rows[1].target = t /\ rows[1].before = edge[t]
    BY DEF Call, Row
  <2>3. Tells(rows, edge)
    BY <2>2 DEF Tells
  <2>4. /\ \A k \in 1 .. Len(calls) : ~Ties(calls[k]) /\ calls[k].do # "relabel_entity_type"
        /\ \A i \in 1 .. Len(rows) : rows[i].op # "repoint_relation"
    BY <2>2 DEF Ties
  <2> QED
    BY <1>1, <2>1, <2>3, <2>4
<1> QED
  BY <1>2, <1>3, <1>4

(* An edge that is made, or found to be there.                             *)
LEMMA AddRewires ==
  ASSUME GraphTyped, OneEach(edge), NotAbove(edge, minted), NEW r, NEW t \in Triples, AddRelation(r, t)
  PROVE  Rewiring(r)
<1>0. minted \in Nat /\ minted <= minted + 1 /\ NoEdge \notin Nat
  BY ConstantsAssumption DEF GraphTyped, ConstantsAssumption, Handles
<1> PICK h, n : h = HasEdge(t) /\ n = minted + 1
  OBVIOUS
<1> PICK calls, rows : calls = <<Call("create_relation", t, n)>> /\ rows = <<Row("add_relation", t, NoImage, h)>>
  OBVIOUS
<1>1. Begin(r, calls, Single, rows) /\ minted' = n
  BY DEF AddRelation
<1>2. /\ Len(calls) = 1 /\ calls[1].do = "create_relation" /\ calls[1].on = t /\ calls[1].with = n
      /\ Len(rows) = 1 /\ rows[1].op = "add_relation" /\ rows[1].target = t /\ rows[1].after = h
  BY DEF Call, Row
<1>3. Tells(rows, edge)
  BY <1>2 DEF Tells, EdgeRows
<1>4. NotAbove(edge, n)
  BY <1>0 DEF NotAbove, GraphTyped, Handles
<1>5. New(n, edge)
  BY <1>0 DEF New, NotAbove, GraphTyped, Handles
<1>6. CameFrom(rows, t, n, edge) \/ (edge[t] # NoEdge /\ \A m \in 1 .. Len(calls) : ~Breaks(calls[m], t))
  <2>1. CASE h
    <3>1. edge[t] # NoEdge
      BY <2>1 DEF HasEdge
    <3>2. \A m \in 1 .. Len(calls) : calls[m].do = "create_relation"
      BY <1>2
    <3> QED
      BY <3>1, <3>2 DEF Breaks, Cuts
  <2>2. CASE ~h
    BY <1>2, <1>5, <2>2 DEF CameFrom
  <2> QED
    BY <2>1, <2>2
<1>7. \A k \in 1 .. Len(calls) : calls[k].do # "relabel_entity_type" /\ calls[k].with <= n
                                 /\ calls[k].on = t /\ calls[k].with = n
  BY <1>0, <1>2
<1>8. \A i \in 1 .. Len(rows) : rows[i].op # "repoint_relation"
  BY <1>2
<1>9. Rewires(calls, rows, edge, edge, n)
  BY <1>3, <1>4, <1>6, <1>7, <1>8, StartRewires
<1> QED
  BY <1>0, <1>1, <1>9 DEF Rewiring

(* The handle that rides along is the edge's own, or one of its own.       *)
LEMMA HandleIs ==
  ASSUME GraphTyped, NotAbove(edge, minted), NEW t \in Triples, HasEdge(t), NEW i \in Nat \ {0}, NEW n \in Nat, i <= n
  PROVE  /\ Handle(t, i) \in Nat /\ Handle(t, i) <= minted + n
         /\ Handle(t, i) = edge[t] \/ (Handle(t, i) = minted + i /\ New(minted + i, edge))
<1>0. minted \in Nat /\ NoEdge \notin Nat /\ edge[t] \in Nat /\ edge[t] <= minted
  BY ConstantsAssumption DEF GraphTyped, ConstantsAssumption, Handles, NotAbove, HasEdge
<1>1. New(minted + i, edge)
  BY <1>0 DEF New, NotAbove, GraphTyped, Handles
<1> QED
  BY <1>0, <1>1 DEF Handle

LEMMA RekeyRowIs ==
  ASSUME NEW old, NEW new
  PROVE  LET w == RekeyRow(old, new)
         IN  /\ w.target = old /\ w.before = edge[old] /\ w.after = new
             /\ w.op = IF HasEdge(new) THEN "fold_relation" ELSE "repoint_relation"
BY DEF RekeyRow, Row

LEMMA RekeyIs ==
  ASSUME NEW old, NEW new, NEW i
  PROVE  LET s == Rekey(old, new, i)
         IN  /\ Len(s) = 2
             /\ s[1].do = "create_relation" /\ s[1].on = new /\ s[1].with = Handle(old, i)
             /\ s[2].do = "delete_relation" /\ s[2].on = old
BY DEF Rekey, Call

(* The calls move n edges S to N, and the rows say so.                     *)
Moves(calls, S, N, n) ==
  /\ \A k \in 1 .. Len(calls) : \E i \in 1 .. n :
       \/ calls[k].do = "create_relation" /\ calls[k].on = N[i] /\ calls[k].with = Handle(S[i], i)
       \/ calls[k].do = "delete_relation" /\ calls[k].on = S[i]
  /\ \A i \in 1 .. n : \E k \in 1 .. Len(calls) : Cuts(calls[k], S[i])
Says(rows, S, N, n) ==
  /\ Len(rows) = n
  /\ \A i \in 1 .. n : rows[i] = RekeyRow(S[i], N[i])

(* Each with a handle of its own.                                          *)
LEMMA MovesRewire ==
  ASSUME GraphTyped, OneEach(edge), NotAbove(edge, minted), NEW n \in Nat, NEW S, NEW N,
         \A i \in 1 .. n : S[i] \in Triples /\ HasEdge(S[i]),
         \A i, j \in 1 .. n : (S[i] = S[j] => i = j) /\ S[i] # N[j],
         NEW calls, Moves(calls, S, N, n), NEW rows, Says(rows, S, N, n),
         NEW top \in Nat, minted <= top, \A i \in 1 .. n : Handle(S[i], i) <= top
  PROVE  Rewires(calls, rows, edge, edge, top)
<1>1. ASSUME NEW k \in 1 .. Len(calls)
      PROVE  \E i \in 1 .. n :
               \/ calls[k].do = "create_relation" /\ calls[k].on = N[i] /\ calls[k].with = Handle(S[i], i)
               \/ calls[k].do = "delete_relation" /\ calls[k].on = S[i]
  BY <1>1 DEF Moves
<1>2. \A i \in 1 .. n : \E k \in 1 .. Len(calls) : Cuts(calls[k], S[i])
  BY DEF Moves
<1>3. Len(rows) = n /\ \A i \in 1 .. n :
        /\ rows[i].target = S[i] /\ rows[i].before = edge[S[i]] /\ rows[i].after = N[i]
        /\ rows[i].op = IF HasEdge(N[i]) THEN "fold_relation" ELSE "repoint_relation"
  BY RekeyRowIs DEF Says
<1>4. Tells(rows, edge)
  BY <1>3 DEF Tells
<1>5. minted \in Nat /\ NotAbove(edge, top)
  BY DEF NotAbove, GraphTyped, Handles
<1>6. ASSUME NEW i \in 1 .. n
      PROVE  Handle(S[i], i) = edge[S[i]] \/ (Handle(S[i], i) = minted + i /\ New(minted + i, edge))
  <2>1. i \in Nat \ {0} /\ i <= n /\ S[i] \in Triples /\ HasEdge(S[i])
    BY <1>6
  <2> QED
    BY <2>1, HandleIs
<1>7. ASSUME NEW i \in 1 .. n
      PROVE  \/ CameFrom(rows, N[i], Handle(S[i], i), edge)
             \/ edge[N[i]] # NoEdge /\ \A m \in 1 .. Len(calls) : ~Breaks(calls[m], N[i])
  <2>1. CASE HasEdge(N[i])
    <3>1. ASSUME NEW m \in 1 .. Len(calls) PROVE ~Breaks(calls[m], N[i])
      BY <1>1, <1>7, <3>1 DEF Breaks, Cuts
    <3> QED
      BY <2>1, <3>1 DEF HasEdge
  <2>2. CASE ~HasEdge(N[i])
    <3> PICK h : h = Handle(S[i], i)
      OBVIOUS
    <3>1. h = edge[S[i]] \/ New(h, edge)
      BY <1>6, <1>7
    <3>2. rows[i].op = "repoint_relation" /\ rows[i].after = N[i] /\ rows[i].before = edge[S[i]] /\ i \in 1 .. Len(rows)
      BY <1>3, <1>7, <2>2
    <3> QED
      BY <3>1, <3>2 DEF CameFrom
  <2> QED
    BY <2>1, <2>2
<1>8. ASSUME NEW k \in 1 .. Len(calls), Ties(calls[k])
      PROVE  /\ calls[k].with <= top
             /\ \/ CameFrom(rows, calls[k].on, calls[k].with, edge)
                \/ edge[calls[k].on] # NoEdge /\ \A m \in 1 .. Len(calls) : ~Breaks(calls[m], calls[k].on)
             /\ New(calls[k].with, edge) =>
                  \A m \in 1 .. Len(calls) : Ties(calls[m]) /\ calls[m].with = calls[k].with => calls[m].on = calls[k].on
  <2>1. PICK i \in 1 .. n : calls[k].on = N[i] /\ calls[k].with = Handle(S[i], i)
    BY <1>1, <1>8 DEF Ties
  <2>2. ASSUME New(calls[k].with, edge), NEW m \in 1 .. Len(calls), Ties(calls[m]), calls[m].with = calls[k].with
        PROVE  calls[m].on = N[i]
    <3>1. PICK j \in 1 .. n : calls[m].on = N[j] /\ calls[m].with = Handle(S[j], j)
      BY <1>1, <2>2 DEF Ties
    <3>2. Handle(S[i], i) # edge[S[i]] /\ Handle(S[j], j) # edge[S[j]]
      BY <2>1, <2>2, <3>1 DEF New
    <3>3. minted + i = minted + j
      BY <1>6, <2>1, <2>2, <3>1, <3>2
    <3>4. i = j
      BY <1>5, <3>3
    <3> QED
      BY <3>1, <3>4
  <2>3. Handle(S[i], i) <= top
    OBVIOUS
  <2> QED
    BY <1>7, <2>1, <2>2, <2>3
<1>9. ASSUME NEW i \in 1 .. Len(rows), rows[i].op = "repoint_relation"
      PROVE  /\ \A k \in 1 .. Len(calls) : Ties(calls[k]) => calls[k].on # rows[i].target
             /\ \E k \in 1 .. Len(calls) : Cuts(calls[k], rows[i].target)
  <2>1. i \in 1 .. n /\ rows[i].target = S[i]
    BY <1>3, <1>9
  <2>2. ASSUME NEW k \in 1 .. Len(calls), Ties(calls[k]) PROVE calls[k].on # S[i]
    BY <1>1, <2>1, <2>2 DEF Ties
  <2> QED
    BY <1>2, <2>1, <2>2
<1>10. \A k \in 1 .. Len(calls) : calls[k].do # "relabel_entity_type"
  BY <1>1
<1> QED
  BY <1>4, <1>5, <1>8, <1>9, <1>10, StartRewires

LEMMA RetargetRewires ==
  ASSUME GraphTyped, OneEach(edge), NotAbove(edge, minted), NEW r,
         NEW old \in Triples, NEW new \in Triples, RetargetRelation(r, old, new)
  PROVE  Rewiring(r)
<1> PICK top : top = minted'
  OBVIOUS
<1>1. HasEdge(old) /\ old # new
      /\ Begin(r, Rekey(old, new, 1), <<"retarget", old, new>>, <<RekeyRow(old, new)>>)
  BY DEF RetargetRelation
<1>2. minted \in Nat /\ top \in Nat /\ minted <= top /\ Handle(old, 1) <= top
  <2>1. edge[old] \in Nat /\ edge[old] <= minted /\ minted \in Nat
    BY <1>1 DEF GraphTyped, HasEdge, Handles, NotAbove
  <2>2. top = IF edge[old] = Legacy THEN minted + 1 ELSE minted
    BY DEF RetargetRelation
  <2> QED
    BY <2>1, <2>2 DEF Handle
<1>3. ASSUME NEW S, NEW N, S = <<old>>, N = <<new>>, NEW calls, calls = Rekey(old, new, 1)
      PROVE  Moves(calls, S, N, 1)
  <2>1. /\ Len(calls) = 2 /\ calls[1].do = "create_relation" /\ calls[1].on = new /\ calls[1].with = Handle(old, 1)
        /\ calls[2].do = "delete_relation" /\ calls[2].on = old
    BY <1>3, RekeyIs
  <2>2. S[1] = old /\ N[1] = new /\ 1 \in 1 .. 1 /\ \A i \in 1 .. 1 : i = 1
    BY <1>3
  <2>3. ASSUME NEW k \in 1 .. Len(calls) PROVE k = 1 \/ k = 2
    BY <2>1
  <2>4. 2 \in 1 .. Len(calls) /\ Cuts(calls[2], S[1])
    BY <2>1, <2>2 DEF Cuts
  <2> QED
    BY <2>1, <2>2, <2>3, <2>4 DEF Moves
<1>4. ASSUME NEW S, NEW N, S = <<old>>, N = <<new>>, NEW w, w = RekeyRow(old, new), NEW rows, rows = <<w>>
      PROVE  Says(rows, S, N, 1)
  <2>1. S[1] = old /\ N[1] = new /\ Len(rows) = 1 /\ rows[1] = w /\ \A i \in 1 .. 1 : i = 1
    BY <1>4
  <2> QED
    BY <1>4, <2>1 DEF Says
<1> PICK S, N : S = <<old>> /\ N = <<new>>
  OBVIOUS
<1> PICK calls, rows : calls = Rekey(old, new, 1) /\ rows = <<RekeyRow(old, new)>>
  OBVIOUS
<1>5. Moves(calls, S, N, 1) /\ Says(rows, S, N, 1)
  BY <1>3, <1>4
<1>6. \A i \in 1 .. 1 : i = 1 /\ S[i] = old /\ N[i] = new
  OBVIOUS
<1>7. /\ \A i \in 1 .. 1 : S[i] \in Triples /\ HasEdge(S[i]) /\ Handle(S[i], i) <= top
      /\ \A i, j \in 1 .. 1 : (S[i] = S[j] => i = j) /\ S[i] # N[j]
  BY <1>1, <1>2, <1>6
<1>8. Rewires(calls, rows, edge, edge, top)
  BY <1>2, <1>5, <1>7, MovesRewire
<1> QED
  BY <1>1, <1>2, <1>8 DEF Rewiring

(* The edges of a predicate, one after the other.                          *)
LEMMA BearingIs ==
  ASSUME NEW B \in SUBSET Triples, NEW S, S = SetToSeq(B)
  PROVE  \E n \in Nat : /\ n = Len(S) /\ DOMAIN S = 1 .. n /\ \A i \in 1 .. n : S[i] \in B
                        /\ \A i, j \in 1 .. n : S[i] = S[j] => i = j
<1>1. IsFiniteSet(B)
  BY FiniteStores, FS_Subset
<1> DEFINE y == SetToSeq(B)
<1>2. /\ y \in Seq(B) /\ DOMAIN y = 1 .. Cardinality(B) /\ Len(y) = Cardinality(B) /\ Cardinality(B) \in Nat
      /\ \A i, j \in 1 .. Cardinality(B) : y[i] = y[j] => i = j
  BY <1>1, SetToSeqIs
<1> HIDE DEF y
<1>3. \A i \in 1 .. Len(y) : y[i] \in B
  BY <1>2
<1>4. S = y
  BY DEF y
<1> QED
  BY <1>2, <1>3, <1>4

LEMMA RekeysMove ==
  ASSUME GraphTyped, NEW n \in Nat, NEW S, NEW N,
         \A i \in 1 .. n : S[i] \in Triples /\ HasEdge(S[i]) /\ N[i] \in Triples,
         NEW parts, DOMAIN parts = 1 .. n, parts = [i \in 1 .. n |-> parts[i]],
         \A i \in 1 .. n : parts[i] = Rekey(S[i], N[i], i),
         NEW calls, calls = FlattenSeq(parts)
  PROVE  Moves(calls, S, N, n)
<1>1. \A i \in 1 .. n :
        LET s == parts[i]
        IN  /\ s \in Seq(GoodCalls) /\ Len(s) = 2
            /\ s[1].do = "create_relation" /\ s[1].on = N[i] /\ s[1].with = Handle(S[i], i)
            /\ s[2].do = "delete_relation" /\ s[2].on = S[i]
  BY RekeyIs, RekeyTyped
<1>2. parts \in Seq(Seq(GoodCalls))
  <2>1. parts \in [1 .. n -> Seq(GoodCalls)]
    BY <1>1
  <2> QED
    BY <2>1
<1>3. FromParts(calls, parts) /\ \A i \in 1 .. n : Includes(calls, parts[i])
  BY <1>2, FlattenHas
<1>4. ASSUME NEW k \in 1 .. Len(calls)
      PROVE  \E i \in 1 .. n :
               \/ calls[k].do = "create_relation" /\ calls[k].on = N[i] /\ calls[k].with = Handle(S[i], i)
               \/ calls[k].do = "delete_relation" /\ calls[k].on = S[i]
  <2>0. PICK i \in 1 .. n : \E m \in 1 .. Len(parts[i]) : calls[k] = parts[i][m]
    BY <1>3, <1>4 DEF FromParts, Arises
  <2>1. PICK m \in 1 .. Len(parts[i]) : calls[k] = parts[i][m]
    BY <2>0
  <2>2. /\ Len(parts[i]) = 2
        /\ parts[i][1].do = "create_relation" /\ parts[i][1].on = N[i] /\ parts[i][1].with = Handle(S[i], i)
        /\ parts[i][2].do = "delete_relation" /\ parts[i][2].on = S[i]
    BY <1>1
  <2>3. m \in 1 .. 2
    BY <2>2
  <2>4. m = 1 \/ m = 2
    BY <2>3
  <2> QED
    BY <2>1, <2>2, <2>4
<1>5. ASSUME NEW i \in 1 .. n PROVE \E k \in 1 .. Len(calls) : Cuts(calls[k], S[i])
  <2>1. 2 \in 1 .. Len(parts[i]) /\ Cuts(parts[i][2], S[i])
    BY <1>1, <1>5 DEF Cuts
  <2>2. \E k \in 1 .. Len(calls) : calls[k] = parts[i][2]
    BY <1>3, <1>5, <2>1 DEF Includes
  <2> QED
    BY <2>1, <2>2
<1> QED
  BY <1>4, <1>5 DEF Moves

LEMMA RenameRewires ==
  ASSUME GraphTyped, OneEach(edge), NotAbove(edge, minted), NEW r,
         NEW p \in Predicates, NEW q \in Predicates, RenamePredicate(r, p, q)
  PROVE  Rewiring(r)
<1> DEFINE B == {t \in Triples : HasEdge(t) /\ t[2] = p}
           S == SetToSeq(B)
           N == [i \in DOMAIN S |-> <<S[i][1], q, S[i][3]>>]
           parts == [i \in DOMAIN S |-> Rekey(S[i], <<S[i][1], q, S[i][3]>>, i)]
           calls == FlattenSeq(parts)
           rows == [i \in DOMAIN S |-> RekeyRow(S[i], <<S[i][1], q, S[i][3]>>)]
<1>1. Begin(r, calls, <<"rename", p, q>>, rows) /\ p # q /\ minted' = minted + Len(S)
  BY DEF RenamePredicate
<1>2. \A t \in B : t \in Triples /\ HasEdge(t) /\ t[2] = p /\ <<t[1], q, t[3]>> \in Triples
  BY DEF Triples
<1>3. B \in SUBSET Triples /\ S = SetToSeq(B)
  OBVIOUS
<1> HIDE DEF B
<1>4. PICK n \in Nat : /\ n = Len(S) /\ DOMAIN S = 1 .. n /\ \A i \in 1 .. n : S[i] \in B
                       /\ \A i, j \in 1 .. n : S[i] = S[j] => i = j
  BY <1>3, BearingIs
<1> HIDE DEF S
<1>5. /\ DOMAIN parts = 1 .. n /\ parts = [i \in 1 .. n |-> parts[i]]
      /\ \A i \in 1 .. n : N[i] = <<S[i][1], q, S[i][3]>> /\ parts[i] = Rekey(S[i], N[i], i)
  BY <1>4
<1>6. rows = [i \in 1 .. n |-> RekeyRow(S[i], <<S[i][1], q, S[i][3]>>)]
  BY <1>4
<1>7. Len(rows) = n /\ \A i \in 1 .. n : rows[i] = RekeyRow(S[i], N[i])
  BY <1>5, <1>6
<1>8. calls = FlattenSeq(parts)
  OBVIOUS
<1> HIDE DEF N, parts, calls, rows
<1>9. \A i \in 1 .. n : S[i] \in Triples /\ HasEdge(S[i]) /\ S[i][2] = p /\ N[i] \in Triples /\ N[i][2] = q
  <2>1. ASSUME NEW i \in 1 .. n PROVE S[i] \in Triples /\ HasEdge(S[i]) /\ S[i][2] = p /\ N[i] \in Triples
    <3> PICK t : t = S[i]
      OBVIOUS
    <3>1. t \in B /\ N[i] = <<t[1], q, t[3]>>
      BY <1>4, <1>5
    <3> QED
      BY <1>2, <3>1
  <2>2. ASSUME NEW i \in 1 .. n PROVE N[i][2] = q
    BY <1>5
  <2> QED
    BY <2>1, <2>2
<1>10. Moves(calls, S, N, n)
  BY <1>5, <1>8, <1>9, RekeysMove
<1>11. Says(rows, S, N, n)
  BY <1>7 DEF Says
<1>12. minted \in Nat /\ minted + n \in Nat /\ minted <= minted + n
  BY DEF GraphTyped
<1>13. ASSUME NEW i \in 1 .. n PROVE Handle(S[i], i) <= minted + n
  <2>1. i \in Nat \ {0} /\ i <= n /\ S[i] \in Triples /\ HasEdge(S[i])
    BY <1>9
  <2> QED
    BY <2>1, HandleIs
<1>14. \A i, j \in 1 .. n : (S[i] = S[j] => i = j) /\ S[i] # N[j]
  BY <1>1, <1>4, <1>9
<1>15. Rewires(calls, rows, edge, edge, minted + n)
  BY <1>9, <1>10, <1>11, <1>12, <1>13, <1>14, MovesRewire
<1>16. minted' = minted + n
  BY <1>1, <1>4
<1> QED
  BY <1>1, <1>12, <1>15, <1>16 DEF Rewiring

-----------------------------------------------------------------------------
(* What a merge is made of: the absorbed entity's edges S, and where they  *)
(* go.                                                                     *)
LEMMA MergeStepIs ==
  ASSUME NEW old, NEW new
  PROVE  LET s == MergeStepCalls(old, new)
             w == MergeStepRow(old, new)
         IN  /\ s[1].do = "delete_relation" /\ s[1].on = old
             /\ Len(s) = 1 \/ /\ Len(s) = 2 /\ ~IsLoop(new)
                              /\ s[2].do = "create_relation" /\ s[2].on = new /\ s[2].with = edge[old]
             /\ w.target = old /\ w.before = edge[old]
             /\ IsLoop(new) => w.op = "discard_self_loop_relation"
             /\ ~IsLoop(new) => w = RekeyRow(old, new)
<1>1. CASE IsLoop(new)
  <2>1. MergeStepCalls(old, new) = <<Call("delete_relation", old, NoImage)>>
    <3> PICK c : c = Call("delete_relation", old, NoImage)
      OBVIOUS
    <3>1. <<c>> \o <<>> = <<c>>
      OBVIOUS
    <3> QED
      BY <1>1, <3>1 DEF MergeStepCalls
  <2>2. MergeStepRow(old, new) = Row("discard_self_loop_relation", old, edge[old], NoImage)
    BY <1>1 DEF MergeStepRow
  <2>3. Call("delete_relation", old, NoImage).do = "delete_relation" /\ Call("delete_relation", old, NoImage).on = old
    BY DEF Call
  <2>4. ASSUME NEW c, NEW s, s = <<c>> PROVE Len(s) = 1 /\ s[1] = c
    BY <2>4
  <2> QED
    BY <1>1, <2>1, <2>2, <2>3, <2>4 DEF Row
<1>2. CASE ~IsLoop(new)
  <2> PICK c : c = Call("delete_relation", old, NoImage)
    OBVIOUS
  <2> PICK d : d = Call("create_relation", new, edge[old])
    OBVIOUS
  <2> PICK s : s = <<c, d>>
    OBVIOUS
  <2>1. Len(s) = 2 /\ s[1] = c /\ s[2] = d
    OBVIOUS
  <2>2. MergeStepCalls(old, new) = s
    BY <1>2, JoinTwo DEF MergeStepCalls
  <2>3. MergeStepRow(old, new) = RekeyRow(old, new)
    BY <1>2 DEF MergeStepRow
  <2>4. c.do = "delete_relation" /\ c.on = old /\ d.do = "create_relation" /\ d.on = new /\ d.with = edge[old]
    BY DEF Call
  <2> QED
    BY <1>2, <2>1, <2>2, <2>3, <2>4, RekeyRowIs
<1> QED
  BY <1>1, <1>2

(* n edges S of b are cut and those of N that are no loops tied instead,   *)
(* and of the rows those from the second on say so.                        *)
MergeMoves(calls, b, S, N, n) ==
  /\ \A k \in 1 .. Len(calls) :
       \/ calls[k].do \in {"update_entity", "repoint_mentions"}
       \/ calls[k].do = "delete_entity" /\ calls[k].on = b
       \/ \E i \in 1 .. n :
            \/ calls[k].do = "delete_relation" /\ calls[k].on = S[i]
            \/ ~IsLoop(N[i]) /\ calls[k].do = "create_relation" /\ calls[k].on = N[i] /\ calls[k].with = edge[S[i]]
  /\ \A i \in 1 .. n : \E k \in 1 .. Len(calls) : Cuts(calls[k], S[i])
MergeSays(rows, S, N, n) ==
  /\ Len(rows) = n + 3
  /\ rows[1].op = "merge_consolidate" /\ rows[n + 2].op = "repoint_mentions" /\ rows[n + 3].op = "delete_absorbed"
  /\ \A k \in 2 .. n + 1 : rows[k] = MergeStepRow(S[k - 1], N[k - 1])

LEMMA MergeMovesRewire ==
  ASSUME GraphTyped, OneEach(edge), NotAbove(edge, minted), NEW b, NEW n \in Nat, NEW S, NEW N,
         \A i \in 1 .. n : S[i] \in Triples /\ HasEdge(S[i]) /\ b \in {S[i][1], S[i][3]},
         \A i \in 1 .. n : b \notin {N[i][1], N[i][3]},
         \A i, j \in 1 .. n : S[i] = S[j] => i = j,
         NEW calls, MergeMoves(calls, b, S, N, n), NEW rows, MergeSays(rows, S, N, n)
  PROVE  Rewires(calls, rows, edge, edge, minted)
<1>1. ASSUME NEW k \in 1 .. Len(calls)
      PROVE  \/ calls[k].do \in {"update_entity", "repoint_mentions"}
             \/ calls[k].do = "delete_entity" /\ calls[k].on = b
             \/ \E i \in 1 .. n :
                  \/ calls[k].do = "delete_relation" /\ calls[k].on = S[i]
                  \/ ~IsLoop(N[i]) /\ calls[k].do = "create_relation" /\ calls[k].on = N[i] /\ calls[k].with = edge[S[i]]
  BY <1>1 DEF MergeMoves
<1>2. \A i \in 1 .. n : \E k \in 1 .. Len(calls) : Cuts(calls[k], S[i])
  BY DEF MergeMoves
<1>3. \A i, j \in 1 .. n : S[i] # N[j]
  OBVIOUS
<1>4. ASSUME NEW i \in 1 .. n
      PROVE  /\ i + 1 \in 1 .. Len(rows)
             /\ rows[i + 1].target = S[i] /\ rows[i + 1].before = edge[S[i]]
             /\ ~IsLoop(N[i]) => rows[i + 1] = RekeyRow(S[i], N[i])
  <2>1. i + 1 \in 2 .. n + 1 /\ i + 1 \in 1 .. n + 3 /\ (i + 1) - 1 = i
    BY <1>4
  <2>2. rows[i + 1] = MergeStepRow(S[i], N[i]) /\ Len(rows) = n + 3
    BY <2>1 DEF MergeSays
  <2> QED
    BY <2>1, <2>2, MergeStepIs
<1>5. ASSUME NEW k \in 1 .. Len(rows)
      PROVE  rows[k].op \notin EdgeRows \cup {"delete_relations"} \/ (k \in 2 .. n + 1 /\ rows[k].op # "delete_relations")
  <2>1. Len(rows) = n + 3
    BY DEF MergeSays
  <2>2. k = 1 \/ k = n + 2 \/ k = n + 3 \/ k \in 2 .. n + 1
    BY <1>5, <2>1
  <2>3. CASE k \notin 2 .. n + 1
    BY <2>2, <2>3 DEF MergeSays, EdgeRows
  <2>4. CASE k \in 2 .. n + 1
    <3>1. rows[k] = MergeStepRow(S[k - 1], N[k - 1])
      BY <2>4 DEF MergeSays
    <3>2. rows[k].op # "delete_relations"
      BY <3>1, MergeStepIs, RekeyRowIs
    <3> QED
      BY <2>4, <3>2
  <2> QED
    BY <2>3, <2>4
<1>6. \A k \in 2 .. n + 1 : k - 1 \in 1 .. n /\ rows[k].target = S[k - 1] /\ rows[k].before = edge[S[k - 1]]
  <2>1. ASSUME NEW k \in 2 .. n + 1 PROVE k - 1 \in 1 .. n /\ rows[k].target = S[k - 1] /\ rows[k].before = edge[S[k - 1]]
    <3>1. PICK i \in 1 .. n : i + 1 = k /\ i = k - 1
      OBVIOUS
    <3> QED
      BY <1>4, <3>1
  <2> QED
    BY <2>1
<1>7. Tells(rows, edge)
  <2>1. \A k \in 1 .. Len(rows) : rows[k].op # "delete_relations"
    BY <1>5
  <2>2. \A k \in 1 .. Len(rows) : rows[k].op \in EdgeRows => k \in 2 .. n + 1
    BY <1>5
  <2>3. ASSUME NEW k \in 1 .. Len(rows), NEW m \in 1 .. Len(rows),
               rows[k].op \in EdgeRows, rows[m].op \in EdgeRows, rows[k].target = rows[m].target
        PROVE  k = m
    <3>1. k \in 2 .. n + 1 /\ m \in 2 .. n + 1
      BY <2>2, <2>3
    <3>2. k - 1 \in 1 .. n /\ m - 1 \in 1 .. n /\ S[k - 1] = S[m - 1]
      BY <1>6, <2>3, <3>1
    <3>3. k - 1 = m - 1
      BY <3>2
    <3> QED
      BY <3>1, <3>3
  <2>4. \A k \in 1 .. Len(rows) : rows[k].op \in EdgeRows => rows[k].before = edge[rows[k].target]
    BY <1>6, <2>2
  <2> QED
    BY <2>1, <2>3, <2>4 DEF Tells
<1>8. ASSUME NEW i \in 1 .. n, ~IsLoop(N[i])
      PROVE  \/ CameFrom(rows, N[i], edge[S[i]], edge)
             \/ edge[N[i]] # NoEdge /\ \A m \in 1 .. Len(calls) : ~Breaks(calls[m], N[i])
  <2>1. CASE HasEdge(N[i])
    <3>1. ASSUME NEW m \in 1 .. Len(calls) PROVE ~Breaks(calls[m], N[i])
      <4>1. calls[m].do = "delete_entity" => calls[m].on = b
        BY <1>1
      <4>2. calls[m].do = "delete_relation" => calls[m].on # N[i]
        BY <1>1, <1>3
      <4> QED
        BY <4>1, <4>2 DEF Breaks, Cuts
    <3> QED
      BY <2>1, <3>1 DEF HasEdge
  <2>2. CASE ~HasEdge(N[i])
    <3>1. i + 1 \in 1 .. Len(rows) /\ rows[i + 1] = RekeyRow(S[i], N[i])
      BY <1>4, <1>8
    <3>2. rows[i + 1].op = "repoint_relation" /\ rows[i + 1].after = N[i] /\ rows[i + 1].before = edge[S[i]]
      BY <2>2, <3>1, RekeyRowIs
    <3> QED
      BY <3>1, <3>2 DEF CameFrom
  <2> QED
    BY <2>1, <2>2
<1>9. ASSUME NEW k \in 1 .. Len(calls), Ties(calls[k])
      PROVE  /\ calls[k].with <= minted
             /\ \/ CameFrom(rows, calls[k].on, calls[k].with, edge)
                \/ edge[calls[k].on] # NoEdge /\ \A m \in 1 .. Len(calls) : ~Breaks(calls[m], calls[k].on)
             /\ ~New(calls[k].with, edge)
  <2>1. PICK i \in 1 .. n : ~IsLoop(N[i]) /\ calls[k].on = N[i] /\ calls[k].with = edge[S[i]]
    BY <1>1, <1>9 DEF Ties
  <2>2. edge[S[i]] <= minted /\ ~New(edge[S[i]], edge)
    BY DEF NotAbove, HasEdge, New
  <2> QED
    BY <1>8, <2>1, <2>2
<1>10. ASSUME NEW j \in 1 .. Len(rows), rows[j].op = "repoint_relation"
       PROVE  /\ \A k \in 1 .. Len(calls) : Ties(calls[k]) => calls[k].on # rows[j].target
              /\ \E k \in 1 .. Len(calls) : Cuts(calls[k], rows[j].target)
  <2>1. j - 1 \in 1 .. n /\ rows[j].target = S[j - 1]
    BY <1>5, <1>6, <1>10 DEF EdgeRows
  <2>2. ASSUME NEW k \in 1 .. Len(calls), Ties(calls[k]) PROVE calls[k].on # S[j - 1]
    BY <1>1, <1>3, <2>1, <2>2 DEF Ties
  <2> QED
    BY <1>2, <2>1, <2>2
<1>11. \A k \in 1 .. Len(calls) : calls[k].do # "relabel_entity_type"
  BY <1>1
<1> QED
  BY <1>7, <1>9, <1>10, <1>11, StartRewires

LEMMA OneOrTwo ==
  ASSUME NEW z, z = 1 \/ z = 2, NEW m \in 1 .. z
  PROVE  m = 1 \/ (m = 2 /\ z = 2)
OBVIOUS

LEMMA MergeRewires ==
  ASSUME GraphTyped, EndsExist, OneEach(edge), NotAbove(edge, minted), NEW r,
         NEW b \in Entities, NEW a \in Entities, NEW kept \in Values \cup {NoValue}, MergeEntities(r, b, a, kept)
  PROVE  Rewiring(r)
<1> DEFINE B == Incident(b)
           S == SetToSeq(B)
           x == Consolidated(a, b, kept)
           c1 == Call("update_entity", a, x)
           c2 == Call("repoint_mentions", b, a)
           c3 == Call("delete_entity", b, NoImage)
           w1 == Row("merge_consolidate", a, Images(node[a]), Images(x))
           w2 == Row("repoint_mentions", b, {}, NoImage)
           w3 == Row("delete_absorbed", b, node[b], NoImage)
           N == [i \in DOMAIN S |-> Swapped(S[i], a, b)]
           parts == [i \in DOMAIN S |-> MergeStepCalls(S[i], Swapped(S[i], a, b))]
           steps == [i \in DOMAIN S |-> MergeStepRow(S[i], Swapped(S[i], a, b))]
           flat == FlattenSeq(parts)
           calls == <<c1>> \o flat \o <<c2, c3>>
           rows == <<w1>> \o steps \o <<w2, w3>>
<1>1. Begin(r, calls, <<"merge", b, a>>, rows) /\ a # b /\ minted' = minted
  BY DEF MergeEntities
<1>2. /\ c1.do = "update_entity" /\ c2.do = "repoint_mentions" /\ c3.do = "delete_entity" /\ c3.on = b
      /\ w1.op = "merge_consolidate" /\ w2.op = "repoint_mentions" /\ w3.op = "delete_absorbed"
  BY DEF Call, Row
<1> HIDE DEF x, c1, c2, c3, w1, w2, w3
<1>3. \A t \in B : t \in Triples /\ HasEdge(t) /\ b \in {t[1], t[3]}
  BY DEF Incident
<1>4. \A t \in Triples : Swapped(t, a, b) \in Triples /\ b \notin {Swapped(t, a, b)[1], Swapped(t, a, b)[3]}
  BY <1>1 DEF Triples, Swapped
<1>5. B \in SUBSET Triples /\ S = SetToSeq(B)
  BY DEF Incident
<1> HIDE DEF B
<1>6. PICK n \in Nat : /\ n = Len(S) /\ DOMAIN S = 1 .. n /\ \A i \in 1 .. n : S[i] \in B
                       /\ \A i, j \in 1 .. n : S[i] = S[j] => i = j
  BY <1>5, BearingIs
<1> HIDE DEF S
<1>7. \A i \in 1 .. n : S[i] \in Triples /\ HasEdge(S[i]) /\ b \in {S[i][1], S[i][3]}
  BY <1>3, <1>6
<1>8. \A i \in 1 .. n : N[i] \in Triples /\ b \notin {N[i][1], N[i][3]}
  BY <1>4, <1>6, <1>7
<1>9. \A i \in 1 .. n : parts[i] = MergeStepCalls(S[i], N[i]) /\ steps[i] = MergeStepRow(S[i], N[i])
  BY <1>6
<1> HIDE DEF N
<1>10. ASSUME NEW i \in 1 .. n PROVE parts[i] \in Seq(GoodCalls) /\ steps[i] \in GoodRows
  <2>1. MergeStepCalls(S[i], N[i]) \in Seq(GoodCalls) /\ MergeStepRow(S[i], N[i]) \in GoodRows
    BY <1>7, <1>8, <1>10, MergeStepTyped
  <2> QED
    BY <1>9, <1>10, <2>1
<1>11. parts \in [1 .. n -> Seq(GoodCalls)] /\ steps \in [1 .. n -> GoodRows]
  BY <1>6, <1>10
<1> HIDE DEF parts, steps
<1>12. parts \in Seq(Seq(GoodCalls)) /\ DOMAIN parts = 1 .. n /\ steps \in Seq(GoodRows) /\ Len(steps) = n
  BY <1>11, SMTT(30)
<1>13. flat \in Seq(GoodCalls) /\ FromParts(flat, parts) /\ \A i \in 1 .. n : Includes(flat, parts[i])
  BY <1>12, FlattenHas
<1> HIDE DEF flat
<1>14. /\ Len(flat) \in Nat /\ Len(calls) = Len(flat) + 3
       /\ calls[1] = c1 /\ calls[Len(flat) + 2] = c2 /\ calls[Len(flat) + 3] = c3
       /\ \A k \in 2 .. Len(flat) + 1 : calls[k] = flat[k - 1]
  BY <1>13, Sandwich
<1>15. /\ Len(rows) = n + 3 /\ rows[1] = w1 /\ rows[n + 2] = w2 /\ rows[n + 3] = w3
       /\ \A k \in 2 .. n + 1 : rows[k] = steps[k - 1]
  BY <1>12, Sandwich
<1> HIDE DEF calls, rows
<1>16. MergeSays(rows, S, N, n)
  <2>1. \A k \in 2 .. n + 1 : k - 1 \in 1 .. n
    OBVIOUS
  <2> QED
    BY <1>2, <1>9, <1>15, <2>1 DEF MergeSays
<1>17. ASSUME NEW i \in 1 .. n
       PROVE  LET s == parts[i]
              IN  /\ s[1].do = "delete_relation" /\ s[1].on = S[i]
                  /\ Len(s) = 1 \/ /\ Len(s) = 2 /\ ~IsLoop(N[i])
                                   /\ s[2].do = "create_relation" /\ s[2].on = N[i] /\ s[2].with = edge[S[i]]
  BY <1>9, <1>17, MergeStepIs
<1>18. ASSUME NEW k \in 1 .. Len(flat)
       PROVE  \E i \in 1 .. n :
                \/ flat[k].do = "delete_relation" /\ flat[k].on = S[i]
                \/ ~IsLoop(N[i]) /\ flat[k].do = "create_relation" /\ flat[k].on = N[i] /\ flat[k].with = edge[S[i]]
  <2>1. PICK i \in 1 .. n : \E m \in 1 .. Len(parts[i]) : flat[k] = parts[i][m]
    BY <1>12, <1>13, <1>18, ZenonT(40) DEF FromParts, Arises
  <2>2. PICK m \in 1 .. Len(parts[i]) : flat[k] = parts[i][m]
    BY <2>1
  <2>3. m = 1 \/ (m = 2 /\ Len(parts[i]) = 2)
    <3>1. Len(parts[i]) = 1 \/ Len(parts[i]) = 2
      BY <1>17
    <3> QED
      BY <3>1, OneOrTwo
  <2> QED
    BY <1>17, <2>2, <2>3
<1>19. ASSUME NEW i \in 1 .. n PROVE \E k \in 1 .. Len(flat) : Cuts(flat[k], S[i])
  <2>1. 1 \in 1 .. Len(parts[i]) /\ Cuts(parts[i][1], S[i])
    BY <1>17, <1>19 DEF Cuts
  <2>2. \E k \in 1 .. Len(flat) : flat[k] = parts[i][1]
    BY <1>13, <1>19, <2>1 DEF Includes
  <2> QED
    BY <2>1, <2>2
<1>20. MergeMoves(calls, b, S, N, n)
  <2>1. ASSUME NEW k \in 1 .. Len(calls)
        PROVE  \/ calls[k].do \in {"update_entity", "repoint_mentions"}
               \/ calls[k].do = "delete_entity" /\ calls[k].on = b
               \/ \E i \in 1 .. n :
                    \/ calls[k].do = "delete_relation" /\ calls[k].on = S[i]
                    \/ ~IsLoop(N[i]) /\ calls[k].do = "create_relation" /\ calls[k].on = N[i] /\ calls[k].with = edge[S[i]]
    <3>1. k = 1 \/ k = Len(flat) + 2 \/ k = Len(flat) + 3 \/ k \in 2 .. Len(flat) + 1
      BY <1>14
    <3>2. CASE k \in 2 .. Len(flat) + 1
      <4>1. k - 1 \in 1 .. Len(flat) /\ calls[k] = flat[k - 1]
        BY <1>14, <3>2
      <4> QED
        BY <1>18, <4>1
    <3> QED
      BY <1>2, <1>14, <3>1, <3>2
  <2>2. ASSUME NEW i \in 1 .. n PROVE \E k \in 1 .. Len(calls) : Cuts(calls[k], S[i])
    <3>1. PICK k \in 1 .. Len(flat) : Cuts(flat[k], S[i])
      BY <1>19
    <3>2. k + 1 \in 2 .. Len(flat) + 1 /\ k + 1 \in 1 .. Len(calls) /\ (k + 1) - 1 = k
      BY <1>14
    <3>3. calls[k + 1] = flat[k]
      BY <1>14, <3>2
    <3> QED
      BY <3>1, <3>2, <3>3
  <2> QED
    BY <2>1, <2>2 DEF MergeMoves
<1>21. Rewires(calls, rows, edge, edge, minted)
  BY <1>6, <1>7, <1>8, <1>16, <1>20, MergeMovesRewire
<1>22. minted <= minted
  BY DEF GraphTyped
<1> QED
  BY <1>1, <1>21, <1>22 DEF Rewiring

LEMMA OperationRewires ==
  ASSUME GraphTyped, EndsExist, OneEach(edge), NotAbove(edge, minted), NEW r, Operation(r)
  PROVE  Rewiring(r)
BY TextRewires, AloneRewires, AddRewires, RetargetRewires, RenameRewires, MergeRewires DEF Operation

-----------------------------------------------------------------------------
(* What each step does to the pile *)

(* An edit that is under way was begun on edges that the log leads back    *)
(* from; an undo under way takes back the operation on top.                *)
EditHandled(q, g, f, n) ==
  /\ q.before.edge \in Edges
  /\ \E b : Piled(g, q.before.edge, b, n)
  /\ Rewires(q.calls, q.rows, q.before.edge, f, n)
  /\ q.op # NoOp => q.calls = <<>> /\ \A l \in g : l.at < q.at
UndoHandled(q, g, f, n) ==
  /\ q.calls \in Seq(Backwards)
  /\ \E b : /\ Piled(g, f, b, n)
            /\ \E top \in Alive(g) : IsTop(g, top) /\ top.op = q.op /\ Unwinds(q.calls, f, b[top.at])
Handled(q, g, f, n) ==
  /\ q = Idle => \E b : Piled(g, f, b, n)
  /\ q.kind = "edit" => EditHandled(q, g, f, n)
  /\ q.kind = "undo" => UndoHandled(q, g, f, n)

LEMMA EditCall ==
  ASSUME NEW q, NEW gr, gr.edge \in Edges, NEW g, NEW n \in Nat, EditHandled(q, g, gr.edge, n),
         q.calls # <<>>, q.calls \in Seq(GoodCalls), q.rows \in Seq(GoodRows), NEW c, c = Head(q.calls),
         NEW p, p.calls = Tail(q.calls), p.op = q.op, p.before = q.before, p.rows = RowsAfter(c, gr, q.rows),
         NEW h, h = EdgeAfter(c, gr.node, gr.edge)
  PROVE  EditHandled(p, g, h, n)
<1>1. q.op = NoOp /\ q.before.edge \in Edges /\ Rewires(q.calls, q.rows, q.before.edge, gr.edge, n)
  BY DEF EditHandled
<1>2. Rewires(p.calls, p.rows, p.before.edge, h, n)
  BY <1>1, EditRewires
<1> QED
  BY <1>1, <1>2 DEF EditHandled

LEMMA UndoCall ==
  ASSUME NEW q, NEW nd, NEW g, NEW f \in Edges, NEW n \in Nat, UndoHandled(q, g, f, n),
         \A l \in g : InversePlan(OfOp(g, l.op)) \in Seq(GoodCalls), q.calls # <<>>,
         NEW c, c = Head(q.calls), NEW p, p.calls = Tail(q.calls), p.op = q.op,
         NEW h, h = EdgeAfter(c, nd, f)
  PROVE  UndoHandled(p, g, h, n)
<1>1. PICK b, top : /\ Piled(g, f, b, n) /\ top \in Alive(g) /\ IsTop(g, top) /\ top.op = q.op
                    /\ Unwinds(q.calls, f, b[top.at])
  BY DEF UndoHandled
<1>2. q.calls \in Seq(Backwards) /\ q.calls \in Seq(GoodCalls)
  <2>1. q.calls \in Seq(Backwards) /\ Backwards \subseteq GoodCalls
    BY DEF UndoHandled, Backwards
  <2> QED
    BY <2>1
<1>3. p.calls \in Seq(Backwards) /\ c \in Backwards
  BY <1>2
<1>4. b[top.at] \in Edges /\ NotAbove(b[top.at], n) /\ NotAbove(f, n)
  BY <1>1 DEF Piled
<1>5. Unwinds(PlanOf(g, top), f, b[top.at])
  BY <1>1 DEF Piled
<1>6. PlanOf(g, top) \in Seq(GoodCalls)
  BY <1>1 DEF PlanOf, Alive
<1>7. Unwinds(p.calls, h, b[top.at]) /\ Unwinds(PlanOf(g, top), h, b[top.at]) /\ h \in Edges
  BY <1>1, <1>2, <1>4, <1>5, <1>6, UnwindsGoes
<1>8. NotAbove(h, n)
  BY <1>1, <1>2, <1>4, UnwindsBelow
<1>9. ASSUME NEW l \in Alive(g), IsTop(g, l) PROVE Unwinds(PlanOf(g, l), h, b[l.at])
  <2>1. l \in g /\ top \in g /\ l.at \in Nat /\ top.at \in Nat
    BY <1>1 DEF Alive, Piled, Filed
  <2>2. l.at = top.at
    BY <1>1, <1>9, <2>1 DEF IsTop
  <2>3. l.op = top.op
    BY <1>1, <2>1, <2>2 DEF Piled, Filed
  <2> QED
    BY <1>7, <2>2, <2>3 DEF PlanOf
<1>10. OneEach(h)
  BY <1>7 DEF Unwinds
<1>11. Piled(g, h, b, n)
  BY <1>1, <1>8, <1>9, <1>10 DEF Piled
<1> QED
  BY <1>1, <1>3, <1>7, <1>11 DEF UndoHandled

(* The newest live row is there, and it is of the operation that undo      *)
(* takes.                                                                  *)
LEMMA LatestIsTop ==
  ASSUME LogTyped, clock \in Nat, Live # {}, Filed(log)
  PROVE  \E top \in Alive(log) : IsTop(log, top) /\ top.op = Latest /\ LatestRows = OfOp(log, Latest)
<1> DEFINE ats == {clock - l.at : l \in Live}
           top == CHOOSE l \in Live : \A k \in Live : k.at <= l.at
<1>1. \A l \in Live : l \in log /\ l.at \in Nat /\ l.at <= clock
  BY DEF Live, LogTyped
<1>2. ats \subseteq Nat /\ ats # {}
  BY <1>1
<1>3. PICK m \in ats : \A k \in ats : m <= k
  <2> HIDE DEF ats
  <2> QED
    BY <1>2, LeastNat
<1>4. PICK l \in Live : m = clock - l.at
  BY <1>3
<1>5. ASSUME NEW k \in Live PROVE k.at <= l.at
  <2>1. clock - l.at <= clock - k.at
    BY <1>3, <1>4
  <2> QED
    BY <1>1, <2>1
<1>6. \E x \in Live : \A k \in Live : k.at <= x.at
  BY <1>5
<1>7. top \in Live /\ \A k \in Live : k.at <= top.at
  BY <1>6
<1>8. top.op = Latest
  BY DEF Latest
<1> HIDE DEF top
<1>9. Live = Alive(log)
  BY DEF Live, Alive
<1>10. LatestRows = OfOp(log, Latest)
  <2>1. top \in log /\ ~top.undone
    BY <1>7 DEF Live
  <2>2. \A k \in log : k.op = Latest => ~k.undone
    BY <1>8, <2>1 DEF Filed
  <2> QED
    BY <2>2 DEF LatestRows, OfOp, Live
<1> QED
  BY <1>7, <1>8, <1>9, <1>10 DEF IsTop

LEMMA UndoBegins ==
  ASSUME LogTyped, clock \in Nat, Live # {}, NEW f, NEW n, NEW b, Piled(log, f, b, n),
         NEW p, p.calls = InversePlan(LatestRows), p.op = Latest
  PROVE  UndoHandled(p, log, f, n)
<1>1. PICK top \in Alive(log) : IsTop(log, top) /\ top.op = Latest /\ LatestRows = OfOp(log, Latest)
  BY LatestIsTop DEF Piled
<1>2. Unwinds(p.calls, f, b[top.at])
  BY <1>1 DEF Piled, PlanOf
<1>3. p.calls \in Seq(Backwards)
  BY LatestTyped, PlanBackwards
<1> QED
  BY <1>1, <1>2, <1>3 DEF UndoHandled

LEMMA UndoEnds ==
  ASSUME NEW q, NEW g, NEW f \in Edges, NEW n, UndoHandled(q, g, f, n), q.calls = <<>>,
         \A l \in g :
            /\ l.undone \in BOOLEAN
            /\ l = [op |-> l.op, seq |-> l.seq, at |-> l.at, undone |-> l.undone, row |-> l.row],
         NEW h, h = {Marked(l, q.op) : l \in g}
  PROVE  Heaped(h, f, n)
<1>1. PICK b, top : /\ Piled(g, f, b, n) /\ top \in Alive(g) /\ IsTop(g, top) /\ top.op = q.op
                    /\ Unwinds(<<>>, f, b[top.at])
  BY DEF UndoHandled
<1>2. Within(f, b[top.at])
  BY <1>1 DEF Unwinds, Within
<1>3. Piled(h, f, b, n)
  BY <1>1, <1>2, PileShrinks
<1> QED
  BY <1>3 DEF Heaped

LEMMA EditRecorded ==
  ASSUME NEW q, NEW g, NEW f \in Edges, NEW n, EditHandled(q, g, f, n), q.op # NoOp,
         q.rows \in Seq(GoodRows), q.rows # <<>>, q.at \in Nat, OfOp(g, q.op) = {},
         NEW h, h = g \cup Logged(q.op, q.at, q.rows)
  PROVE  Heaped(h, f, n)
<1>1. /\ q.calls = <<>> /\ q.before.edge \in Edges /\ \A l \in g : l.at < q.at
      /\ Rewires(<<>>, q.rows, q.before.edge, f, n)
  BY DEF EditHandled
<1>2. PICK b : Piled(g, q.before.edge, b, n)
  BY DEF EditHandled
<1> PICK new : new = Logged(q.op, q.at, q.rows)
  OBVIOUS
<1> PICK w : w = q.before.edge
  OBVIOUS
<1>3. Unwinds(InversePlan(new), f, w)
  BY <1>1, RewiresEnds
<1>4. NotAbove(f, n)
  BY <1>1 DEF Rewires
<1>5. w \in Edges /\ Piled(g, w, b, n) /\ \A l \in g : l.at < q.at
  BY <1>1, <1>2
<1>6. h = g \cup new
  OBVIOUS
<1> QED
  BY <1>3, <1>4, <1>5, <1>6, PileGrows

(* The operations of the log, the edit under way, and what there was of    *)
(* them.  Where not each operation that was begun has its evidence, a      *)
(* handle may come back that has moved on, and nothing more is said.       *)
Evidence(g) == {l.op : l \in g}
Owed(q) == IF q.kind = "edit" THEN 1 ELSE 0
Accounted(q, g) == Cardinality(Evidence(g)) + Owed(q)
KeptTo(q, g, f, n, m) ==
  /\ IsFiniteSet(Evidence(g))
  /\ Accounted(q, g) <= m
  /\ Accounted(q, g) = m => Handled(q, g, f, n)
HandlesKept(r) == KeptTo(req[r], log, edge, minted, begun)

LEMMA AccountedIs ==
  ASSUME NEW q, NEW g, NEW f, NEW n, NEW m, KeptTo(q, g, f, n, m)
  PROVE  /\ Cardinality(Evidence(g)) \in Nat
         /\ q.kind = "edit" => Accounted(q, g) = Cardinality(Evidence(g)) + 1
         /\ q.kind # "edit" => Accounted(q, g) = Cardinality(Evidence(g))
<1>1. IsFiniteSet(Evidence(g))
  BY DEF KeptTo
<1>2. Cardinality(Evidence(g)) \in Nat
  BY <1>1, FS_CardinalityType
<1> QED
  BY <1>2 DEF Accounted, Owed

(* An edit that goes away without a row leaves the log behind.             *)
LEMMA FallsBehind ==
  ASSUME NEW q, NEW g, NEW f, NEW n, NEW m \in Nat, KeptTo(q, g, f, n, m), q.kind = "edit",
         NEW h, NEW k
  PROVE  KeptTo(Idle, g, h, k, m)
<1> PICK e : e = Cardinality(Evidence(g))
  OBVIOUS
<1>1. e \in Nat /\ e + 1 <= m /\ IsFiniteSet(Evidence(g))
  BY AccountedIs DEF KeptTo
<1>2. Accounted(Idle, g) = e
  BY <1>1 DEF Accounted, Owed, Idle
<1>3. e <= m /\ e # m
  BY <1>1
<1> QED
  BY <1>1, <1>2, <1>3 DEF KeptTo

(* What goes on as it was keeps the account.                               *)
LEMMA GoesOn ==
  ASSUME NEW q, NEW g, NEW f, NEW n, NEW m \in Nat, KeptTo(q, g, f, n, m),
         NEW p, Owed(p) = Owed(q), NEW d, Evidence(d) = Evidence(g), NEW h, NEW k,
         Handled(q, g, f, n) => Handled(p, d, h, k)
  PROVE  KeptTo(p, d, h, k, m)
<1>1. Accounted(p, d) = Accounted(q, g)
  BY DEF Accounted
<1> QED
  BY <1>1 DEF KeptTo

LEMMA BeginKeeps ==
  ASSUME NEW slot \in Requests, ReqShape, GraphTyped, EndsExist, begun \in Nat, minted' \in Nat,
         HandlesKept(slot), Operation(slot)
  PROVE  HandlesKept(slot)'
<1>1. req[slot] = Idle /\ UNCHANGED edge
  BY OperationTouches DEF Operation
<1>2. Idle.kind # "edit" /\ KeptTo(Idle, log, edge, minted, begun)
  BY <1>1 DEF Idle, HandlesKept
<1> PICK e : e = Cardinality(Evidence(log))
  OBVIOUS
<1>3. e \in Nat /\ Accounted(Idle, log) = e /\ e <= begun /\ IsFiniteSet(Evidence(log))
  BY <1>2, AccountedIs DEF KeptTo
<1>4. PICK calls, seed, rows : Begin(slot, calls, seed, rows)
  BY OperationStarts DEF Started
<1>5. begun' = begun + 1 /\ log' = log /\ req'[slot].kind = "edit"
  BY <1>4 DEF Begin, ReqShape
<1> PICK p : p = req'[slot]
  OBVIOUS
<1>6. Accounted(p, log) = e + 1
  BY <1>3, <1>5 DEF Accounted, Owed
<1>7. ASSUME e = begun PROVE Handled(p, log, edge, minted')
  <2>1. PICK b : Piled(log, edge, b, minted)
    BY <1>2, <1>3, <1>7 DEF KeptTo, Handled
  <2>2. OneEach(edge) /\ NotAbove(edge, minted)
    BY <2>1 DEF Piled
  <2>3. Rewiring(slot)
    BY <2>2, OperationRewires
  <2>4. PICK cs, sd, rs : /\ Begin(slot, cs, sd, rs)
                          /\ minted <= minted' /\ Rewires(cs, rs, edge, edge, minted')
    BY <2>3 DEF Rewiring
  <2> PICK q : q = Edit(cs, sd, rs, NoOp, 0, Graph)
    OBVIOUS
  <2>5. p = q
    BY <2>4 DEF Begin, Edit, ReqShape
  <2>6. /\ q.kind = "edit" /\ q.calls = cs /\ q.rows = rs /\ q.op = NoOp
        /\ q.before = Graph /\ q # Idle
    BY DEF Edit, Idle
  <2>7. edge \in Edges /\ Graph.edge = edge /\ minted \in Nat
    BY DEF GraphTyped, Edges, Graph
  <2>8. Piled(log, edge, b, minted')
    BY <2>1, <2>4, <2>7, PiledLater
  <2>9. EditHandled(q, log, edge, minted')
    BY <2>4, <2>6, <2>7, <2>8 DEF EditHandled
  <2> QED
    BY <2>5, <2>6, <2>9 DEF Handled
<1>8. KeptTo(p, log, edge, minted', begun + 1)
  <2>1. e + 1 <= begun + 1 /\ (e + 1 = begun + 1 => e = begun)
    BY <1>3
  <2> QED
    BY <1>3, <1>6, <1>7, <2>1 DEF KeptTo
<1> QED
  BY <1>1, <1>5, <1>8 DEF HandlesKept

LEMMA CallKeeps ==
  ASSUME NEW slot \in Requests, ReqShape, ReqTyped, LogTyped, GraphTyped, begun \in Nat,
         HandlesKept(slot), StoreCall(slot)
  PROVE  HandlesKept(slot)'
<1> PICK q : q = req[slot]
  OBVIOUS
<1> PICK p : p = req'[slot]
  OBVIOUS
<1> PICK c : c = Head(q.calls)
  BY SMTT(30)
<1>1. q # Idle /\ q.calls # <<>>
  BY DEF StoreCall, CreateEntity, UpdateEntity, RestoreFields, DeleteNode, RelabelType, CreateRelation,
     DeleteRelation, AddMention, DeleteMention, UpdateMentionSpan, DeleteMentionsOf, ReassignMentions,
     RepointMentions, AddSuppression, DeleteSuppression, Calls
<1>2. UNCHANGED <<log, minted, begun>>
  BY DEF StoreCall, CreateEntity, UpdateEntity, RestoreFields, DeleteNode, RelabelType, CreateRelation,
     DeleteRelation, AddMention, DeleteMention, UpdateMentionSpan, DeleteMentionsOf, ReassignMentions,
     RepointMentions, AddSuppression, DeleteSuppression, Bookkeeping
<1>3. edge' = EdgeAfter(c, node, edge)
  <2>1. Graph' = After(c, Graph)
    BY CallIs
  <2>2. Graph'.edge = edge' /\ Graph.node = node /\ Graph.edge = edge
    BY DEF Graph
  <2>3. After(c, Graph).edge = EdgeAfter(c, Graph.node, Graph.edge)
    BY DEF After, GraphOf
  <2> QED
    BY <2>1, <2>2, <2>3
<1>4. \/ /\ p.kind = q.kind /\ p.calls = Tail(q.calls) /\ p.op = q.op
         /\ IsEdit(q) => p.before = q.before /\ p.rows = RowsAfter(c, Graph, q.rows)
      \/ p = Idle /\ c.do = "relabel_entity_type"
  BY CallMoves DEF ReqShape
<1>5. q.calls \in Seq(GoodCalls) /\ Graph.node = node /\ Graph.edge = edge /\ edge \in Edges
      /\ Idle.kind = "idle" /\ minted \in Nat
  BY <1>1 DEF ReqTyped, GoodReq, Graph, Idle, GraphTyped, Edges
<1>6. KeptTo(q, log, edge, minted, begun)
  BY DEF HandlesKept
<1>7. CASE IsEdit(q)
  <2>1. q.kind = "edit" /\ q.rows \in Seq(GoodRows)
    BY <1>7, EditIsEdit DEF ReqTyped, GoodReq
  <2>2. CASE p = Idle
    <3>1. KeptTo(p, log, edge', minted, begun)
      BY <1>6, <2>1, <2>2, FallsBehind
    <3> QED
      BY <1>2, <3>1 DEF HandlesKept
  <2>3. CASE p # Idle
    <3>1. /\ p.kind = "edit" /\ p.calls = Tail(q.calls) /\ p.op = q.op
          /\ p.before = q.before /\ p.rows = RowsAfter(c, Graph, q.rows)
      BY <1>4, <1>7, <2>1, <2>3
    <3>2. ASSUME Handled(q, log, edge, minted) PROVE Handled(p, log, edge', minted)
      <4>1. EditHandled(q, log, Graph.edge, minted)
        BY <1>5, <2>1, <3>2 DEF Handled
      <4>2. Graph.edge \in Edges /\ edge' = EdgeAfter(c, Graph.node, Graph.edge)
        BY <1>3, <1>5
      <4>3. EditHandled(p, log, edge', minted)
        BY <1>1, <1>5, <2>1, <3>1, <4>1, <4>2, EditCall
      <4> QED
        BY <2>3, <3>1, <4>3 DEF Handled
    <3>3. Owed(p) = Owed(q)
      BY <2>1, <3>1 DEF Owed
    <3>4. KeptTo(p, log, edge', minted, begun)
      BY <1>6, <3>2, <3>3, GoesOn
    <3> QED
      BY <1>2, <3>4 DEF HandlesKept
  <2> QED
    BY <2>2, <2>3
<1>8. CASE IsUndo(q)
  <2>1. q.kind = "undo"
    BY <1>8 DEF IsUndo
  <2>2. ASSUME Handled(q, log, edge, minted) PROVE Handled(p, log, edge', minted)
    <3>1. UndoHandled(q, log, edge, minted)
      BY <2>1, <2>2 DEF Handled
    <3>2. ASSUME NEW l \in log PROVE InversePlan(OfOp(log, l.op)) \in Seq(GoodCalls)
      <4> PICK rows : rows = OfOp(log, l.op)
        OBVIOUS
      <4>1. rows \in SUBSET log /\ \A k \in rows : k.op = l.op
        BY DEF OfOp
      <4>2. IsFiniteSet(log)
        BY DEF LogTyped
      <4>3. IsFiniteSet(rows)
        BY <4>1, <4>2, FS_Subset
      <4>4. OneOperation(rows)
        BY <4>1, <4>3 DEF LogTyped, OneOperation
      <4> QED
        BY <4>4, PlanTyped
    <3>3. q.calls \in Seq(Backwards)
      BY <3>1 DEF UndoHandled
    <3>4. c.do # "relabel_entity_type"
      BY <1>1, <3>3 DEF Backwards
    <3>5. p.kind = "undo" /\ p.calls = Tail(q.calls) /\ p.op = q.op
      BY <1>4, <2>1, <3>4
    <3>6. UndoHandled(p, log, edge', minted)
      BY <1>1, <1>3, <1>5, <3>1, <3>2, <3>5, UndoCall
    <3> QED
      BY <1>5, <3>5, <3>6 DEF Handled
  <2>3. CASE p = Idle
    <3>1. Owed(p) = Owed(q)
      BY <1>5, <2>1, <2>3 DEF Owed
    <3>2. KeptTo(p, log, edge', minted, begun)
      BY <1>6, <2>2, <3>1, GoesOn
    <3> QED
      BY <1>2, <3>2 DEF HandlesKept
  <2>4. CASE p # Idle
    <3>1. Owed(p) = Owed(q)
      BY <1>4, <2>4 DEF Owed
    <3>2. KeptTo(p, log, edge', minted, begun)
      BY <1>6, <2>2, <3>1, GoesOn
    <3> QED
      BY <1>2, <3>2 DEF HandlesKept
  <2> QED
    BY <2>3, <2>4
<1> QED
  BY <1>1, <1>7, <1>8 DEF ReqShape

LEMMA StampKeeps ==
  ASSUME NEW slot \in Requests, ReqShape, LogTyped, clock \in Nat, begun \in Nat,
         HandlesKept(slot), Stamp(slot)
  PROVE  HandlesKept(slot)'
<1> PICK q : q = req[slot]
  OBVIOUS
<1> PICK p : p = req'[slot]
  OBVIOUS
<1>1. /\ q.kind = "edit" /\ q.calls = <<>> /\ p.kind = "edit"
      /\ p.calls = q.calls /\ p.rows = q.rows /\ p.before = q.before
      /\ p.at = clock + 1
  BY StampEffect
<1>2. UNCHANGED <<log, edge, minted, begun>>
  BY DEF Stamp
<1>3. \A l \in log : l.at < p.at
  BY <1>1 DEF LogTyped
<1>4. ASSUME Handled(q, log, edge, minted) PROVE Handled(p, log, edge, minted)
  <2>1. EditHandled(q, log, edge, minted)
    BY <1>1, <1>4 DEF Handled
  <2>2. EditHandled(p, log, edge, minted)
    BY <1>1, <1>3, <2>1 DEF EditHandled
  <2> QED
    BY <1>1, <2>2 DEF Handled, Idle
<1>5. Owed(p) = Owed(q) /\ KeptTo(q, log, edge, minted, begun)
  BY <1>1 DEF Owed, HandlesKept
<1>6. KeptTo(p, log, edge, minted, begun)
  BY <1>4, <1>5, GoesOn
<1> QED
  BY <1>2, <1>6 DEF HandlesKept

LEMMA RecordKeeps ==
  ASSUME NEW slot \in Requests, ReqShape, ReqTyped, LogTyped, GraphTyped, clock \in Nat, begun \in Nat,
         HandlesKept(slot), Record(slot)
  PROVE  HandlesKept(slot)'
<1> PICK q : q = req[slot]
  OBVIOUS
<1> PICK h : h = log'
  OBVIOUS
<1> PICK e : e = Cardinality(Evidence(log))
  OBVIOUS
<1> PICK new : new = Logged(q.op, q.at, q.rows)
  OBVIOUS
<1>1. /\ q.kind = "edit" /\ q.op # NoOp /\ req'[slot] = Idle /\ UNCHANGED <<edge, minted, begun>>
  BY DEF Record, ReqShape
<1>2. q.rows \in Seq(GoodRows) /\ q.at \in Nat /\ edge \in Edges
  BY <1>1 DEF ReqTyped, GoodReq, GraphTyped, Edges
<1>3. KeptTo(q, log, edge, minted, begun)
  BY DEF HandlesKept
<1>4. e \in Nat /\ e + 1 <= begun /\ IsFiniteSet(Evidence(log)) /\ Accounted(q, log) = e + 1
  BY <1>1, <1>3, AccountedIs DEF KeptTo
<1>5. NewRows(slot) = new
  <2>1. DOMAIN q.rows = 1 .. Len(q.rows)
    BY <1>2
  <2> QED
    BY <2>1 DEF NewRows, Logged, Entry
<1>6. \A x \in new : x.op = q.op
  BY DEF Logged, Entry
<1>7. h = log \cup {x \in new : \A l \in RowsOf(x.op) : l.seq # x.seq}
  BY <1>5 DEF Record
<1>8. /\ IsFiniteSet(Evidence(log) \cup {q.op})
      /\ Cardinality(Evidence(log) \cup {q.op}) = IF q.op \in Evidence(log) THEN e ELSE e + 1
  BY <1>4, FS_AddElement
<1>9. Evidence(h) \in SUBSET (Evidence(log) \cup {q.op})
  BY <1>6, <1>7 DEF Evidence
<1>10. /\ IsFiniteSet(Evidence(h))
       /\ Cardinality(Evidence(h)) <= Cardinality(Evidence(log) \cup {q.op})
       /\ Cardinality(Evidence(log) \cup {q.op}) = Cardinality(Evidence(h)) =>
            Evidence(log) \cup {q.op} = Evidence(h)
  BY <1>8, <1>9, FS_Subset
<1> PICK d : d = Cardinality(Evidence(h))
  OBVIOUS
<1>11. d \in Nat
  BY <1>10, FS_CardinalityType
<1>12. Accounted(Idle, h) = d
  BY <1>11 DEF Accounted, Owed, Idle
<1>13. d <= begun
  BY <1>4, <1>8, <1>10, <1>11
<1>14. ASSUME d = begun PROVE Handled(Idle, h, edge, minted)
  <2>1. e + 1 = begun /\ q.op \notin Evidence(log)
    BY <1>4, <1>8, <1>10, <1>11, <1>14
  <2>2. Evidence(log) \cup {q.op} = Evidence(h)
    BY <1>8, <1>10, <1>14, <2>1
  <2>3. OfOp(log, q.op) = {}
    BY <2>1 DEF OfOp, Evidence
  <2>4. h = log \cup new
    <3>1. RowsOf(q.op) = {}
      BY <2>3 DEF RowsOf, OfOp
    <3>2. {x \in new : \A l \in RowsOf(x.op) : l.seq # x.seq} = new
      BY <1>6, <3>1
    <3> QED
      BY <1>7, <3>2
  <2>5. q.rows # <<>>
    <3> SUFFICES ASSUME q.rows = <<>> PROVE FALSE
      OBVIOUS
    <3>1. Len(q.rows) = 0
      OBVIOUS
    <3>2. new = {}
      BY <3>1 DEF Logged
    <3>3. h = log
      BY <2>4, <3>2
    <3> QED
      BY <2>1, <2>2, <3>3
  <2>6. EditHandled(q, log, edge, minted)
    BY <1>1, <1>3, <1>4, <2>1 DEF KeptTo, Handled
  <2>7. Heaped(h, edge, minted)
    BY <1>1, <1>2, <2>3, <2>4, <2>5, <2>6, EditRecorded
  <2> QED
    BY <2>7 DEF Handled, Heaped, Idle
<1>15. KeptTo(Idle, h, edge, minted, begun)
  BY <1>10, <1>12, <1>13, <1>14 DEF KeptTo
<1> QED
  BY <1>1, <1>15 DEF HandlesKept

LEMMA UndoLastKeeps ==
  ASSUME NEW slot \in Requests, ReqShape, LogTyped, GraphTyped, clock \in Nat, begun \in Nat,
         HandlesKept(slot), UndoLast(slot)
  PROVE  HandlesKept(slot)'
<1> DEFINE plan == InversePlan(LatestRows)
<1> PICK p : p = [kind |-> "undo", calls |-> plan, op |-> Latest]
  OBVIOUS
<1>1. req[slot] = Idle /\ req'[slot] = p /\ Live # {} /\ UNCHANGED <<log, edge, minted, begun>>
  BY DEF UndoLast, ReqShape
<1> HIDE DEF plan
<1>2. p.kind = "undo" /\ p.calls = plan /\ p.op = Latest /\ p # Idle
  BY DEF Idle
<1>3. ASSUME Handled(Idle, log, edge, minted) PROVE Handled(p, log, edge, minted)
  <2>1. PICK b : Piled(log, edge, b, minted)
    BY <1>3 DEF Handled
  <2>2. UndoHandled(p, log, edge, minted)
    BY <1>1, <1>2, <2>1, UndoBegins DEF plan
  <2> QED
    BY <1>2, <2>2 DEF Handled
<1>4. Owed(p) = Owed(Idle) /\ KeptTo(Idle, log, edge, minted, begun)
  BY <1>1, <1>2 DEF Owed, Idle, HandlesKept
<1>5. KeptTo(p, log, edge, minted, begun)
  BY <1>3, <1>4, GoesOn
<1> QED
  BY <1>1, <1>5 DEF HandlesKept

LEMMA MarkKeeps ==
  ASSUME NEW slot \in Requests, ReqShape, LogShape, GraphTyped, begun \in Nat,
         HandlesKept(slot), MarkUndone(slot)
  PROVE  HandlesKept(slot)'
<1> PICK q : q = req[slot]
  OBVIOUS
<1> PICK h : h = log'
  OBVIOUS
<1>1. /\ q.kind = "undo" /\ q.calls = <<>> /\ req'[slot] = Idle /\ UNCHANGED <<edge, minted, begun>>
  BY DEF MarkUndone, ReqShape
<1>2. h = {Marked(l, q.op) : l \in log}
  BY DEF MarkUndone, Marked
<1>3. \A l \in log :
        /\ l.undone \in BOOLEAN
        /\ l = [op |-> l.op, seq |-> l.seq, at |-> l.at, undone |-> l.undone, row |-> l.row]
  BY DEF LogShape
<1>4. Evidence(h) = Evidence(log)
  <2>1. \A l \in log : Marked(l, q.op).op = l.op
    BY <1>3 DEF Marked
  <2> QED
    BY <1>2, <2>1 DEF Evidence
<1>5. ASSUME Handled(q, log, edge, minted) PROVE Handled(Idle, h, edge, minted)
  <2>1. UndoHandled(q, log, edge, minted) /\ edge \in Edges
    BY <1>1, <1>5 DEF Handled, GraphTyped, Edges
  <2>2. Heaped(h, edge, minted)
    BY <1>1, <1>2, <1>3, <2>1, UndoEnds
  <2> QED
    BY <2>2 DEF Handled, Heaped, Idle
<1>6. Owed(Idle) = Owed(q) /\ KeptTo(q, log, edge, minted, begun)
  BY <1>1 DEF Owed, Idle, HandlesKept
<1>7. KeptTo(Idle, h, edge, minted, begun)
  BY <1>4, <1>5, <1>6, GoesOn
<1> QED
  BY <1>1, <1>7 DEF HandlesKept

(* An undo that dies has not left the pile.                                *)
LEMMA FailKeeps ==
  ASSUME NEW slot \in Requests, ReqShape, begun \in Nat, HandlesKept(slot), Fail(slot)
  PROVE  HandlesKept(slot)'
<1> PICK q : q = req[slot]
  OBVIOUS
<1>1. q # Idle /\ req'[slot] = Idle /\ UNCHANGED <<log, edge, minted, begun>>
  BY DEF Fail, ReqShape
<1>2. KeptTo(q, log, edge, minted, begun)
  BY DEF HandlesKept
<1>3. CASE IsEdit(q)
  <2>1. KeptTo(Idle, log, edge, minted, begun)
    BY <1>2, <1>3, FallsBehind, EditIsEdit
  <2> QED
    BY <1>1, <2>1 DEF HandlesKept
<1>4. CASE IsUndo(q)
  <2>1. q.kind = "undo"
    BY <1>4 DEF IsUndo
  <2>2. ASSUME Handled(q, log, edge, minted) PROVE Handled(Idle, log, edge, minted)
    <3>1. UndoHandled(q, log, edge, minted)
      BY <2>1, <2>2 DEF Handled
    <3>2. \E b : Piled(log, edge, b, minted)
      BY <3>1 DEF UndoHandled
    <3> QED
      BY <3>2 DEF Handled, Idle
  <2>3. Owed(Idle) = Owed(q)
    BY <2>1 DEF Owed, Idle
  <2>4. KeptTo(Idle, log, edge, minted, begun)
    BY <1>2, <2>2, <2>3, GoesOn
  <2> QED
    BY <1>1, <2>4 DEF HandlesKept
<1> QED
  BY <1>1, <1>3, <1>4 DEF ReqShape

LEMMA HandlesStep ==
  ASSUME NEW slot, Requests = {slot}, Alone(slot), Alone(slot)', HandlesKept(slot), [Next]_vars
  PROVE  HandlesKept(slot)'
<1>0. /\ slot \in Requests /\ clock \in Nat /\ ReqShape /\ LogShape /\ GraphTyped /\ EndsExist
      /\ LogTyped /\ ReqTyped /\ begun \in Nat
  BY DEF Alone, Inv, IdsOK, TypeInv, Counted
<1>1. minted' \in Nat
  BY DEF Alone, TypeInv, GraphTyped
<1>2. CASE UNCHANGED vars
  BY <1>2 DEF vars, HandlesKept
<1>3. CASE Next
  BY <1>0, <1>1, <1>3, BeginKeeps, CallKeeps, StampKeeps, RecordKeeps, UndoLastKeeps, MarkKeeps, FailKeeps
     DEF Next
<1> QED
  BY <1>2, <1>3

LEMMA HandlesInit ==
  ASSUME NEW slot, Requests = {slot}, Init, ConstantsAssumption, HandlesAssumption
  PROVE  HandlesKept(slot)
<1>1. req[slot] = Idle /\ log = {} /\ edge = InitialEdges /\ minted = GivenOut /\ begun = 0
  BY DEF Init
<1>2. Evidence(log) = {}
  BY <1>1 DEF Evidence
<1>3. IsFiniteSet({}) /\ Cardinality({}) = 0
  BY FS_EmptySet
<1>4. Accounted(Idle, log) = 0
  BY <1>2, <1>3 DEF Accounted, Owed, Idle
<1>5. OneEach(edge) /\ NotAbove(edge, minted)
  BY <1>1 DEF OneEach, NotAbove, HandlesAssumption, ConstantsAssumption
<1>6. \E b : Piled(log, edge, b, minted)
  BY <1>1, <1>5, NothingPiled
<1>7. Handled(Idle, log, edge, minted)
  BY <1>6 DEF Handled, Idle
<1>8. IsFiniteSet(Evidence(log))
  BY <1>2, <1>3
<1>9. Accounted(Idle, log) <= begun
  BY <1>1, <1>4
<1>10. KeptTo(Idle, log, edge, minted, begun)
  BY <1>7, <1>8, <1>9 DEF KeptTo
<1> QED
  BY <1>1, <1>10 DEF HandlesKept

LEMMA HandlesAreKept ==
  ASSUME NEW slot, Requests = {slot}, Alone(slot), HandlesKept(slot)
  PROVE  HandleNamesOneEdge
<1> SUFFICES ASSUME req[slot] = Idle, EveryOperationIsLogged PROVE OneEach(edge)
  BY DEF HandleNamesOneEdge, AtRest, HasEdge, OneEach
<1>1. KeptTo(Idle, log, edge, minted, begun) /\ Idle.kind # "edit"
  BY DEF HandlesKept, Idle
<1>2. Accounted(Idle, log) = Cardinality(Evidence(log))
  BY <1>1, AccountedIs
<1>3. Cardinality(Evidence(log)) = begun
  BY DEF EveryOperationIsLogged, Evidence
<1>4. Handled(Idle, log, edge, minted)
  BY <1>1, <1>2, <1>3 DEF KeptTo
<1>5. PICK b : Piled(log, edge, b, minted)
  BY <1>4 DEF Handled
<1> QED
  BY <1>5 DEF Piled

(* One request at a time: as long as the log has the evidence of each      *)
(* operation there was, no two edges have one handle -- whatever was       *)
(* re-keyed, folded, merged, deleted and undone, and whichever undo died   *)
(* half way.                                                               *)
THEOREM HandlesAreOfOneEdge ==
  ASSUME NEW slot, Requests = {slot} PROVE Spec => []HandleNamesOneEdge
<1>1. ConstantsAssumption /\ HandlesAssumption
  BY ConstantsAssumption, HandlesAssumption
<1> DEFINE A == Alone(slot)
           I == A /\ HandlesKept(slot)
<1>2. Init => I
  BY <1>1, InvInit, TypedInit, SafeInit, HandlesInit DEF Alone
<1>3. A /\ [Next]_vars => A'
  BY InvStep, TypedStep, FreshStep, SafeStep DEF Alone
<1>4. I /\ [Next]_vars => I'
  BY <1>3, HandlesStep
<1>5. I => HandleNamesOneEdge
  BY HandlesAreKept
<1> QED
  BY <1>2, <1>4, <1>5, PTL DEF Spec
=============================================================================

------------------------------ MODULE GraphEdit ------------------------------
(***************************************************************************)
(* The author edits the committed graph: EntityEditService.  An operation  *)
(* reads what it needs, plans its store calls, makes them one by one on    *)
(* Neo4j and Postgres, and logs what it did last, in graph_edits.  Undo    *)
(* reads the newest live operation of the log, checks that the graph has   *)
(* not drifted, makes the inverse calls, newest row first, and marks the   *)
(* operation undone.  A store error or the end of the process can stop     *)
(* either between any two calls.                                           *)
(*                                                                         *)
(* One action is one store call.  The reads that precede an operation's    *)
(* first write are taken together with its planning.                       *)
(***************************************************************************)
EXTENDS Naturals, Sequences, SequencesExt

CONSTANTS
  Entities,     \* entity ids of the project
  Predicates,   \* relationship types
  Types,        \* entity types
  Names,        \* canonical names and aliases
  Values,       \* values of the one property that is modelled
  Spans,        \* places in the text that can be tagged
  NoValue,      \* the property is not set
  NoSpan,       \* an accepted mention has no offsets
  NoNode, NoEdge, NoMention,   \* not in the store
  Everyone,     \* a suppression of whatever claims a span
  Named,        \* what the text at a span says
  TagEntity,    \* the id minted for a span tagged as new: uuid5 of span and name
  InitialNodes, InitialEdges, InitialMentions,   \* the graph before any edit
  GivenOut,     \* handles given out before any edit
  Asks,         \* what the author may ask for
  Requests,     \* requests that can be in flight together
  MaxEdits,     \* bound on the operations begun
  MaxFailures   \* bound on requests that die, for edits and for undos

Node == [type : Types, name : Names, aliases : SUBSET Names, prop : Values \cup {NoValue}]
Triples == Entities \X Predicates \X Entities
Mention == [entity : Entities, span : Spans \cup {NoSpan}]
(* _mention_id: uuid5 of entity and place.  A later move changes neither.  *)
MentionIds == Entities \X (Spans \cup {NoSpan})
(* _suppression_id: uuid5 of the span and whom it hides there.             *)
Suppressions == Spans \X (Entities \cup {Everyone})
(* An edge's surrogate handle; an edge from before handles has none.       *)
Legacy == 0
Handles == Nat

(* Some fields of a node, put over what it has.                            *)
Over(patch, n) == [f \in DOMAIN n |-> IF f \in DOMAIN patch THEN patch[f] ELSE n[f]]

(* What an edit may write: some fields of a node, each of its own type.    *)
Fields ==
  {p \in UNION {[D -> Types \cup Names \cup (SUBSET Names) \cup Values \cup {NoValue}] :
                 D \in SUBSET {"type", "name", "aliases", "prop"}} :
     \A n \in Node : Over(p, n) \in Node}

ASSUME ConstantsAssumption ==
  /\ IsFiniteSet(Entities) /\ IsFiniteSet(Predicates) /\ IsFiniteSet(Spans)
  /\ NoNode \notin Node
  /\ NoEdge \notin Handles
  /\ NoMention \notin Mention
  /\ Named \in [Spans -> Names]
  /\ TagEntity \in [Spans -> Entities]
  /\ InitialNodes \in [Entities -> Node \cup {NoNode}]
  /\ InitialEdges \in [Triples -> Handles \cup {NoEdge}]
  /\ \A t \in Triples : InitialEdges[t] # NoEdge =>
       /\ InitialNodes[t[1]] # NoNode /\ InitialNodes[t[3]] # NoNode
       /\ InitialEdges[t] <= GivenOut
  /\ GivenOut \in Nat
  /\ InitialMentions \in [MentionIds -> Mention \cup {NoMention}]
  /\ \A i \in MentionIds : InitialMentions[i] # NoMention =>
       /\ InitialNodes[InitialMentions[i].entity] # NoNode
       /\ i[2] # NoSpan => InitialMentions[i].span \in Spans
  /\ MaxEdits \in Nat
  /\ MaxFailures \in [{"edit", "undo"} -> Nat]

(* A handle is a uuid4, given out for one edge.                            *)
ASSUME HandlesAssumption ==
  \A t, u \in Triples : InitialEdges[t] = InitialEdges[u] /\ InitialEdges[t] \notin {NoEdge, Legacy} => t = u

VARIABLES
  node,      \* Neo4j entity nodes
  edge,      \* Neo4j relationships: the handle of each triple
  mention,   \* Postgres entity_mentions
  hidden,    \* Postgres mention_suppressions
  log,       \* Postgres graph_edits: rows
  req,       \* the requests in flight
  minted,    \* handles given out so far: uuid4
  clock,     \* the last created_at
  begun,     \* operations begun so far
  failures,  \* requests that have died so far
  trail      \* history: the graph before each of the latest operations

vars == <<node, edge, mention, hidden, log, req, minted, clock, begun, failures, trail>>

Graph == [node |-> node, edge |-> edge, mention |-> mention, hidden |-> hidden]

Idle == [kind |-> "idle"]
NoOp == <<>>

Init ==
  /\ node = InitialNodes
  /\ edge = InitialEdges
  /\ mention = InitialMentions
  /\ hidden = {}
  /\ log = {}
  /\ req = [r \in Requests |-> Idle]
  /\ minted = GivenOut
  /\ clock = 0
  /\ begun = 0
  /\ failures = [edit |-> 0, undo |-> 0]
  /\ trail = <<>>

Exists(e) == node[e] # NoNode
HasEdge(t) == edge[t] # NoEdge
MentionsOf(e) == {i \in MentionIds : mention[i] # NoMention /\ mention[i].entity = e}
Incident(e) == {t \in Triples : HasEdge(t) /\ e \in {t[1], t[3]}}

(* A store call and a row of the log: what, on which object, with what.    *)
Call(do, on, with) == [do |-> do, on |-> on, with |-> with]
Row(op, target, before, after) ==
  [op |-> op, target |-> target, before |-> before, after |-> after]
NoImage == "none"

-----------------------------------------------------------------------------
(* Store calls *)

Calls(r, do) ==
  /\ req[r] # Idle
  /\ req[r].calls # <<>>
  /\ Head(req[r].calls).do = do

On(r) == Head(req[r].calls).on
With(r) == Head(req[r].calls).with
Return(r) == req' = [req EXCEPT ![r].calls = Tail(@)]
ReturnRows(r, rows) ==
  req' = [req EXCEPT ![r] = [@ EXCEPT !.calls = Tail(req[r].calls), !.rows = rows]]

Bookkeeping == <<log, minted, clock, begun, failures, trail>>

(* Neo4jRepo.create_entity: MERGE, ON CREATE SET.                          *)
CreateEntity(r) ==
  /\ Calls(r, "create_entity")
  /\ node' = IF Exists(On(r)) THEN node ELSE [node EXCEPT ![On(r)] = With(r)]
  /\ Return(r)
  /\ UNCHANGED <<edge, mention, hidden, Bookkeeping>>

(* update_entity: MATCH, every field overwritten.                          *)
UpdateEntity(r) ==
  /\ Calls(r, "update_entity")
  /\ node' = IF Exists(On(r)) THEN [node EXCEPT ![On(r)] = With(r)] ELSE node
  /\ Return(r)
  /\ UNCHANGED <<edge, mention, hidden, Bookkeeping>>

(* RestoreEntityFields: the node as it is now, with some fields put back.  *)
RestoreFields(r) ==
  /\ Calls(r, "restore_fields")
  /\ node' = IF Exists(On(r)) THEN [node EXCEPT ![On(r)] = Over(With(r), @)] ELSE node
  /\ Return(r)
  /\ UNCHANGED <<edge, mention, hidden, Bookkeeping>>

DeleteNodeAlone(r) ==   \* mutant: DELETE without DETACH
  /\ Calls(r, "delete_entity")
  /\ node' = [node EXCEPT ![On(r)] = NoNode]
  /\ Return(r)
  /\ UNCHANGED <<edge, mention, hidden, Bookkeeping>>

(* delete_entity: DETACH DELETE.                                           *)
DeleteNode(r) ==
  /\ Calls(r, "delete_entity")
  /\ node' = [node EXCEPT ![On(r)] = NoNode]
  /\ edge' = [t \in Triples |-> IF On(r) \in {t[1], t[3]} THEN NoEdge ELSE edge[t]]
  /\ Return(r)
  /\ UNCHANGED <<mention, hidden, Bookkeeping>>

CreateRelationOver(r) ==   \* mutant: SET whether or not the edge was there
  LET t == On(r)
  IN  /\ Calls(r, "create_relation")
      /\ edge' = IF Exists(t[1]) /\ Exists(t[3]) THEN [edge EXCEPT ![t] = With(r)] ELSE edge
      /\ Return(r)
      /\ UNCHANGED <<node, mention, hidden, Bookkeeping>>

(* create_relation: MATCH both ends, MERGE on the id, ON CREATE SET.       *)
CreateRelation(r) ==
  LET t == On(r)
  IN  /\ Calls(r, "create_relation")
      /\ edge' = IF Exists(t[1]) /\ Exists(t[3]) /\ ~HasEdge(t)
                   THEN [edge EXCEPT ![t] = With(r)]
                   ELSE edge
      /\ Return(r)
      /\ UNCHANGED <<node, mention, hidden, Bookkeeping>>

DeleteRelation(r) ==
  /\ Calls(r, "delete_relation")
  /\ edge' = [edge EXCEPT ![On(r)] = NoEdge]
  /\ Return(r)
  /\ UNCHANGED <<node, mention, hidden, Bookkeeping>>

(* insert_entity_mention: ON CONFLICT (id) DO NOTHING.                     *)
AddMention(r) ==
  /\ Calls(r, "add_mention")
  /\ mention' = IF mention[On(r)] = NoMention
                  THEN [mention EXCEPT ![On(r)] = With(r)] ELSE mention
  /\ Return(r)
  /\ UNCHANGED <<node, edge, hidden, Bookkeeping>>

DeleteMention(r) ==
  /\ Calls(r, "delete_mention")
  /\ mention' = [mention EXCEPT ![On(r)] = NoMention]
  /\ Return(r)
  /\ UNCHANGED <<node, edge, hidden, Bookkeeping>>

UpdateMentionSpan(r) ==
  /\ Calls(r, "update_mention_span")
  /\ mention' = IF mention[On(r)] = NoMention
                  THEN mention ELSE [mention EXCEPT ![On(r)].span = With(r)]
  /\ Return(r)
  /\ UNCHANGED <<node, edge, hidden, Bookkeeping>>

DeleteMentionsOf(r) ==
  /\ Calls(r, "delete_mentions_for_entity")
  /\ mention' = [i \in MentionIds |->
                  IF i \in MentionsOf(On(r)) THEN NoMention ELSE mention[i]]
  /\ Return(r)
  /\ UNCHANGED <<node, edge, hidden, Bookkeeping>>

Reassigned(ids, e) ==
  [i \in MentionIds |->
    IF i \in ids /\ mention[i] # NoMention THEN [mention[i] EXCEPT !.entity = e]
    ELSE mention[i]]

(* reassign_mentions: the given rows, as far as they are there.            *)
ReassignMentions(r) ==
  /\ Calls(r, "reassign_mentions")
  /\ mention' = Reassigned(On(r), With(r))
  /\ Return(r)
  /\ UNCHANGED <<node, edge, hidden, Bookkeeping>>

(* repoint_mentions: whatever mentions the entity now; RETURNING the ids,  *)
(* which go into the row of the log.                                       *)
RepointMentions(r) ==
  LET moved == MentionsOf(On(r))
      Told(row) == IF row.op = "repoint_mentions"
                     THEN [row EXCEPT !.before = moved] ELSE row
      rows == [i \in DOMAIN req[r].rows |-> Told(req[r].rows[i])]
  IN  /\ Calls(r, "repoint_mentions")
      /\ mention' = Reassigned(moved, With(r))
      /\ ReturnRows(r, rows)
      /\ UNCHANGED <<node, edge, hidden, Bookkeeping>>

AddSuppression(r) ==
  /\ Calls(r, "add_suppression")
  /\ hidden' = hidden \cup {On(r)}
  /\ Return(r)
  /\ UNCHANGED <<node, edge, mention, Bookkeeping>>

DeleteSuppression(r) ==
  /\ Calls(r, "delete_suppression")
  /\ hidden' = hidden \ {On(r)}
  /\ Return(r)
  /\ UNCHANGED <<node, edge, mention, Bookkeeping>>

(* relabel_entity_type: one bulk SET, returning the ids, one row for each. *)
RelabelType(r) ==
  LET ids == {e \in Entities : Exists(e) /\ node[e].type = On(r)}
      rows == [i \in DOMAIN SetToSeq(ids) |->
                Row("edit_fields", SetToSeq(ids)[i],
                    [type |-> On(r)], [type |-> With(r)])]
  IN  /\ Calls(r, "relabel_entity_type")
      /\ node' = [e \in Entities |->
                   IF e \in ids THEN [node[e] EXCEPT !.type = With(r)] ELSE node[e]]
      /\ IF ids = {} THEN req' = [req EXCEPT ![r] = Idle] ELSE ReturnRows(r, rows)
      /\ UNCHANGED <<edge, mention, hidden, Bookkeeping>>

StoreCall(r) ==
  \/ CreateEntity(r) \/ UpdateEntity(r) \/ RestoreFields(r) \/ DeleteNode(r)
  \/ RelabelType(r) \/ CreateRelation(r) \/ DeleteRelation(r)
  \/ AddMention(r) \/ DeleteMention(r) \/ UpdateMentionSpan(r)
  \/ DeleteMentionsOf(r) \/ ReassignMentions(r) \/ RepointMentions(r)
  \/ AddSuppression(r) \/ DeleteSuppression(r)

-----------------------------------------------------------------------------
(* Operations *)

(* An operation starts: its store calls, the seed of its log id, its rows. *)
Begin(r, calls, seed, rows) ==
  /\ begun' = begun + 1
  /\ req' = [req EXCEPT ![r] = [kind |-> "edit", calls |-> calls, seed |-> seed,
                                rows |-> rows, op |-> NoOp, at |-> 0, before |-> Graph]]
  /\ UNCHANGED <<node, edge, mention, hidden, log, clock, failures, trail>>

(* A singleton row has an id of its own (uuid4), a grouped one a seed.     *)
Single == <<"single">>

Patches == {ask[3] : ask \in {x \in Asks : x[1] = "edit"}}

ASSUME PatchesAssumption == Patches \subseteq Fields

(* edit_entity: the whole next state is written, the changes are logged.   *)
EditEntity(r, e, patch) ==
  LET changed == {f \in DOMAIN patch : patch[f] # node[e][f]}
  IN  /\ <<"edit", e, patch>> \in Asks
      /\ Exists(e)
      /\ changed # {}
      /\ Begin(r, <<Call("update_entity", e, Over(patch, node[e]))>>, Single,
               <<Row("edit_fields", e, [f \in changed |-> node[e][f]],
                                       [f \in changed |-> patch[f]])>>)
      /\ UNCHANGED minted

(* add_relation: the row remembers whether the edge was there already.     *)
AddRelation(r, t) ==
  /\ <<"add", t>> \in Asks
  /\ Exists(t[1]) /\ Exists(t[3])
  /\ Begin(r, <<Call("create_relation", t, minted + 1)>>, Single,
           <<Row("add_relation", t, NoImage, HasEdge(t))>>)
  /\ minted' = minted + 1

RemoveRelation(r, t) ==
  /\ <<"remove", t>> \in Asks
  /\ HasEdge(t)
  /\ Begin(r, <<Call("delete_relation", t, NoImage)>>, Single,
           <<Row("remove_relation", t, edge[t], NoImage)>>)
  /\ UNCHANGED minted

(* plan_relation_rekey: onto a triple that is there, or onto a new one.    *)
RekeyRow(old, new) ==
  Row(IF HasEdge(new) THEN "fold_relation" ELSE "repoint_relation", old, edge[old], new)

(* The handle that rides along; a legacy edge is given one, the i-th.      *)
Handle(t, i) == IF edge[t] = Legacy THEN minted + i ELSE edge[t]

RekeyOldFirst(old, new, i) ==   \* mutant: the old edge goes first
  <<Call("delete_relation", old, NoImage), Call("create_relation", new, Handle(old, i))>>

(* The new edge before the old one goes.                                   *)
Rekey(old, new, i) ==
  <<Call("create_relation", new, Handle(old, i)), Call("delete_relation", old, NoImage)>>

RetargetRelation(r, old, new) ==
  /\ <<"retarget", old, new>> \in Asks
  /\ HasEdge(old)
  /\ Exists(new[1]) /\ Exists(new[3])
  /\ old # new
  /\ Begin(r, Rekey(old, new, 1), <<"retarget", old, new>>, <<RekeyRow(old, new)>>)
  /\ minted' = IF edge[old] = Legacy THEN minted + 1 ELSE minted

(* rename_predicate: every edge of the predicate, one after the other.     *)
RenamePredicate(r, p, q) ==
  LET bearing == SetToSeq({t \in Triples : HasEdge(t) /\ t[2] = p})
      Renamed(t) == <<t[1], q, t[3]>>
  IN  /\ <<"rename", p, q>> \in Asks
      /\ p # q
      /\ bearing # <<>>
      /\ Begin(r, FlattenSeq([i \in DOMAIN bearing |->
                                Rekey(bearing[i], Renamed(bearing[i]), i)]),
               <<"rename", p, q>>,
               [i \in DOMAIN bearing |-> RekeyRow(bearing[i], Renamed(bearing[i]))])
      /\ minted' = minted + Len(bearing)

RelabelEntityType(r, from, to) ==
  /\ <<"relabel", from, to>> \in Asks
  /\ from # to
  /\ Begin(r, <<Call("relabel_entity_type", from, to)>>, <<"relabel", from, to>>, <<>>)
  /\ UNCHANGED minted

(* plan_merge.  Two properties that differ need the author's choice.       *)
Conflict(a, b) ==
  /\ NoValue \notin {node[a].prop, node[b].prop}
  /\ node[a].prop # node[b].prop

ConsolidatedNameless(a, b, kept) ==   \* mutant: the absorbed name is not an alias
  [node[a] EXCEPT
    !.aliases = (@ \cup node[b].aliases) \ {node[a].name},
    !.prop = IF Conflict(a, b) THEN kept ELSE IF @ # NoValue THEN @ ELSE node[b].prop]

Consolidated(a, b, kept) ==
  [node[a] EXCEPT
    !.aliases = (@ \cup node[b].aliases \cup {node[b].name}) \ {node[a].name},
    !.prop = IF Conflict(a, b) THEN kept ELSE IF @ # NoValue THEN @ ELSE node[b].prop]

(* b's end of an edge becomes a's; an edge that becomes a loop is dropped. *)
Swapped(t, a, b) ==
  <<IF t[1] = b THEN a ELSE t[1], t[2], IF t[3] = b THEN a ELSE t[3]>>

IsLoop(t) == t[1] = t[3]

MergeStepRow(old, new) ==
  IF IsLoop(new) THEN Row("discard_self_loop_relation", old, edge[old], NoImage)
  ELSE RekeyRow(old, new)

(* Here the old edge goes first.                                           *)
MergeStepCalls(old, new) ==
  <<Call("delete_relation", old, NoImage)>>
    \o IF IsLoop(new) THEN <<>> ELSE <<Call("create_relation", new, edge[old])>>

Images(n) == [aliases |-> n.aliases, prop |-> n.prop]

(* merge_entities: survivor, edges, mentions, and the absorbed node last.  *)
MergeEntities(r, b, a, kept) ==
  LET incident == SetToSeq(Incident(b))
      survivor == Consolidated(a, b, kept)
  IN  /\ <<"merge", b, a>> \in Asks
      /\ a # b
      /\ Exists(b) /\ Exists(a)
      /\ kept # NoValue => Conflict(a, b)
      /\ Conflict(a, b) => kept # NoValue
      /\ Begin(r, <<Call("update_entity", a, survivor)>>
                    \o FlattenSeq([i \in DOMAIN incident |->
                         MergeStepCalls(incident[i], Swapped(incident[i], a, b))])
                    \o <<Call("repoint_mentions", b, a), Call("delete_entity", b, NoImage)>>,
               <<"merge", b, a>>,
               <<Row("merge_consolidate", a, Images(node[a]), Images(survivor))>>
                 \o [i \in DOMAIN incident |->
                      MergeStepRow(incident[i], Swapped(incident[i], a, b))]
                 \o <<Row("repoint_mentions", b, {}, NoImage),
                      Row("delete_absorbed", b, node[b], NoImage)>>)
      /\ UNCHANGED minted

DeleteEntityNodeFirst(r, e) ==   \* mutant: the node before its mentions
  /\ <<"delete", e>> \in Asks
  /\ Exists(e)
  /\ Begin(r, <<Call("delete_entity", e, NoImage),
                Call("delete_mentions_for_entity", e, NoImage)>>,
           <<"delete", e>>,
           <<Row("delete_mentions", e, Restrict(mention, MentionsOf(e)), NoImage),
             Row("delete_relations", e, Restrict(edge, Incident(e)), NoImage),
             Row("delete_entity", e, node[e], NoImage)>>)
  /\ UNCHANGED minted

(* delete_entity: snapshot, mentions, then the node with its edges.        *)
DeleteEntity(r, e) ==
  /\ <<"delete", e>> \in Asks
  /\ Exists(e)
  /\ Begin(r, <<Call("delete_mentions_for_entity", e, NoImage),
                Call("delete_entity", e, NoImage)>>,
           <<"delete", e>>,
           <<Row("delete_mentions", e, Restrict(mention, MentionsOf(e)), NoImage),
             Row("delete_relations", e, Restrict(edge, Incident(e)), NoImage),
             Row("delete_entity", e, node[e], NoImage)>>)
  /\ UNCHANGED minted

AddManual(e, s) == Call("add_mention", <<e, s>>, [entity |-> e, span |-> s])

TagExisting(r, e, s) ==
  /\ <<"tag", e, s>> \in Asks
  /\ Exists(e)
  /\ Begin(r, <<AddManual(e, s)>>, Single, <<Row("add_mention", <<e, s>>, NoImage, NoImage)>>)
  /\ UNCHANGED minted

(* tag_new_entity: the node, then its mention.  Nothing is read first.     *)
TagNewEntity(r, s, type) ==
  LET e == TagEntity[s]
      entity == [type |-> type, name |-> Named[s], aliases |-> {}, prop |-> NoValue]
  IN  /\ <<"tagnew", s, type>> \in Asks
      /\ Begin(r, <<Call("create_entity", e, entity), AddManual(e, s)>>,
               <<"tagnew", s>>,
               <<Row("create_entity_from_tag", e, NoImage, entity),
                 Row("add_mention", <<e, s>>, NoImage, NoImage)>>)
      /\ UNCHANGED minted

SuppressOccurrence(r, s, who) ==
  /\ <<"suppress", s, who>> \in Asks
  /\ who # Everyone => Exists(who)
  /\ Begin(r, <<Call("add_suppression", <<s, who>>, NoImage)>>, Single,
           <<Row("suppress_span", <<s, who>>, NoImage, NoImage)>>)
  /\ UNCHANGED minted

(* The log id of a re-tag does not depend on the entity it takes it from.  *)
RetagOccurrence(r, s, from, to) ==
  /\ <<"retag", s, from, to>> \in Asks
  /\ Exists(from) /\ Exists(to)
  /\ Begin(r, <<Call("add_suppression", <<s, from>>, NoImage), AddManual(to, s)>>,
           <<"retag", s, to>>,
           <<Row("suppress_span", <<s, from>>, NoImage, NoImage),
             Row("add_mention", <<to, s>>, NoImage, NoImage)>>)
  /\ UNCHANGED minted

(* change_boundaries of a stored mention: its offsets, in place.           *)
MoveBoundaries(r, id, s) ==
  /\ <<"move", id, s>> \in Asks
  /\ mention[id] # NoMention
  /\ Exists(mention[id].entity)
  /\ Begin(r, <<Call("update_mention_span", id, s)>>, Single,
           <<Row("edit_mention_span", id, mention[id].span, s)>>)
  /\ UNCHANGED minted

(* change_boundaries of a search hit: it becomes a stored mention, and the *)
(* hit is hidden.                                                          *)
MaterializeBoundaries(r, e, old, new) ==
  /\ <<"materialize", e, old, new>> \in Asks
  /\ Exists(e)
  /\ Begin(r, <<AddManual(e, new), Call("add_suppression", <<old, e>>, NoImage)>>,
           <<"materialize", old, e>>,
           <<Row("add_mention", <<e, new>>, NoImage, NoImage),
             Row("suppress_span", <<old, e>>, NoImage, NoImage)>>)
  /\ UNCHANGED minted

-----------------------------------------------------------------------------
(* The log *)

Live == {l \in log : ~l.undone}
RowsOf(op) == {l \in log : l.op = op}
IsUndone(op) == \E l \in RowsOf(op) : l.undone

Unused(seed) == {g \in 0 .. clock : ~IsUndone(<<seed, g>>)}

(* Mutant: the generation is never advanced.                               *)
FirstGeneration(seed) == 0

(* _next_generation: past every operation of this seed that was undone.    *)
NextGeneration(seed) == CHOOSE g \in Unused(seed) : \A h \in Unused(seed) : g <= h

(* All writes are made: the rows get their ids and their created_at.       *)
Stamp(r) ==
  /\ req[r].kind = "edit"
  /\ req[r].calls = <<>> /\ req[r].op = NoOp
  /\ LET seed == req[r].seed
         op == IF seed = Single THEN <<<<"single", clock>>, 0>>
               ELSE <<seed, NextGeneration(seed)>>
     IN  req' = [req EXCEPT ![r] = [@ EXCEPT !.op = op, !.at = clock + 1]]
  /\ clock' = clock + 1
  /\ UNCHANGED <<node, edge, mention, hidden, log, minted, begun, failures, trail>>

NewRows(r) ==
  {[op |-> req[r].op, seq |-> i, at |-> req[r].at, undone |-> FALSE, row |-> req[r].rows[i]] :
     i \in DOMAIN req[r].rows}

(* History: an operation can be taken back exactly if the log took all its *)
(* rows and what it says it made was not there before.                     *)
MadeNew(before, row) ==
  CASE row.op = "add_mention" -> before.mention[row.target] = NoMention
    [] row.op = "suppress_span" -> row.target \notin before.hidden
    [] row.op = "create_entity_from_tag" -> before.node[row.target] = NoNode
    [] OTHER -> TRUE

IsExact(r) ==
  /\ RowsOf(req[r].op) = {}
  /\ \A i \in DOMAIN req[r].rows : MadeNew(req[r].before, req[r].rows[i])

RecordOverwriting(r) ==   \* mutant: ON CONFLICT (id) DO UPDATE
  /\ req[r].kind = "edit" /\ req[r].op # NoOp
  /\ log' = (log \ RowsOf(req[r].op)) \cup NewRows(r)
  /\ trail' = IF IsExact(r) THEN Append(trail, [op |-> req[r].op, before |-> req[r].before])
              ELSE <<>>
  /\ req' = [req EXCEPT ![r] = Idle]
  /\ UNCHANGED <<node, edge, mention, hidden, minted, clock, begun, failures>>

(* record_edit, record_operation: ON CONFLICT (id) DO NOTHING, row by row. *)
Record(r) ==
  /\ req[r].kind = "edit" /\ req[r].op # NoOp
  /\ log' = log \cup {n \in NewRows(r) : \A l \in RowsOf(n.op) : l.seq # n.seq}
  /\ trail' = IF IsExact(r) THEN Append(trail, [op |-> req[r].op, before |-> req[r].before])
              ELSE <<>>
  /\ req' = [req EXCEPT ![r] = Idle]
  /\ UNCHANGED <<node, edge, mention, hidden, minted, clock, begun, failures>>

-----------------------------------------------------------------------------
(* Undo *)

(* latest_live_operation: by created_at; the live rows of that operation.  *)
Latest == (CHOOSE l \in Live : \A k \in Live : k.at <= l.at).op
LatestRows == {l \in Live : l.op = Latest}

(* What a row that is checked for drift expects of its entity.             *)
ChecksDrift(row) ==
  row.op \in {"edit_fields", "merge_consolidate", "create_entity_from_tag", "delete_entity"}

Matches(e, fields) == Exists(e) /\ \A f \in DOMAIN fields : node[e][f] = fields[f]

Holds(row) ==
  IF row.op = "delete_entity" THEN ~Exists(row.target) ELSE Matches(row.target, row.after)

(* invert_operation keeps one check: that of the row it comes to last.     *)
Drifted ==
  LET checked == {l \in LatestRows : ChecksDrift(l.row)}
  IN  \E l \in checked : (\A k \in checked : l.seq <= k.seq) /\ ~Holds(l.row)

(* A call for each thing in a snapshot, putting it back as it was.         *)
PutBack(do, snapshot) ==
  LET s == SetToSeq(DOMAIN snapshot) IN [i \in DOMAIN s |-> Call(do, s[i], snapshot[s[i]])]

(* The inverse store calls of one row.                                     *)
InverseOf(row) ==
  CASE row.op \in {"delete_absorbed", "delete_entity"} ->
         <<Call("create_entity", row.target, row.before)>>
    [] row.op = "delete_relations" -> PutBack("create_relation", row.before)
    [] row.op = "delete_mentions" -> PutBack("add_mention", row.before)
    [] row.op \in {"edit_fields", "merge_consolidate"} ->
         <<Call("restore_fields", row.target, row.before)>>
    [] row.op = "repoint_relation" ->
         <<Call("delete_relation", row.after, NoImage),
           Call("create_relation", row.target, row.before)>>
    [] row.op \in {"fold_relation", "discard_self_loop_relation", "remove_relation"} ->
         <<Call("create_relation", row.target, row.before)>>
    [] row.op = "add_relation" ->
         IF row.after THEN <<>> ELSE <<Call("delete_relation", row.target, NoImage)>>
    [] row.op = "repoint_mentions" ->
         <<Call("reassign_mentions", row.before, row.target)>>
    [] row.op = "add_mention" -> <<Call("delete_mention", row.target, NoImage)>>
    [] row.op = "create_entity_from_tag" -> <<Call("delete_entity", row.target, NoImage)>>
    [] row.op = "suppress_span" -> <<Call("delete_suppression", row.target, NoImage)>>
    [] row.op = "edit_mention_span" ->
         <<Call("update_mention_span", row.target, row.before)>>

(* sorted: the i-th has i - 1 before it.                                   *)
InOrder(S, Before(_, _)) ==
  [i \in 1 .. Cardinality(S) |-> CHOOSE x \in S : Cardinality({y \in S : Before(y, x)}) = i - 1]

(* The rows of an operation, the highest seq first.                        *)
HighestFirst(rows) == InOrder(rows, LAMBDA k, l : k.seq > l.seq)

(* Mutant: in the order in which the operation went.                       *)
InversePlanForward(rows) ==
  LET ordered == Reverse(HighestFirst(rows))
  IN  FlattenSeq([i \in DOMAIN ordered |-> InverseOf(ordered[i].row)])

(* invert_operation: row by row, highest seq first.                        *)
InversePlan(rows) ==
  LET ordered == HighestFirst(rows)
  IN  FlattenSeq([i \in DOMAIN ordered |-> InverseOf(ordered[i].row)])

(* undo_last: the top of the stack, unless the graph has drifted (409).    *)
UndoLast(r) ==
  /\ req[r] = Idle
  /\ Live # {}
  /\ ~Drifted
  /\ req' = [req EXCEPT ![r] = [kind |-> "undo", calls |-> InversePlan(LatestRows),
                                op |-> Latest]]
  /\ UNCHANGED <<node, edge, mention, hidden, log, minted, clock, begun, failures, trail>>

MarkUndoneHead(r) ==   \* mutant: only the row that the operation is named by
  /\ req[r].kind = "undo"
  /\ req[r].calls = <<>>
  /\ log' = {[l EXCEPT !.undone = @ \/ (l.op = req[r].op /\ l.seq = 1)] : l \in log}
  /\ trail' = IF trail # <<>> /\ Last(trail).op = req[r].op THEN Front(trail) ELSE <<>>
  /\ req' = [req EXCEPT ![r] = Idle]
  /\ UNCHANGED <<node, edge, mention, hidden, minted, clock, begun, failures>>

(* mark_operation_undone: every live row of the operation.                 *)
MarkUndone(r) ==
  /\ req[r].kind = "undo"
  /\ req[r].calls = <<>>
  /\ log' = {[l EXCEPT !.undone = @ \/ l.op = req[r].op] : l \in log}
  /\ trail' = IF trail # <<>> /\ Last(trail).op = req[r].op THEN Front(trail) ELSE <<>>
  /\ req' = [req EXCEPT ![r] = Idle]
  /\ UNCHANGED <<node, edge, mention, hidden, minted, clock, begun, failures>>

-----------------------------------------------------------------------------
(* A store failure (503) or the end of the process between two calls.      *)
Fail(r) ==
  /\ req[r] # Idle
  /\ failures[req[r].kind] < MaxFailures[req[r].kind]
  /\ failures' = [failures EXCEPT ![req[r].kind] = @ + 1]
  /\ req' = [req EXCEPT ![r] = Idle]
  /\ trail' = <<>>
  /\ UNCHANGED <<node, edge, mention, hidden, log, minted, clock, begun>>

Operation(r) ==
  /\ req[r] = Idle
  /\ begun < MaxEdits
  /\ \/ \E e \in Entities, patch \in Patches : EditEntity(r, e, patch)
     \/ \E t \in Triples : AddRelation(r, t) \/ RemoveRelation(r, t)
     \/ \E old, new \in Triples : RetargetRelation(r, old, new)
     \/ \E p, q \in Predicates : RenamePredicate(r, p, q)
     \/ \E from, to \in Types : RelabelEntityType(r, from, to)
     \/ \E b, a \in Entities, kept \in Values \cup {NoValue} : MergeEntities(r, b, a, kept)
     \/ \E e \in Entities : DeleteEntity(r, e)
     \/ \E e \in Entities, s \in Spans : TagExisting(r, e, s)
     \/ \E s \in Spans, type \in Types : TagNewEntity(r, s, type)
     \/ \E s \in Spans, who \in Entities \cup {Everyone} : SuppressOccurrence(r, s, who)
     \/ \E s \in Spans, from, to \in Entities : RetagOccurrence(r, s, from, to)
     \/ \E id \in MentionIds, s \in Spans : MoveBoundaries(r, id, s)
     \/ \E e \in Entities, old, new \in Spans : MaterializeBoundaries(r, e, old, new)

Next ==
  \E r \in Requests :
    Operation(r) \/ StoreCall(r) \/ Stamp(r) \/ Record(r)
      \/ UndoLast(r) \/ MarkUndone(r) \/ Fail(r)

Spec == Init /\ [][Next]_vars

-----------------------------------------------------------------------------
(* Safety *)

TypeOK ==
  /\ node \in [Entities -> Node \cup {NoNode}]
  /\ edge \in [Triples -> Handles \cup {NoEdge}]
  /\ mention \in [MentionIds -> Mention \cup {NoMention}]
  /\ hidden \subseteq Suppressions
  /\ \A t \in Triples : HasEdge(t) => Exists(t[1]) /\ Exists(t[3])
  /\ \A l \in log : l.at \in 1 .. clock /\ l.undone \in BOOLEAN
  /\ DOMAIN req = Requests
  /\ \A r \in Requests : req[r].kind \in {"idle", "edit", "undo"}
  /\ minted \in Nat /\ clock \in Nat /\ begun \in Nat
  /\ failures \in [{"edit", "undo"} -> Nat]

AtRest == \A r \in Requests : req[r] = Idle

(* Undo restores the graph: when the inverse calls of an operation have    *)
(* all been made, nodes, edges with their handles, mentions and            *)
(* suppressions are what they were when the operation began -- however     *)
(* many edges it folded, whatever was done and undone on top of it.        *)
UndoRestores ==
  \A r \in Requests :
    req[r].kind = "undo" /\ req[r].calls = <<>> /\ trail # <<>> =>
      req[r].op = Last(trail).op /\ Graph = Last(trail).before

(* The operation the author has just done is the one that undo takes, and  *)
(* the drift check does not refuse it.                                     *)
UndoTakesTheLatest ==
  AtRest /\ trail # <<>> => Live # {} /\ Latest = Last(trail).op /\ ~Drifted

(* Undo takes the operation just done, is not refused, and restores all.   *)
UndoIsExact == UndoRestores /\ UndoTakesTheLatest

(* Each operation begun so far has its evidence in the log, under an id of  *)
(* its own.                                                                *)
EveryOperationIsLogged == Cardinality({l.op : l \in log}) = begun

(* A handle names one edge, through all re-keying, folding, merging and    *)
(* undoing of them, as long as the log has the evidence of every operation *)
(* there was: what is not in the log is undone past, and the undo of what  *)
(* came before it may then give a handle back that has moved on.           *)
HandleNamesOneEdge ==
  AtRest /\ EveryOperationIsLogged => \A t, u \in Triples :
    HasEdge(t) /\ edge[t] = edge[u] /\ edge[t] # Legacy => t = u

(* An operation that is done again after it has been undone is logged      *)
(* again: its rows do not fall on those of the undone operation.           *)
RedoIsLogged ==
  [][\A r \in Requests :
       /\ Record(r)
       /\ \A l \in log : l.op[1] = req[r].op[1] => l.undone
       => NewRows(r) \subseteq log']_vars

(* The log is append-only: a row stays, and once undone stays undone.      *)
EvidenceIsKept ==
  [][\A l \in log : l \in log' \/ [l EXCEPT !.undone = TRUE] \in log']_vars

Dangling(i) == mention[i] # NoMention /\ ~Exists(mention[i].entity)

TakesBackTag(r) == req[r].kind = "undo" /\ req[r].op[1][1] = "tagnew"

(* A mention is never left naming an entity that is gone, at any point of  *)
(* any operation or undo, nor by one that dies half way; but for the undo  *)
(* of a tag, which deletes the entity it made and not what has come to     *)
(* name it since.                                                          *)
NoDanglingMention ==
  [][\A i \in MentionIds :
       Dangling(i)' => Dangling(i) \/ \E r \in Requests : TakesBackTag(r)]_vars

IsRekey(r) == req[r].kind = "edit" /\ req[r].seed[1] \in {"retarget", "rename"}

(* A re-key never loses an edge: at every point there is the old edge, or  *)
(* the new one with the handle of the old, or the one it was folded onto.  *)
RekeyNeverLoses ==
  \A r \in Requests : IsRekey(r) => \A i \in DOMAIN req[r].rows :
    LET row == req[r].rows[i]
    IN  \/ edge[row.target] = row.before
        \/ /\ HasEdge(row.after)
           /\ row.op = "repoint_relation" /\ row.before # Legacy =>
                edge[row.after] = row.before

-----------------------------------------------------------------------------
(* What the documentation says and the code does not do *)

(* "a crashed undo's retry is safe": an undo that died is not refused the  *)
(* next time, if no edit died.                                             *)
RetriedUndoProceeds ==
  AtRest /\ failures["edit"] = 0 /\ Live # {} => ~Drifted

(* "A re-undo of an already-undone operation can't recur": with two undo   *)
(* requests in flight the slower inverts what the faster has marked.       *)
InvertsWhatIsLive ==
  \A r \in Requests : req[r].kind = "undo" => \E l \in log : l.op = req[r].op /\ ~l.undone

(* "a crash anywhere up to the delete is cleanly retryable": a merge never *)
(* loses an edge it re-points.                                             *)
MergeNeverLoses ==
  \A r \in Requests : req[r].kind = "edit" /\ req[r].seed[1] = "merge" =>
    \A i \in DOMAIN req[r].rows :
      LET row == req[r].rows[i]
      IN  row.op \in {"repoint_relation", "fold_relation"} =>
            edge[row.target] = row.before \/ HasEdge(row.after)

(* "The grouped tag-new op removes its mention first, so this never        *)
(* orphans one": the undo of a tag leaves no mention of what it deletes.   *)
UndoneTagOrphansNothing == \A i \in MentionIds : ~Dangling(i)

(* "Every applied operation can reach undone" exactly: the log takes every *)
(* row of a finished operation.                                            *)
EvidenceIsTaken ==
  [][\A r \in Requests : Record(r) => NewRows(r) \subseteq log']_vars
=============================================================================

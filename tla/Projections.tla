----------------------------- MODULE Projections -----------------------------
(***************************************************************************)
(* What the screens compute from what they have read of the graph: the     *)
(* marks of the reader and the tooltips beside them, the graph of a story, *)
(* the neighbourhood of an entity, and the pairs of entities or labels     *)
(* that may be the same.  All of it is pure: g is what was read, a record  *)
(* with the fields of Graph that the screen asks for.                      *)
(***************************************************************************)
EXTENDS Integers, GraphEdit, FiniteSetsExt

CONSTANTS
  Extent,        \* of each span: its first place in the text and the one past its last
  Rank,          \* the order of ids, labels and names as strings
  Alike,         \* pairs of names or labels that score above the floor
  Near,          \* pairs of accepted mentions whose vectors are above the floor
  Elsewhere,     \* handles of the edges asserted in a paragraph of another story
  SummaryLimit   \* lines of a tooltip

Labels == Predicates \cup Types

ASSUME ProjectionsAssumption ==
  /\ Extent \in [Spans -> Nat \X Nat]
  /\ \A s \in Spans : Extent[s][1] < Extent[s][2]
  /\ \A s, t \in Spans : Extent[s] = Extent[t] => s = t
  /\ Rank \in [Entities \cup Labels \cup Names -> Nat]
  /\ \A x, y \in DOMAIN Rank : Rank[x] = Rank[y] => x = y
  /\ \A pair \in Alike : pair \subseteq Names \/ pair \subseteq Labels
  /\ \A pair \in Near : pair \subseteq Entities \X {NoSpan}
  /\ SummaryLimit \in Nat

Listed(g) == {e \in Entities : g.node[e] # NoNode}
Drawn(g) == {t \in Triples : g.edge[t] # NoEdge}
SurfaceForms(g, e) == {g.node[e].name} \cup g.node[e].aliases

-----------------------------------------------------------------------------
(* The reader's marks *)

(* Manual mentions carry their place, accepted ones are searched for.      *)
IsManual(id) == id[2] # NoSpan
Stored(g, manual) == {i \in MentionIds : g.mention[i] # NoMention /\ IsManual(i) = manual}

Searched(g) == {g.mention[i].entity : i \in Stored(g, FALSE)} \cap Listed(g)

(* _search_candidates: every span that says a name of a searched entity.   *)
SearchClaims(g) ==
  {[span |-> c[1], entity |-> c[2], manual |-> FALSE] :
     c \in {x \in Spans \X Searched(g) : Named[x[1]] \in SurfaceForms(g, x[2])}}

(* A tag of an entity that is gone is passed over.                         *)
ManualClaims(g) ==
  {[span |-> g.mention[i].span, entity |-> g.mention[i].entity, manual |-> TRUE] :
     i \in {j \in Stored(g, TRUE) : g.mention[j].entity \in Listed(g)}}

Claims(g) == SearchClaims(g) \cup ManualClaims(g)

Length(s) == Extent[s][2] - Extent[s][1]
Overlap(s, t) == Extent[s][1] < Extent[t][2] /\ Extent[t][1] < Extent[s][2]

(* Manual first, then longest, then leftmost, then by id.                  *)
Stronger(c, d) ==
  \/ c.manual /\ ~d.manual
  \/ /\ c.manual = d.manual
     /\ \/ Length(c.span) > Length(d.span)
        \/ /\ Length(c.span) = Length(d.span)
           /\ \/ Extent[c.span][1] < Extent[d.span][1]
              \/ /\ Extent[c.span][1] = Extent[d.span][1]
                 /\ Rank[c.entity] < Rank[d.entity]

(* _greedy_non_overlap: the strongest first, whoever overlaps it is out.   *)
NonOverlapping(claims) ==
  LET Keep(kept, c) == IF \E k \in kept : Overlap(k.span, c.span) THEN kept ELSE kept \cup {c}
  IN  FoldLeft(Keep, {}, InOrder(claims, Stronger))

Suppressed(g, c) == \E h \in g.hidden : h[1] = c.span /\ h[2] \in {Everyone, c.entity}

MarksHiddenFirst(g) ==   \* mutant: what is hidden does not take part in the arbitration
  NonOverlapping({c \in Claims(g) : ~Suppressed(g, c)})

(* reconcile_highlights: what is hidden is taken out after the arbitration.*)
Marks(g) == {c \in NonOverlapping(Claims(g)) : ~Suppressed(g, c)}

-----------------------------------------------------------------------------
(* The tooltips *)

(* summarise_relations: an edge to itself or to what has no name is left out. *)
Visible(g) == {t \in Drawn(g) : ~IsLoop(t) /\ {t[1], t[3]} \subseteq Listed(g)}

Joining(g, e, f) == {t \in Visible(g) : {t[1], t[3]} = {e, f}}
Neighbours(g, e) == {f \in Entities \ {e} : Joining(g, e, f) # {}}
Degree(g, e) == Cardinality(Neighbours(g, e))

(* One edge speaks for a neighbour: that of the first predicate.           *)
Predicate(g, e, f) ==
  (CHOOSE t \in Joining(g, e, f) : \A u \in Joining(g, e, f) : Rank[t[2]] <= Rank[u[2]])[2]

(* The best connected first, then by predicate, name and id.               *)
Prominent(g, e, f, h) ==
  LET Key(x) == <<Rank[Predicate(g, e, x)], Rank[g.node[x].name], Rank[x]>>
  IN  \/ Degree(g, f) > Degree(g, h)
      \/ /\ Degree(g, f) = Degree(g, h)
         /\ \E i \in 1 .. 3 : /\ Key(f)[i] < Key(h)[i]
                             /\ \A k \in 1 .. i - 1 : Key(f)[k] = Key(h)[k]

Summary(g, e) ==
  LET ordered == InOrder(Neighbours(g, e), LAMBDA f, h : Prominent(g, e, f, h))
  IN  [lines |-> SubSeq(ordered, 1, Min({Len(ordered), SummaryLimit})),
       overflow |-> Max({0, Len(ordered) - SummaryLimit})]

-----------------------------------------------------------------------------
(* The graph views *)

(* list_entity_ids_for_story: whoever is mentioned in the story.           *)
Members(g) == {g.mention[i].entity : i \in {j \in MentionIds : g.mention[j] # NoMention}}

(* filter_graph_to_story: both ends are members, and the edge was asserted *)
(* in the story or by hand.                                                *)
StoryGraph(g) ==
  [nodes |-> Listed(g) \cap Members(g),
   edges |-> {t \in Drawn(g) : {t[1], t[3]} \subseteq Members(g) /\ g.edge[t] \notin Elsewhere}]

(* build_ego_graph: the edges of one entity, loops left out.               *)
Ego(g, e) ==
  LET edges == {t \in Drawn(g) : e \in {t[1], t[3]} /\ ~IsLoop(t)}
  IN  [edges |-> edges, neighbours |-> (UNION {{t[1], t[3]} : t \in edges}) \ {e}]

-----------------------------------------------------------------------------
(* Pairs that may be the same *)

CanonicalPairAsGiven(x, y) == <<x, y>>   \* mutant: {a, b} and {b, a} differ

(* canonical_pair, canonical_label_pair                                    *)
CanonicalPair(x, y) == IF Rank[x] <= Rank[y] THEN <<x, y>> ELSE <<y, x>>

(* dismissal_pair_id, label_dismissal_id: a label pair is of one surface.  *)
PairId(surface, x, y) == <<surface, CanonicalPair(x, y)>>

(* suggest_duplicate_pairs: by any of their names, or by their mentions.   *)
VectorsOf(g, e) == {i \in Stored(g, FALSE) : g.mention[i].entity = e}
MayBeSame(g, x, y) ==
  \/ \E p \in SurfaceForms(g, x), q \in SurfaceForms(g, y) : p = q \/ {p, q} \in Alike
  \/ \E i \in VectorsOf(g, x), j \in VectorsOf(g, y) : {i, j} \in Near

Distinct(S) == {pair \in S \X S : pair[1] # pair[2]}

DuplicatePairs(g) ==
  {PairId("entity", pair[1], pair[2]) :
     pair \in {p \in Distinct(Listed(g)) : MayBeSame(g, p[1], p[2])}}

(* list_predicate_vocabulary, list_type_vocabulary                         *)
PredicatesUsed(g) == {t[2] : t \in Drawn(g)}
TypesUsed(g) == {g.node[e].type : e \in Listed(g)}

(* suggest_label_synonyms, once for each surface.                          *)
SynonymPairs(surface, labels) ==
  {PairId(surface, pair[1], pair[2]) : pair \in {p \in Distinct(labels) : {p[1], p[2]} \in Alike}}
=============================================================================

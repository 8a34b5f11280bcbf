---------------------------- MODULE Screens_proofs ----------------------------
(***************************************************************************)
(* What holds of the screens for any number of requests for a screen, of   *)
(* edits and of decisions, and for any vocabulary: a dismissed pair stays  *)
(* off the screens of suggestions, no label is encoded twice, the graph of *)
(* a story read between two edits is closed, and the reader's marks and    *)
(* tooltips are sound whatever edits went on between its reads.  The edits *)
(* beneath them are those of GraphEdit, whose invariant holds here as well.*)
(* With one request that edits, and as many that read as there may be, no  *)
(* mention of the two entities of a merge is unseen while it goes on or is *)
(* taken back: its calls are followed, and those that its rows in the log  *)
(* say take it back, for as long as it is on the stack.                    *)
(***************************************************************************)
EXTENDS Screens, GraphEditUndo_proofs

PairIds == {PairId(p[1], p[2], p[3]) : p \in Surfaces \X (DOMAIN Rank) \X (DOMAIN Rank)}

Progress == {"none", "unread", "waiting", "ready", "encoding", "failed"}

(* The labels a request has read are labels of the project.                *)
ReadsLabels(s) ==
  "vocabulary" \in DOMAIN s.seen =>
    s.seen["vocabulary"].predicate \subseteq Labels /\ s.seen["vocabulary"].type \subseteq Labels

(* The graph it has read is of its types, as far as it has read it.        *)
ReadsGraph(s) ==
  /\ "node" \in DOMAIN s.seen => s.seen["node"] \in [Entities -> Node \cup {NoNode}]
  /\ "edge" \in DOMAIN s.seen => s.seen["edge"] \in [Triples -> Handles \cup {NoEdge}]
  /\ "mention" \in DOMAIN s.seen =>
       s.seen["mention"] \in [MentionIds -> Mention \cup {NoMention}] /\ PlacesKept(s.seen["mention"])

(* A request for a screen: what it has read is among what it asks for, the *)
(* labels come before their vectors, and the dismissals that stood all     *)
(* along are in what it has read of them.                                  *)
IsLook(s) ==
  /\ s = [screen |-> s.screen, seen |-> s.seen, since |-> s.since, vectors |-> s.vectors,
          missing |-> s.missing]
  /\ s.screen \in {"reader", "story", "duplicates", "labels"}
  /\ DOMAIN s.seen \subseteq DOMAIN ReadsOf[s.screen]
  /\ s.vectors \in Progress
  /\ s.missing \subseteq Labels
  /\ ReadsLabels(s)
  /\ ReadsGraph(s)
  /\ s.vectors \in {"waiting", "ready", "encoding"} => "vocabulary" \in DOMAIN s.seen
  /\ s.since \subseteq PairIds
  /\ "dismissed" \in DOMAIN s.seen => s.since \subseteq s.seen["dismissed"]

Words(s) == s.seen["vocabulary"].predicate \cup s.seen["vocabulary"].type

LooksOK ==
  /\ look = [v \in Looks |-> look[v]]
  /\ \A v \in Looks : look[v] = Off \/ IsLook(look[v])

(* Until a request has read the dismissals, those that stood all along     *)
(* stand now.                                                              *)
Stands(s, ids) == "dismissed" \in DOMAIN s.seen \/ s.since \subseteq ids

DismissalsOK ==
  /\ dismissed \subseteq PairIds
  /\ \A v \in Looks : look[v] = Off \/ Stands(look[v], dismissed)

(* The one that holds the lock encodes what nobody has encoded, and no     *)
(* label of its own is left out; whoever is ready has all of its own.      *)
Encodes(s, done) ==
  /\ s.vectors = "encoding" => s.missing \cap done = {} /\ Words(s) \subseteq done \cup s.missing
  /\ s.vectors = "ready" => Words(s) \subseteq done

EncodingOK ==
  /\ embedded \subseteq Labels
  /\ encoding \in Looks \cup {Nobody}
  /\ encodings \in [Labels -> Nat]
  /\ \A l \in Labels : encodings[l] = IF l \in embedded THEN 1 ELSE 0
  /\ \A v \in Looks : look[v] = Off \/ Encodes(look[v], embedded)
  /\ \A v \in Looks : encoding = v <=> look[v] # Off /\ look[v].vectors = "encoding"

ScreensInv == LooksOK /\ DismissalsOK /\ EncodingOK

-----------------------------------------------------------------------------
(* Shapes *)

LEMMA LookIsNotOff ==
  ASSUME NEW s, IsLook(s) PROVE s # Off
BY DEF IsLook, Off

(* Nobody is asked for a screen of a name of its own.                      *)
LEMMA ScreenReads ==
  /\ DOMAIN ReadsOf = {"reader", "story", "duplicates", "labels"}
  /\ DOMAIN ReadsOf["reader"] = {"mention", "hidden", "node", "edge"}
  /\ DOMAIN ReadsOf["duplicates"] = {"node", "mention", "dismissed"}
  /\ DOMAIN ReadsOf["labels"] = {"vocabulary", "dismissed"}
<1>1. DOMAIN ReadsOf["reader"] = {"mention", "hidden", "node", "edge"}
  BY DEF ReadsOf, Chain
<1> QED
  BY <1>1 DEF ReadsOf

(* The order of ids and labels, and what is in it.                         *)
LEMMA Ranked ==
  /\ Rank \in [Entities \cup Labels \cup Names -> Nat]
  /\ \A x, y \in DOMAIN Rank : Rank[x] = Rank[y] => x = y
  /\ Labels \subseteq DOMAIN Rank /\ Entities \subseteq DOMAIN Rank
BY ProjectionsAssumption DEF ProjectionsAssumption

(* A pair id names its two members, in whatever order it was given them.   *)
LEMMA IdOfPair ==
  ASSUME NEW surface \in Surfaces, NEW x \in DOMAIN Rank, NEW y \in DOMAIN Rank
  PROVE  /\ PairId(surface, x, y) \in PairIds
         /\ PairId(surface, x, y)[1] = surface
         /\ PairId(surface, x, y)[2] \in (DOMAIN Rank) \X (DOMAIN Rank)
         /\ Range(PairId(surface, x, y)[2]) = {x, y}
<1>1. PairId(surface, x, y) \in PairIds
  <2>1. <<surface, x, y>> \in Surfaces \X (DOMAIN Rank) \X (DOMAIN Rank)
    OBVIOUS
  <2>2. \E p \in Surfaces \X (DOMAIN Rank) \X (DOMAIN Rank) :
          PairId(surface, x, y) = PairId(p[1], p[2], p[3])
    BY <2>1
  <2> QED
    BY <2>2 DEF PairIds
<1>2. PairId(surface, x, y)[1] = surface /\ PairId(surface, x, y)[2] = CanonicalPair(x, y)
  BY DEF PairId
<1>3. CanonicalPair(x, y) \in {<<x, y>>, <<y, x>>}
  BY DEF CanonicalPair
<1>4. CanonicalPair(x, y) \in (DOMAIN Rank) \X (DOMAIN Rank)
  BY <1>3
<1>5. Range(CanonicalPair(x, y)) = {x, y}
  BY <1>3 DEF Range
<1> QED
  BY <1>1, <1>2, <1>4, <1>5

(* And has no others: what an id was made of can be read off it.           *)
LEMMA PairHasMembers ==
  ASSUME NEW r \in PairIds
  PROVE  \E s \in Surfaces, x, y \in DOMAIN Rank :
           r = PairId(s, x, y) /\ r[1] = s /\ Range(r[2]) = {x, y}
<1>1. PICK s \in Surfaces, x \in DOMAIN Rank, y \in DOMAIN Rank : r = PairId(s, x, y)
  BY DEF PairIds
<1>2. r[1] = s /\ r[2] = CanonicalPair(x, y)
  BY <1>1 DEF PairId
<1>3. CanonicalPair(x, y) \in {<<x, y>>, <<y, x>>}
  BY DEF CanonicalPair
<1>4. Range(r[2]) = {x, y}
  BY <1>2, <1>3 DEF Range
<1> QED
  BY <1>1, <1>2, <1>4

(* Two members have one order, whichever way round they come.              *)
LEMMA MembersOrderOnce ==
  ASSUME NEW x \in DOMAIN Rank, NEW y \in DOMAIN Rank,
         NEW x2 \in DOMAIN Rank, NEW y2 \in DOMAIN Rank, {x, y} = {x2, y2}
  PROVE  CanonicalPair(x, y) = CanonicalPair(x2, y2)
<1>1. CASE x = x2 /\ y = y2
  BY <1>1
<1>2. CASE x = y2 /\ y = x2
  <2>1. Rank[x] \in Nat /\ Rank[y] \in Nat
    BY Ranked
  <2>2. Rank[x] = Rank[y] => x = y
    BY Ranked
  <2> QED
    BY <1>2, <2>1, <2>2 DEF CanonicalPair
<1> QED
  BY <1>1, <1>2

(* Two ids of one surface with the same members are the same id.           *)
LEMMA PairIsId ==
  ASSUME NEW p \in PairIds, NEW q \in PairIds,
         p[1] = q[1], Range(p[2]) = Range(q[2])
  PROVE  p = q
<1>1. PICK s \in Surfaces, x \in DOMAIN Rank, y \in DOMAIN Rank :
        p = PairId(s, x, y) /\ p[1] = s /\ Range(p[2]) = {x, y}
  BY PairHasMembers
<1>2. PICK s2 \in Surfaces, x2 \in DOMAIN Rank, y2 \in DOMAIN Rank :
        q = PairId(s2, x2, y2) /\ q[1] = s2 /\ Range(q[2]) = {x2, y2}
  BY PairHasMembers
<1>3. s = s2 /\ {x, y} = {x2, y2}
  BY <1>1, <1>2
<1>4. CanonicalPair(x, y) = CanonicalPair(x2, y2)
  BY <1>3, MembersOrderOnce
<1> QED
  BY <1>1, <1>2, <1>3, <1>4 DEF PairId

(* What the two vocabularies say is what the committed graph uses.         *)
LEMMA StoresRead ==
  ASSUME GraphTyped
  PROVE  /\ Stores["vocabulary"].predicate \subseteq Labels
         /\ Stores["vocabulary"].type \subseteq Labels
         /\ Stores["dismissed"] = dismissed
         /\ Stores["node"] = node /\ Stores["edge"] = edge /\ Stores["mention"] = mention
<1>1. PredicatesUsed(Graph) \subseteq Predicates
  BY DEF PredicatesUsed, Drawn, Triples
<1>2. TypesUsed(Graph) \subseteq Types
  BY DEF TypesUsed, Listed, Graph, GraphTyped, Node
<1> QED
  BY <1>1, <1>2 DEF Stores, Labels

-----------------------------------------------------------------------------
(* What the reader computes *)

(* What the greedy pass over the claims of s at the places T may keep: a   *)
(* claim is kept exactly if no claim before it that is kept overlaps it.   *)
Greedy(s, T, kept) ==
  /\ kept \subseteq {s[i] : i \in T}
  /\ \A i \in T : s[i] \in kept <=>
       \A j \in T : j < i /\ s[j] \in kept => ~Overlap(s[j].span, s[i].span)

Grown(s, kept, i) ==
  IF \E k \in kept : Overlap(k.span, s[i].span) THEN kept ELSE kept \cup {s[i]}

Grows(s, keeps) ==
  keeps = [T \in SUBSET DOMAIN s |->
             IF T = {} THEN {} ELSE Grown(s, keeps[T \ {Max(T)}], Max(T))]

Held(s) == (CHOOSE keeps : Grows(s, keeps))[DOMAIN s]

(* The fold of the arbitration, named step by step.                        *)
LEMMA NonOverlappingIs ==
  ASSUME NEW claims
  PROVE  NonOverlapping(claims) = Held(InOrder(claims, Stronger))
BY DEF NonOverlapping, FoldLeft, MapThenFoldSet, Held, Grows, Grown

(* At most one greedy choice exists: the least index they differ at is     *)
(* decided alike by both.                                                  *)
LEMMA OneGreedy ==
  ASSUME NEW s, NEW T \in SUBSET Nat, NEW k, NEW l, Greedy(s, T, k), Greedy(s, T, l)
  PROVE  k = l
<1> DEFINE Bad == {i \in T : ~(s[i] \in k <=> s[i] \in l)}
<1>1. Bad = {}
  <2> SUFFICES ASSUME Bad # {} PROVE FALSE
    OBVIOUS
  <2>1. PICK i \in Bad : \A j \in Bad : i <= j
    <3>1. Bad \subseteq Nat
      OBVIOUS
    <3> HIDE DEF Bad
    <3> QED
      BY <3>1, LeastNat
  <2>2. \A j \in T : j < i => (s[j] \in k <=> s[j] \in l)
    BY <2>1
  <2> QED
    BY <2>1, <2>2 DEF Greedy
<1> QED
  BY <1>1 DEF Greedy

(* The largest index of a set of them.                                     *)
LEMMA TopOf ==
  ASSUME NEW n \in Nat, NEW T \in SUBSET (1 .. n), T # {}
  PROVE  Max(T) \in T /\ \A i \in T : i <= Max(T)
<1> DEFINE Back == {n - i : i \in T}
<1>1. Back \subseteq Nat /\ Back # {}
  <2>1. \A i \in T : i \in 1 .. n /\ n - i \in Nat
    OBVIOUS
  <2> QED
    BY <2>1
<1>2. PICK m \in Back : \A k \in Back : m <= k
  BY <1>1, LeastNat
<1>3. \E x \in T : \A y \in T : x >= y
  <2>1. PICK x \in T : m = n - x
    OBVIOUS
  <2>2. \A y \in T : n - y \in Back
    OBVIOUS
  <2> HIDE DEF Back
  <2>3. \A y \in T : x >= y
    BY <1>2, <2>1, <2>2
  <2> QED
    BY <2>3
<1>4. Max(T) \in T /\ \A y \in T : Max(T) >= y
  BY <1>3 DEF Max
<1> QED
  BY <1>4

(* A greedy choice among the indices below the last, then the last one.    *)
LEMMA GreedyGrows ==
  ASSUME NEW C, NEW n \in Nat, NEW s \in [1 .. n -> C], \A i, j \in 1 .. n : s[i] = s[j] => i = j,
         NEW T \in SUBSET (1 .. n), T # {},
         NEW k, Greedy(s, T \ {Max(T)}, k)
  PROVE  Greedy(s, T, Grown(s, k, Max(T)))
<1> DEFINE m == Max(T)
           l == Grown(s, k, m)
<1>1. m \in T /\ \A i \in T : i <= m
  BY TopOf
<1> HIDE DEF m
<1>2. s[m] \notin k
  BY <1>1 DEF Greedy, m
<1>3. k \subseteq l /\ l \subseteq k \cup {s[m]}
  BY DEF Grown
<1>4. \A i \in T \ {m} : s[i] \in l <=> s[i] \in k
  BY <1>1, <1>3
<1>5. s[m] \in l <=> \A x \in k : ~Overlap(x.span, s[m].span)
  BY <1>2 DEF Grown
<1>6. k \subseteq {s[i] : i \in T \ {m}}
  BY DEF Greedy, m
<1>7. \A i \in T \ {m} : s[i] \in k <=>
        \A j \in T \ {m} : j < i /\ s[j] \in k => ~Overlap(s[j].span, s[i].span)
  BY DEF Greedy, m
<1>8. l \subseteq {s[i] : i \in T}
  BY <1>1, <1>3, <1>6
<1>9. ASSUME NEW i \in T
      PROVE  s[i] \in l <=>
               \A j \in T : j < i /\ s[j] \in l => ~Overlap(s[j].span, s[i].span)
  <2>1. CASE i = m
    <3>1. \A x \in k : \E j \in T : j < m /\ s[j] = x /\ s[j] \in l
      <4> SUFFICES ASSUME NEW x \in k PROVE \E j \in T : j < m /\ s[j] = x /\ s[j] \in l
        OBVIOUS
      <4>1. PICK j \in T \ {m} : s[j] = x
        BY <1>6
      <4> QED
        BY <1>1, <1>3, <4>1
    <3>2. \A j \in T : j < m /\ s[j] \in l => s[j] \in k
      BY <1>1, <1>4
    <3> HIDE DEF l
    <3> QED
      BY <1>5, <2>1, <3>1, <3>2
  <2>2. CASE i # m
    <3>1. \A j \in T : j < i => j \in T \ {m}
      BY <1>1
    <3> HIDE DEF l
    <3> QED
      BY <1>4, <1>7, <2>2, <3>1
  <2> QED
    BY <2>1, <2>2
<1> HIDE DEF l
<1>10. Greedy(s, T, l)
  BY <1>8, <1>9 DEF Greedy
<1> QED
  BY <1>10 DEF l, m

(* A greedy choice exists for every set of indices, by the smallest set    *)
(* without one.                                                            *)
LEMMA GreedyExists ==
  ASSUME NEW C, NEW n \in Nat, NEW s \in [1 .. n -> C], \A i, j \in 1 .. n : s[i] = s[j] => i = j
  PROVE  \A T \in SUBSET (1 .. n) : \E k : Greedy(s, T, k)
<1> DEFINE Bad == {c \in Nat : \E T \in SUBSET (1 .. n) : Cardinality(T) = c /\ ~\E k : Greedy(s, T, k)}
<1>1. \A T \in SUBSET (1 .. n) : IsFiniteSet(T) /\ Cardinality(T) \in Nat
  <2>1. IsFiniteSet(1 .. n)
    BY FS_Interval
  <2> QED
    BY <2>1, FS_Subset, FS_CardinalityType
<1>2. Bad = {}
  <2> SUFFICES ASSUME Bad # {} PROVE FALSE
    OBVIOUS
  <2>1. PICK c \in Bad : \A d \in Bad : c <= d
    <3>1. Bad \subseteq Nat
      OBVIOUS
    <3> HIDE DEF Bad
    <3> QED
      BY <3>1, LeastNat
  <2>2. PICK T \in SUBSET (1 .. n) : Cardinality(T) = c /\ ~\E k : Greedy(s, T, k)
    BY <2>1
  <2>3. T # {}
    <3>1. Greedy(s, {}, {})
      BY DEF Greedy
    <3> HIDE DEF Bad
    <3> QED
      BY <2>2, <3>1, SMTT(30)
  <2>4. Max(T) \in T
    BY <2>3, TopOf
  <2>5. T \ {Max(T)} \in SUBSET (1 .. n) /\ Cardinality(T \ {Max(T)}) = c - 1
        /\ Cardinality(T \ {Max(T)}) \in Nat
    <3> HIDE DEF Bad
    <3>1. Cardinality(T \ {Max(T)}) = Cardinality(T) - 1
      BY <1>1, <2>4, FS_RemoveElement
    <3> QED
      BY <1>1, <2>2, <3>1
  <2>6. \E k : Greedy(s, T \ {Max(T)}, k)
    <3>1. c - 1 \notin Bad
      <4>1. c \in Nat
        BY <2>1
      <4> HIDE DEF Bad
      <4> QED
        BY <2>1, <4>1
    <3> QED
      BY <2>5, <3>1
  <2> HIDE DEF Bad
  <2>7. PICK k : Greedy(s, T \ {Max(T)}, k)
    BY <2>6
  <2>8. Greedy(s, T, Grown(s, k, Max(T)))
    BY <2>3, <2>7, GreedyGrows
  <2> QED
    BY <2>2, <2>8
<1> QED
  BY <1>1, <1>2

(* The fold makes that choice.                                             *)
LEMMA HeldIsGreedy ==
  ASSUME NEW C, NEW n \in Nat, NEW s \in [1 .. n -> C], \A i, j \in 1 .. n : s[i] = s[j] => i = j
  PROVE  Greedy(s, 1 .. n, Held(s))
<1> DEFINE keeps == CHOOSE f : Grows(s, f)
           Good(T) == CHOOSE k : Greedy(s, T, k)
           f == [T \in SUBSET (1 .. n) |-> Good(T)]
<1>1. DOMAIN s = 1 .. n
  OBVIOUS
<1>2. \A T \in SUBSET (1 .. n) : Greedy(s, T, Good(T))
  BY GreedyExists
<1> HIDE DEF Good
<1>3. Grows(s, f)
  <2>1. ASSUME NEW T \in SUBSET (1 .. n)
        PROVE  f[T] = IF T = {} THEN {} ELSE Grown(s, f[T \ {Max(T)}], Max(T))
    <3>1. CASE T = {}
      <4>1. Greedy(s, {}, {})
        BY DEF Greedy
      <4>2. Greedy(s, {}, f[T])
        BY <1>2, <3>1
      <4> HIDE DEF f
      <4> QED
        BY <3>1, <4>1, <4>2, OneGreedy
    <3>2. CASE T # {}
      <4> DEFINE k == f[T \ {Max(T)}]
      <4>1. Greedy(s, T \ {Max(T)}, k)
        BY <1>2
      <4>2. Greedy(s, T, f[T])
        BY <1>2
      <4> HIDE DEF f
      <4>3. Greedy(s, T, Grown(s, k, Max(T)))
        BY <3>2, <4>1, GreedyGrows
      <4>4. T \in SUBSET Nat
        OBVIOUS
      <4> QED
        BY <3>2, <4>2, <4>3, <4>4, OneGreedy
    <3> QED
      BY <3>1, <3>2
  <2>2. f = [T \in SUBSET (1 .. n) |-> f[T]]
    OBVIOUS
  <2> HIDE DEF f
  <2>3. f = [T \in SUBSET (1 .. n) |-> IF T = {} THEN {} ELSE Grown(s, f[T \ {Max(T)}], Max(T))]
    BY <2>1, <2>2
  <2> QED
    BY <1>1, <2>3 DEF Grows
<1>4. Grows(s, keeps)
  BY <1>3
<1> HIDE DEF keeps
<1>5. \A T \in SUBSET (1 .. n) :
        keeps[T] = IF T = {} THEN {} ELSE Grown(s, keeps[T \ {Max(T)}], Max(T))
  BY <1>1, <1>4 DEF Grows
<1> DEFINE Bad == {c \in Nat : \E T \in SUBSET (1 .. n) : Cardinality(T) = c /\ ~Greedy(s, T, keeps[T])}
<1>6. \A T \in SUBSET (1 .. n) : IsFiniteSet(T) /\ Cardinality(T) \in Nat
  <2>1. IsFiniteSet(1 .. n)
    BY FS_Interval
  <2> QED
    BY <2>1, FS_Subset, FS_CardinalityType
<1>7. Bad = {}
  <2> SUFFICES ASSUME Bad # {} PROVE FALSE
    OBVIOUS
  <2>1. PICK c \in Bad : \A d \in Bad : c <= d
    <3>1. Bad \subseteq Nat
      OBVIOUS
    <3> HIDE DEF Bad
    <3> QED
      BY <3>1, LeastNat
  <2>2. PICK T \in SUBSET (1 .. n) : Cardinality(T) = c /\ ~Greedy(s, T, keeps[T])
    BY <2>1
  <2>3. T # {}
    <3>1. Greedy(s, {}, {})
      BY DEF Greedy
    <3>2. keeps[{}] = {}
      BY <1>5
    <3> QED
      BY <2>2, <3>1, <3>2
  <2>4. Max(T) \in T
    BY <2>3, TopOf
  <2>5. T \ {Max(T)} \in SUBSET (1 .. n) /\ Cardinality(T \ {Max(T)}) = c - 1
        /\ Cardinality(T \ {Max(T)}) \in Nat
    <3> HIDE DEF Bad
    <3>1. Cardinality(T \ {Max(T)}) = Cardinality(T) - 1
      BY <1>6, <2>4, FS_RemoveElement
    <3> QED
      BY <1>6, <2>2, <3>1
  <2>6. Greedy(s, T \ {Max(T)}, keeps[T \ {Max(T)}])
    <3>1. c - 1 \notin Bad
      <4>1. c \in Nat
        BY <2>1
      <4> HIDE DEF Bad
      <4> QED
        BY <2>1, <4>1
    <3> QED
      BY <2>5, <3>1
  <2> HIDE DEF Bad
  <2>7. Greedy(s, T, Grown(s, keeps[T \ {Max(T)}], Max(T)))
    BY <2>3, <2>6, GreedyGrows
  <2>8. keeps[T] = Grown(s, keeps[T \ {Max(T)}], Max(T))
    BY <1>5, <2>3
  <2> QED
    BY <2>2, <2>7, <2>8
<1>8. Greedy(s, 1 .. n, keeps[1 .. n])
  BY <1>6, <1>7
<1> QED
  BY <1>1, <1>8 DEF Held, keeps

Claim == [span : Spans, entity : Entities, manual : BOOLEAN]

(* A graph as the reader reads it: of its types, and a manual mention has  *)
(* its place in the text.                                                  *)
Readable(g) ==
  /\ g.node \in [Entities -> Node \cup {NoNode}]
  /\ g.edge \in [Triples -> Handles \cup {NoEdge}]
  /\ g.mention \in [MentionIds -> Mention \cup {NoMention}]
  /\ \A i \in MentionIds : g.mention[i] # NoMention /\ IsManual(i) => g.mention[i].span \in Spans

(* A span starts before it ends, and its offsets tell it from the others.  *)
LEMMA ExtentIs ==
  /\ \A s \in Spans : Extent[s][1] \in Nat /\ Extent[s][2] \in Nat /\ Extent[s][1] < Extent[s][2]
  /\ \A s, t \in Spans : Extent[s][1] = Extent[t][1] /\ Extent[s][2] = Extent[t][2] => s = t
<1>1. \A s \in Spans : Extent[s] = <<Extent[s][1], Extent[s][2]>> /\ Extent[s][1] \in Nat /\ Extent[s][2] \in Nat
  BY ProjectionsAssumption DEF ProjectionsAssumption
<1> QED
  BY <1>1, ProjectionsAssumption DEF ProjectionsAssumption

(* The fields of a claim.                                                  *)
LEMMA ClaimIs ==
  ASSUME NEW c \in Claim
  PROVE  /\ c.span \in Spans /\ c.entity \in Entities /\ c.manual \in BOOLEAN
         /\ c = [span |-> c.span, entity |-> c.entity, manual |-> c.manual]
         /\ Rank[c.entity] \in Nat
<1>1. c.span \in Spans /\ c.entity \in Entities /\ c.manual \in BOOLEAN
  BY DEF Claim
<1>2. c = [span |-> c.span, entity |-> c.entity, manual |-> c.manual]
  BY DEF Claim
<1>3. Rank[c.entity] \in Nat
  BY <1>1, Ranked
<1> QED
  BY <1>1, <1>2, <1>3

(* Spans and entities are finitely many, so the claims are.                *)
LEMMA ClaimsAreFinite ==
  ASSUME NEW C \in SUBSET Claim
  PROVE  IsFiniteSet(C)
<1> DEFINE D == (Spans \X Entities) \X BOOLEAN
           f == [d \in D |-> [span |-> d[1][1], entity |-> d[1][2], manual |-> d[2]]]
<1>1. IsFiniteSet(D)
  <2>1. IsFiniteSet(Spans) /\ IsFiniteSet(Entities)
    BY ConstantsAssumption DEF ConstantsAssumption
  <2>2. IsFiniteSet(Spans \X Entities)
    BY <2>1, FS_Product
  <2>3. IsFiniteSet(BOOLEAN)
    <3>1. IsFiniteSet({} \cup {TRUE})
      BY FS_EmptySet, FS_AddElement
    <3>2. IsFiniteSet(({} \cup {TRUE}) \cup {FALSE})
      BY <3>1, FS_AddElement
    <3>3. BOOLEAN = ({} \cup {TRUE}) \cup {FALSE}
      OBVIOUS
    <3> QED
      BY <3>2, <3>3
  <2> QED
    BY <2>2, <2>3, FS_Product
<1>2. f \in Surjection(D, Claim)
  <2>1. f \in [D -> Claim]
    BY DEF Claim
  <2>2. ASSUME NEW c \in Claim PROVE \E d \in D : f[d] = c
    <3> DEFINE d == <<<<c.span, c.entity>>, c.manual>>
    <3>1. d \in D
      BY ClaimIs
    <3>2. f[d] = [span |-> c.span, entity |-> c.entity, manual |-> c.manual]
      BY <3>1
    <3>3. f[d] = c
      BY <3>2, ClaimIs
    <3> HIDE DEF d
    <3> QED
      BY <3>1, <3>3
  <2> HIDE DEF f, D
  <2> QED
    BY <2>1, <2>2 DEF Surjection
<1>3. IsFiniteSet(Claim)
  BY <1>1, <1>2, FS_Surjection
<1> QED
  BY <1>3, FS_Subset

(* What the reader collects from the graph and the text are claims.        *)
LEMMA ClaimsAreClaims ==
  ASSUME NEW g, Readable(g)
  PROVE  Claims(g) \in SUBSET Claim /\ IsFiniteSet(Claims(g))
<1>1. SearchClaims(g) \subseteq Claim
  <2> SUFFICES ASSUME NEW x \in SearchClaims(g) PROVE x \in Claim
    OBVIOUS
  <2>1. PICK c \in Spans \X Searched(g) : x = [span |-> c[1], entity |-> c[2], manual |-> FALSE]
    BY DEF SearchClaims
  <2>2. c[1] \in Spans /\ c[2] \in Entities
    BY DEF Searched, Listed
  <2> QED
    BY <2>1, <2>2 DEF Claim
<1>2. ManualClaims(g) \subseteq Claim
  <2> SUFFICES ASSUME NEW x \in ManualClaims(g) PROVE x \in Claim
    OBVIOUS
  <2>1. PICK i \in Stored(g, TRUE) : g.mention[i].entity \in Listed(g) /\
          x = [span |-> g.mention[i].span, entity |-> g.mention[i].entity, manual |-> TRUE]
    BY DEF ManualClaims
  <2>2. g.mention[i].span \in Spans /\ g.mention[i].entity \in Entities
    BY <2>1 DEF Stored, Readable, Listed
  <2> QED
    BY <2>1, <2>2 DEF Claim
<1> QED
  BY <1>1, <1>2, ClaimsAreFinite DEF Claims

(* The sort key of the arbitration puts any two claims in order.           *)
LEMMA StrongerIsAnOrder ==
  ASSUME NEW c \in Claim, NEW d \in Claim, NEW e \in Claim
  PROVE  /\ ~Stronger(c, c)
         /\ c = d \/ Stronger(c, d) \/ Stronger(d, c)
         /\ Stronger(c, d) /\ Stronger(d, e) => Stronger(c, e)
<1> DEFINE Start(x) == Extent[x.span][1]
           Size(x) == Length(x.span)
           Id(x) == Rank[x.entity]
<1>1. ASSUME NEW x \in Claim
      PROVE  /\ Start(x) \in Int /\ Size(x) \in Int /\ Id(x) \in Int /\ x.manual \in BOOLEAN
  BY ClaimIs, ExtentIs DEF Length
<1>2. Size(c) = Size(d) /\ Start(c) = Start(d) => c.span = d.span
  <2>1. c.span \in Spans /\ d.span \in Spans
    BY ClaimIs
  <2>2. Extent[c.span][1] \in Nat /\ Extent[c.span][2] \in Nat
        /\ Extent[d.span][1] \in Nat /\ Extent[d.span][2] \in Nat
    BY <2>1, ExtentIs
  <2> QED
    BY <2>1, <2>2, ExtentIs DEF Length
<1>3. Id(c) = Id(d) => c.entity = d.entity
  BY ClaimIs, Ranked
<1>4. c.manual = d.manual /\ c.span = d.span /\ c.entity = d.entity => c = d
  BY ClaimIs
<1>5. \A x, y : Stronger(x, y) <=>
        \/ x.manual /\ ~y.manual
        \/ /\ x.manual = y.manual
           /\ \/ Size(x) > Size(y)
              \/ /\ Size(x) = Size(y)
                 /\ Start(x) < Start(y) \/ (Start(x) = Start(y) /\ Id(x) < Id(y))
  BY DEF Stronger
<1>6. /\ Start(c) \in Int /\ Size(c) \in Int /\ Id(c) \in Int /\ c.manual \in BOOLEAN
      /\ Start(d) \in Int /\ Size(d) \in Int /\ Id(d) \in Int /\ d.manual \in BOOLEAN
      /\ Start(e) \in Int /\ Size(e) \in Int /\ Id(e) \in Int /\ e.manual \in BOOLEAN
  BY <1>1
<1> HIDE DEF Start, Size, Id
<1>7. ~Stronger(c, c)
  BY <1>5, <1>6
<1>8. c = d \/ Stronger(c, d) \/ Stronger(d, c)
  BY <1>2, <1>3, <1>4, <1>5, <1>6
<1>9. Stronger(c, d) /\ Stronger(d, e) => Stronger(c, e)
  BY <1>5, <1>6
<1> QED
  BY <1>7, <1>8, <1>9

(* The arbitration keeps claims apart, and drops one only for a stronger   *)
(* that overlaps it.                                                       *)
LEMMA KeptClaims ==
  ASSUME NEW C \in SUBSET Claim
  PROVE  LET K == NonOverlapping(C)
         IN  /\ K \subseteq C
             /\ \A c, d \in K : c = d \/ ~Overlap(c.span, d.span)
             /\ \A c \in C \ K : \E d \in K : Stronger(d, c) /\ Overlap(c.span, d.span)
<1> DEFINE n == Cardinality(C)
           R == {p \in C \X C : Stronger(p[1], p[2])}
           s == InOrderOf(R, C)
           K == NonOverlapping(C)
<1>1. Orders(R, C)
  <2>1. \A x, y \in C : <<x, y>> \in R <=> Stronger(x, y)
    OBVIOUS
  <2> HIDE DEF R
  <2> QED
    BY <2>1, StrongerIsAnOrder DEF Orders
<1>2. \A x, y : <<x, y>> \in R => Stronger(x, y)
  OBVIOUS
<1>3. InOrder(C, Stronger) = s
  <2>1. \A x \in C : {y \in C : Stronger(y, x)} = {y \in C : <<y, x>> \in R}
    OBVIOUS
  <2>2. InOrder(C, Stronger) = [i \in 1 .. n |-> CHOOSE x \in C : Cardinality({y \in C : Stronger(y, x)}) = i - 1]
    BY DEF InOrder
  <2> HIDE DEF R
  <2>3. s = [i \in 1 .. n |-> CHOOSE x \in C : Cardinality({y \in C : <<y, x>> \in R}) = i - 1]
    BY DEF InOrderOf, InOrder
  <2> HIDE DEF s, n
  <2> QED
    BY <2>1, <2>2, <2>3
<1> HIDE DEF s, R
<1>4. /\ n \in Nat /\ s \in [1 .. n -> C]
      /\ \A i, j \in 1 .. n : i < j <=> <<s[i], s[j]>> \in R
      /\ \A i, j \in 1 .. n : s[i] = s[j] => i = j
      /\ \A x \in C : \E i \in 1 .. n : s[i] = x
  BY <1>1, ClaimsAreFinite, InOrderIs DEF s
<1> HIDE DEF n
<1>5. K = Held(s)
  BY <1>3, NonOverlappingIs
<1> HIDE DEF K
<1>6. Greedy(s, 1 .. n, K)
  BY <1>4, <1>5, HeldIsGreedy
<1>7. K \subseteq C
  BY <1>4, <1>6 DEF Greedy
<1>8. \A x, y \in C : Overlap(x.span, y.span) <=> Overlap(y.span, x.span)
  BY DEF Overlap
<1>9. ASSUME NEW c \in K, NEW d \in K PROVE c = d \/ ~Overlap(c.span, d.span)
  <2>1. PICK i \in 1 .. n, j \in 1 .. n : s[i] = c /\ s[j] = d
    BY <1>4, <1>7
  <2>2. i < j => ~Overlap(c.span, d.span)
    BY <1>6, <2>1 DEF Greedy
  <2>3. j < i => ~Overlap(d.span, c.span)
    BY <1>6, <2>1 DEF Greedy
  <2> QED
    BY <1>4, <1>7, <1>8, <2>1, <2>2, <2>3
<1>10. ASSUME NEW c \in C \ K PROVE \E d \in K : Stronger(d, c) /\ Overlap(c.span, d.span)
  <2>1. PICK i \in 1 .. n : s[i] = c
    BY <1>4
  <2>2. PICK j \in 1 .. n : j < i /\ s[j] \in K /\ Overlap(s[j].span, c.span)
    BY <1>6, <2>1 DEF Greedy
  <2>3. Stronger(s[j], c)
    BY <1>2, <1>4, <2>1, <2>2
  <2> QED
    BY <1>7, <1>8, <2>2, <2>3
<1> QED
  BY <1>7, <1>9, <1>10 DEF K

(* The marks of a page are such a choice, with a claim made by hand never  *)
(* dropped for a found one.                                                *)
LEMMA MarksAreArbitrated ==
  ASSUME NEW g, Readable(g)
  PROVE  \E holders \in SUBSET Claims(g) : Arbitrated(g, holders)
<1> DEFINE C == Claims(g)
           K == NonOverlapping(C)
<1>1. C \in SUBSET Claim
  BY ClaimsAreClaims
<1>2. /\ K \subseteq C
      /\ \A c, d \in K : c = d \/ ~Overlap(c.span, d.span)
      /\ \A c \in C \ K : \E d \in K : Stronger(d, c) /\ Overlap(c.span, d.span)
  BY <1>1, KeptClaims
<1>3. \A c, d \in C : Stronger(d, c) =>
        /\ d.manual \/ ~c.manual
        /\ d.manual = c.manual => Length(d.span) >= Length(c.span)
  <2> SUFFICES ASSUME NEW c \in C, NEW d \in C, Stronger(d, c)
               PROVE  /\ d.manual \/ ~c.manual
                      /\ d.manual = c.manual => Length(d.span) >= Length(c.span)
    OBVIOUS
  <2>1. c \in Claim /\ d \in Claim
    BY <1>1
  <2>2. c.manual \in BOOLEAN /\ d.manual \in BOOLEAN /\ c.span \in Spans /\ d.span \in Spans
    BY <2>1, ClaimIs
  <2>3. Length(c.span) \in Int /\ Length(d.span) \in Int
    BY <2>2, ExtentIs DEF Length
  <2> QED
    BY <2>2, <2>3 DEF Stronger
<1>4. Marks(g) = {c \in K : \A h \in g.hidden : h[1] = c.span => h[2] \notin {Everyone, c.entity}}
  BY DEF Marks, Suppressed
<1> HIDE DEF C, K
<1>5. Arbitrated(g, K)
  BY <1>2, <1>3, <1>4 DEF Arbitrated, C
<1> QED
  BY <1>2, <1>5 DEF C

(* The neighbours of an entity are finitely many entities of the page.     *)
LEMMA NeighbourIs ==
  ASSUME NEW g, Readable(g), NEW e \in Entities
  PROVE  /\ IsFiniteSet(Neighbours(g, e)) /\ Neighbours(g, e) \subseteq Entities \cap Listed(g)
         /\ Degree(g, e) \in Nat
<1>1. IsFiniteSet(Entities)
  BY ConstantsAssumption DEF ConstantsAssumption
<1>2. \A f \in Neighbours(g, e) : f \in Entities /\ f \in Listed(g)
  BY DEF Neighbours, Joining, Visible
<1>3. Neighbours(g, e) \in SUBSET Entities
  BY <1>2
<1>4. IsFiniteSet(Neighbours(g, e))
  BY <1>1, <1>3, FS_Subset
<1> QED
  BY <1>2, <1>4, FS_CardinalityType DEF Degree

(* What a neighbour is sorted by are numbers.                              *)
LEMMA KeyIs ==
  ASSUME NEW g, Readable(g), NEW e \in Entities, NEW f \in Neighbours(g, e)
  PROVE  /\ Rank[Predicate(g, e, f)] \in Nat /\ Rank[g.node[f].name] \in Nat /\ Rank[f] \in Nat
         /\ Degree(g, f) \in Nat
<1>1. f \in Entities /\ g.node[f] \in Node
  BY NeighbourIs DEF Listed, Readable
<1>2. g.node[f].name \in Names
  BY <1>1 DEF Node
<1>3. Rank[g.node[f].name] \in Nat /\ Rank[f] \in Nat /\ \A p \in Predicates : Rank[p] \in Nat
  BY <1>1, <1>2, ProjectionsAssumption DEF ProjectionsAssumption, Labels
<1> DEFINE J == Joining(g, e, f)
<1>4. J # {} /\ \A t \in J : t[2] \in Predicates
  <2>1. J # {}
    BY DEF Neighbours
  <2>2. \A t \in J : t \in Triples
    BY DEF Joining, Visible, Drawn
  <2> HIDE DEF J
  <2> QED
    BY <2>1, <2>2 DEF Triples
<1> HIDE DEF J
<1>5. \E t \in J : \A u \in J : Rank[t[2]] <= Rank[u[2]]
  <2> DEFINE K == {Rank[t[2]] : t \in J}
  <2>1. K \subseteq Nat /\ K # {}
    BY <1>3, <1>4
  <2>2. PICK k \in K : \A l \in K : k <= l
    BY <2>1, LeastNat
  <2> QED
    BY <2>2
<1>6. Predicate(g, e, f) = (CHOOSE t \in J : \A u \in J : Rank[t[2]] <= Rank[u[2]])[2]
  BY DEF Predicate, J
<1>7. Predicate(g, e, f) \in Predicates
  <2> DEFINE first == CHOOSE t \in J : \A u \in J : Rank[t[2]] <= Rank[u[2]]
  <2>1. first \in J
    BY <1>5
  <2> HIDE DEF first
  <2>2. first[2] \in Predicates
    BY <1>4, <2>1
  <2> QED
    BY <1>6, <2>2 DEF first
<1> QED
  BY <1>1, <1>3, <1>7, NeighbourIs

(* The order of the neighbours, as one comparison after another.           *)
LEMMA ProminentIs ==
  ASSUME NEW g, NEW e, NEW f, NEW h
  PROVE  LET P(x) == Rank[Predicate(g, e, x)]
             N(x) == Rank[g.node[x].name]
         IN  Prominent(g, e, f, h) <=>
               \/ Degree(g, f) > Degree(g, h)
               \/ /\ Degree(g, f) = Degree(g, h)
                  /\ \/ P(f) < P(h)
                     \/ P(f) = P(h) /\ N(f) < N(h)
                     \/ P(f) = P(h) /\ N(f) = N(h) /\ Rank[f] < Rank[h]
<1> DEFINE P(x) == Rank[Predicate(g, e, x)]
           N(x) == Rank[g.node[x].name]
           Key(x) == <<P(x), N(x), Rank[x]>>
           Sooner(i) == Key(f)[i] < Key(h)[i] /\ \A k \in 1 .. i - 1 : Key(f)[k] = Key(h)[k]
<1>1. Prominent(g, e, f, h) <=>
        \/ Degree(g, f) > Degree(g, h)
        \/ Degree(g, f) = Degree(g, h) /\ \E i \in 1 .. 3 : Sooner(i)
  BY DEF Prominent
<1>2. \A x : Key(x)[1] = P(x) /\ Key(x)[2] = N(x) /\ Key(x)[3] = Rank[x]
  OBVIOUS
<1> HIDE DEF Key
<1>3. 1 .. 3 = {1, 2, 3} /\ 1 .. 1 - 1 = {} /\ 1 .. 2 - 1 = {1} /\ 1 .. 3 - 1 = {1, 2}
  OBVIOUS
<1>4. Sooner(1) <=> P(f) < P(h)
  BY <1>2, <1>3
<1>5. Sooner(2) <=> P(f) = P(h) /\ N(f) < N(h)
  BY <1>2, <1>3
<1>6. Sooner(3) <=> P(f) = P(h) /\ N(f) = N(h) /\ Rank[f] < Rank[h]
  BY <1>2, <1>3
<1> HIDE DEF Sooner
<1>7. (\E i \in 1 .. 3 : Sooner(i)) <=> Sooner(1) \/ Sooner(2) \/ Sooner(3)
  BY <1>3
<1> QED
  BY <1>1, <1>4, <1>5, <1>6, <1>7

(* It puts any two neighbours in order, and the better connected first.    *)
LEMMA ProminentIsAnOrder ==
  ASSUME NEW g, Readable(g), NEW e \in Entities,
         NEW f \in Neighbours(g, e), NEW h \in Neighbours(g, e), NEW k \in Neighbours(g, e)
  PROVE  /\ ~Prominent(g, e, f, f)
         /\ f = h \/ Prominent(g, e, f, h) \/ Prominent(g, e, h, f)
         /\ Prominent(g, e, f, h) /\ Prominent(g, e, h, k) => Prominent(g, e, f, k)
         /\ Prominent(g, e, f, h) => Degree(g, f) >= Degree(g, h)
<1> DEFINE D(x) == Degree(g, x)
           P(x) == Rank[Predicate(g, e, x)]
           N(x) == Rank[g.node[x].name]
           I(x) == Rank[x]
<1>1. \A x \in Neighbours(g, e) : D(x) \in Nat /\ P(x) \in Nat /\ N(x) \in Nat /\ I(x) \in Nat
  BY KeyIs
<1>2. \A x, y : Prominent(g, e, x, y) <=>
         \/ D(x) > D(y)
         \/ /\ D(x) = D(y)
            /\ \/ P(x) < P(y)
               \/ P(x) = P(y) /\ N(x) < N(y)
               \/ P(x) = P(y) /\ N(x) = N(y) /\ I(x) < I(y)
  BY ProminentIs
<1>3. \A x, y \in Neighbours(g, e) : I(x) = I(y) => x = y
  <2>1. Neighbours(g, e) \subseteq DOMAIN Rank
    BY NeighbourIs, Ranked
  <2> QED
    BY <2>1, Ranked
<1> HIDE DEF D, P, N, I
<1>4. /\ D(f) \in Nat /\ P(f) \in Nat /\ N(f) \in Nat /\ I(f) \in Nat
      /\ D(h) \in Nat /\ P(h) \in Nat /\ N(h) \in Nat /\ I(h) \in Nat
      /\ D(k) \in Nat /\ P(k) \in Nat /\ N(k) \in Nat /\ I(k) \in Nat
      /\ I(f) = I(h) => f = h
  BY <1>1, <1>3
<1>5. ~Prominent(g, e, f, f)
  BY <1>2, <1>4
<1>6. f = h \/ Prominent(g, e, f, h) \/ Prominent(g, e, h, f)
  BY <1>2, <1>4
<1>7. Prominent(g, e, f, h) /\ Prominent(g, e, h, k) => Prominent(g, e, f, k)
  BY <1>2, <1>4
<1>8. Prominent(g, e, f, h) => D(f) >= D(h)
  BY <1>2, <1>4
<1> QED
  BY <1>5, <1>6, <1>7, <1>8 DEF D

(* s has the neighbours of e, each once, the most prominent first; its     *)
(* first k are the lines of the tooltip.                                   *)
IsSummary(g, e, n, k, s) ==
  /\ n \in Nat /\ k \in Nat /\ k <= n
  /\ n = Cardinality(Neighbours(g, e))
  /\ s \in [1 .. n -> Neighbours(g, e)]
  /\ \A i, j \in 1 .. n : i < j => Prominent(g, e, s[i], s[j])
  /\ \A i, j \in 1 .. n : s[i] = s[j] => i = j
  /\ \A x \in Neighbours(g, e) : \E i \in 1 .. n : s[i] = x
  /\ Summary(g, e).lines = [i \in 1 .. k |-> s[i]]
  /\ Summary(g, e).overflow = n - k

(* A tooltip says the first lines, and how many there are beyond them.     *)
LEMMA SummaryIs ==
  ASSUME NEW g, Readable(g), NEW e \in Entities
  PROVE  \E n, k, s : IsSummary(g, e, n, k, s)
<1> DEFINE C == Neighbours(g, e)
           n == Cardinality(C)
           R == {p \in C \X C : Prominent(g, e, p[1], p[2])}
           s == InOrderOf(R, C)
           k == IF n <= SummaryLimit THEN n ELSE SummaryLimit
           ordered == InOrder(C, LAMBDA f, h : Prominent(g, e, f, h))
<1>1. Orders(R, C)
  <2>1. \A x, y \in C : <<x, y>> \in R <=> Prominent(g, e, x, y)
    OBVIOUS
  <2> HIDE DEF R
  <2> QED
    BY <2>1, ProminentIsAnOrder DEF Orders
<1>2. \A x, y : <<x, y>> \in R => Prominent(g, e, x, y)
  OBVIOUS
<1>3. ordered = s
  <2> DEFINE Ahead(x) == {y \in C : Prominent(g, e, y, x)}
             Before(x) == {y \in C : <<y, x>> \in R}
  <2>1. \A x \in C : Ahead(x) = Before(x)
    OBVIOUS
  <2>2. ordered = [i \in 1 .. n |-> CHOOSE x \in C : Cardinality(Ahead(x)) = i - 1]
    BY DEF InOrder
  <2> HIDE DEF R
  <2>3. s = [i \in 1 .. n |-> CHOOSE x \in C : Cardinality(Before(x)) = i - 1]
    BY DEF InOrderOf, InOrder
  <2> HIDE DEF s, n, ordered, Ahead, Before, C
  <2> QED
    BY <2>1, <2>2, <2>3
<1>4. Summary(g, e) = [lines |-> SubSeq(ordered, 1, Min({Len(ordered), SummaryLimit})),
                       overflow |-> Max({0, Len(ordered) - SummaryLimit})]
  BY DEF Summary
<1> HIDE DEF s, R, ordered
<1>5. /\ n \in Nat /\ s \in [1 .. n -> C] /\ s \in Seq(C) /\ Len(s) = n
      /\ \A i, j \in 1 .. n : i < j <=> <<s[i], s[j]>> \in R
      /\ \A i, j \in 1 .. n : s[i] = s[j] => i = j
      /\ \A x \in C : \E i \in 1 .. n : s[i] = x
  BY <1>1, NeighbourIs, InOrderIs DEF s
<1> HIDE DEF n
<1>6. SummaryLimit \in Nat
  BY ProjectionsAssumption DEF ProjectionsAssumption
<1>7. Min({n, SummaryLimit}) = k
  BY <1>5, <1>6 DEF Min
<1>8. Max({0, n - SummaryLimit}) = n - k
  BY <1>5, <1>6 DEF Max
<1>9. k \in Nat /\ k <= n
  BY <1>5, <1>6
<1> HIDE DEF k
<1>10. Summary(g, e).lines = SubSeq(s, 1, k) /\ Summary(g, e).overflow = n - k
  <2>1. Len(ordered) = n
    BY <1>3, <1>5
  <2>2. Summary(g, e) = [lines |-> SubSeq(s, 1, k), overflow |-> n - k]
    BY <1>3, <1>4, <1>7, <1>8, <2>1
  <2>3. \A x, y : [lines |-> x, overflow |-> y].lines = x /\ [lines |-> x, overflow |-> y].overflow = y
    OBVIOUS
  <2> QED
    BY <2>2, <2>3, Zenon
<1>11. SubSeq(s, 1, k) = [i \in 1 .. k |-> s[i]]
  BY <1>5, <1>9
<1>12. \A i, j \in 1 .. n : i < j => Prominent(g, e, s[i], s[j])
  BY <1>2, <1>5
<1> HIDE DEF C
<1>13. IsSummary(g, e, n, k, s)
  BY <1>5, <1>9, <1>10, <1>11, <1>12 DEF n, C, IsSummary
<1> QED
  BY <1>13

(* A tooltip shows the best connected neighbours and counts the rest.      *)
LEMMA Whole ==
  ASSUME NEW g, Readable(g), NEW e \in Listed(g)
  PROVE  TooltipIsWhole(g, e)
<1> DEFINE C == Neighbours(g, e)
           lines == Summary(g, e).lines
           shown == {lines[i] : i \in DOMAIN lines}
<1>1. e \in Entities
  BY DEF Listed
<1>2. PICK n, k, s : IsSummary(g, e, n, k, s)
  BY <1>1, SummaryIs
<1>3. /\ n \in Nat /\ k \in Nat /\ k <= n /\ n = Cardinality(C) /\ s \in [1 .. n -> C]
      /\ \A i, j \in 1 .. n : i < j => Prominent(g, e, s[i], s[j])
      /\ \A i, j \in 1 .. n : s[i] = s[j] => i = j
      /\ \A x \in C : \E i \in 1 .. n : s[i] = x
      /\ lines = [i \in 1 .. k |-> s[i]]
      /\ Summary(g, e).overflow = n - k
  BY <1>2 DEF IsSummary
<1> HIDE DEF lines, C
<1>4. \A i \in 1 .. k : i \in 1 .. n /\ lines[i] = s[i]
  BY <1>3
<1>5. DOMAIN lines = 1 .. k
  BY <1>3
<1>6. shown \subseteq C
  BY <1>3, <1>4, <1>5
<1>7. Cardinality(shown) = k
  <2>1. lines \in [1 .. k -> shown]
    BY <1>3, <1>5
  <2>2. \A i, j \in 1 .. k : lines[i] = lines[j] => i = j
    BY <1>3, <1>4
  <2>3. \A x \in shown : \E i \in 1 .. k : lines[i] = x
    BY <1>5
  <2> HIDE DEF shown
  <2>4. lines \in Bijection(1 .. k, shown)
    BY <2>1, <2>2, <2>3 DEF Bijection, Injection, Surjection, IsInjective
  <2>5. IsFiniteSet(1 .. k) /\ Cardinality(1 .. k) = k
    BY <1>3, FS_Interval
  <2> QED
    BY <2>4, <2>5, FS_Bijection DEF ExistsBijection
<1>8. ASSUME NEW f \in shown, NEW h \in C \ shown PROVE Degree(g, f) >= Degree(g, h)
  <2>1. PICK i \in 1 .. k : s[i] = f
    BY <1>4, <1>5
  <2>2. PICK j \in 1 .. n : s[j] = h
    BY <1>3
  <2>3. ~(j <= k)
    BY <1>4, <1>5, <2>2
  <2>4. Prominent(g, e, f, h)
    BY <1>3, <1>4, <2>1, <2>2, <2>3
  <2>5. f \in C /\ h \in C
    BY <1>6
  <2> QED
    BY <1>1, <2>4, <2>5, ProminentIsAnOrder DEF C
<1>9. C = Ego(g, e).neighbours \cap Listed(g)
  <2>3. \A f : f \in Ego(g, e).neighbours <=>
          f # e /\ \E t \in Drawn(g) : e \in {t[1], t[3]} /\ ~IsLoop(t) /\ f \in {t[1], t[3]}
    <3> DEFINE edges == {t \in Drawn(g) : e \in {t[1], t[3]} /\ ~IsLoop(t)}
               met == UNION {{t[1], t[3]} : t \in edges}
               ends == met \ {e}
    <3>0. Ego(g, e) = [edges |-> edges, neighbours |-> ends]
      BY DEF Ego
    <3>1. Ego(g, e).neighbours = ends
      <4> HIDE DEF ends, edges
      <4> QED
        BY <3>0
    <3> HIDE DEF edges
    <3>2. \A f : f \in met <=> \E t \in edges : f \in {t[1], t[3]}
      OBVIOUS
    <3> HIDE DEF met
    <3>3. \A f : f \in ends <=> f # e /\ \E t \in edges : f \in {t[1], t[3]}
      BY <3>2
    <3> HIDE DEF ends
    <3> QED
      BY <3>1, <3>3 DEF edges
  <2>1. ASSUME NEW f \in C PROVE f \in Ego(g, e).neighbours /\ f \in Listed(g)
    <3>1. f # e /\ \E t \in Visible(g) : {t[1], t[3]} = {e, f}
      BY DEF C, Neighbours, Joining
    <3>2. PICK t \in Visible(g) : {t[1], t[3]} = {e, f}
      BY <3>1
    <3>3. t \in Drawn(g) /\ e \in {t[1], t[3]} /\ ~IsLoop(t) /\ f \in {t[1], t[3]} /\ f \in Listed(g)
      BY <3>2 DEF Visible
    <3> QED
      BY <2>3, <3>1, <3>3
  <2>2. ASSUME NEW f \in Ego(g, e).neighbours, f \in Listed(g) PROVE f \in C
    <3>1. PICK t \in Drawn(g) : e \in {t[1], t[3]} /\ ~IsLoop(t) /\ f \in {t[1], t[3]} /\ f # e
      BY <2>3, <2>2
    <3>2. {t[1], t[3]} = {e, f}
      BY <3>1
    <3>3. t \in Visible(g)
      BY <2>2, <3>1, <3>2 DEF Visible
    <3> QED
      BY <2>2, <3>1, <3>2, <3>3 DEF C, Neighbours, Joining, Listed
  <2> QED
    BY <2>1, <2>2
<1>10. Cardinality(shown) + Summary(g, e).overflow = Cardinality(C)
  BY <1>3, <1>7
<1> QED
  BY <1>6, <1>8, <1>9, <1>10 DEF TooltipIsWhole, C, lines

(* Only an entity of the page is marked.                                   *)
LEMMA MarkedIsListed ==
  ASSUME NEW g, NEW c \in Claims(g)
  PROVE  c.entity \in Listed(g)
<1>1. CASE c \in SearchClaims(g)
  <2>1. PICK x \in Spans \X Searched(g) : c = [span |-> x[1], entity |-> x[2], manual |-> FALSE]
    BY <1>1 DEF SearchClaims
  <2>2. x[2] \in Listed(g)
    BY DEF Searched
  <2> QED
    BY <2>1, <2>2
<1>2. CASE c \in ManualClaims(g)
  <2>1. PICK i \in Stored(g, TRUE) : g.mention[i].entity \in Listed(g) /\
          c = [span |-> g.mention[i].span, entity |-> g.mention[i].entity, manual |-> TRUE]
    BY <1>2 DEF ManualClaims
  <2> QED
    BY <2>1
<1> QED
  BY <1>1, <1>2 DEF Claims

(* So the reader tells the truth of any graph of the right types.          *)
LEMMA ReadableIsSound ==
  ASSUME NEW g, Readable(g)
  PROVE  /\ \E holders \in SUBSET Claims(g) : Arbitrated(g, holders)
         /\ \A e \in {c.entity : c \in Marks(g)} : TooltipIsWhole(g, e)
<1>1. PICK holders \in SUBSET Claims(g) : Arbitrated(g, holders)
  BY MarksAreArbitrated
<1>2. \A c \in Marks(g) : c.entity \in Listed(g)
  BY <1>1, MarkedIsListed DEF Arbitrated
<1> QED
  BY <1>1, <1>2, Whole

-----------------------------------------------------------------------------
(* Steps of the requests *)

(* One request moves on: the others are as they were.                      *)
LEMMA LookMoves ==
  ASSUME ScreensInv, NEW v \in Looks, NEW s, IsLook(s),
         look' = [look EXCEPT ![v] = s],
         dismissed' = dismissed,
         Stands(s, dismissed)
  PROVE  /\ LooksOK' /\ DismissalsOK'
         /\ look'[v] = s /\ \A w \in Looks \ {v} : look'[w] = look[w]
<1>1. look'[v] = s /\ \A w \in Looks \ {v} : look'[w] = look[w]
  BY DEF ScreensInv, LooksOK
<1>2. look' = [w \in Looks |-> look'[w]]
  BY DEF ScreensInv, LooksOK
<1>3. \A w \in Looks : look'[w] = Off \/ IsLook(look'[w])
  BY <1>1 DEF ScreensInv, LooksOK
<1>4. \A w \in Looks : look'[w] = Off \/ Stands(look'[w], dismissed)
  BY <1>1 DEF ScreensInv, DismissalsOK
<1> QED
  BY <1>1, <1>2, <1>3, <1>4 DEF LooksOK, DismissalsOK, ScreensInv

(* A request that encodes nothing moves on without the lock.               *)
LEMMA WithoutTheLock ==
  ASSUME ScreensInv, NEW v \in Looks, NEW s, IsLook(s),
         look' = [look EXCEPT ![v] = s],
         UNCHANGED <<dismissed, embedded, encoding, encodings>>,
         Stands(s, dismissed),
         Encodes(s, embedded),
         encoding = v <=> s.vectors = "encoding"
  PROVE  ScreensInv'
<1>1. /\ LooksOK' /\ DismissalsOK'
      /\ look'[v] = s /\ \A w \in Looks \ {v} : look'[w] = look[w]
  BY LookMoves
<1>2. s # Off
  BY LookIsNotOff
<1>3. \A w \in Looks : look'[w] = Off \/ Encodes(look'[w], embedded)
  BY <1>1 DEF ScreensInv, EncodingOK
<1>4. \A w \in Looks : encoding = w <=> look'[w] # Off /\ look'[w].vectors = "encoding"
  BY <1>1, <1>2 DEF ScreensInv, EncodingOK
<1>5. EncodingOK'
  BY <1>3, <1>4 DEF ScreensInv, EncodingOK
<1> QED
  BY <1>1, <1>5 DEF ScreensInv

(* A request that opens has read nothing.                                  *)
LEMMA OpenStep ==
  ASSUME ScreensInv, NEW v \in Looks, NEW screen \in DOMAIN ReadsOf, Open(v, screen)
  PROVE  ScreensInv'
<1> DEFINE s == [screen |-> screen, seen |-> <<>>, since |-> dismissed,
                 vectors |-> IF screen = "labels" THEN "unread" ELSE "none",
                 missing |-> {}]
<1>1. IsLook(s)
  <2>1. DOMAIN s.seen = {}
    OBVIOUS
  <2>2. screen \in {"reader", "story", "duplicates", "labels"}
    BY ScreenReads
  <2>3. s.since \subseteq PairIds
    BY DEF ScreensInv, DismissalsOK
  <2> QED
    BY <2>1, <2>2, <2>3 DEF IsLook, Progress, ReadsLabels, ReadsGraph
<1>2. Stands(s, dismissed) /\ Encodes(s, embedded)
  BY DEF Stands, Encodes
<1>3. s.vectors # "encoding"
  OBVIOUS
<1>4. encoding # v
  BY DEF ScreensInv, EncodingOK, Open
<1>5. look' = [look EXCEPT ![v] = s]
  BY DEF Open
<1>6. UNCHANGED <<dismissed, embedded, encoding, encodings>>
  BY DEF Open
<1> HIDE DEF s
<1> QED
  BY <1>1, <1>2, <1>3, <1>4, <1>5, <1>6, WithoutTheLock

(* A read adds one store to what a request has seen.                       *)
LEMMA ReadStep ==
  ASSUME ScreensInv, GraphTyped, NEW v \in Looks, NEW store, Read(v, store)
  PROVE  ScreensInv'
<1> DEFINE old == look[v]
           told == [x \in Seen(v) \cup {store} |-> IF x = store THEN Stores[x] ELSE look[v].seen[x]]
           s == [screen |-> old.screen, seen |-> told, since |-> old.since,
                 vectors |-> old.vectors, missing |-> old.missing]
<1>1. IsLook(old) /\ Stands(old, dismissed) /\ Encodes(old, embedded)
      /\ (encoding = v <=> old.vectors = "encoding")
  BY DEF ScreensInv, LooksOK, DismissalsOK, EncodingOK, Read
<1>2. DOMAIN told = DOMAIN old.seen \cup {store} /\ store \in DOMAIN ReadsOf[old.screen]
      /\ store \notin DOMAIN old.seen
  BY DEF Read, Seen
<1>3. \A x \in DOMAIN old.seen : told[x] = old.seen[x]
  BY <1>2 DEF Seen
<1>4. told[store] = Stores[store]
  OBVIOUS
<1>5. /\ s.screen = old.screen /\ s.seen = told /\ s.since = old.since
      /\ s.vectors = old.vectors /\ s.missing = old.missing
  OBVIOUS
<1>6. s = [screen |-> s.screen, seen |-> s.seen, since |-> s.since, vectors |-> s.vectors,
           missing |-> s.missing]
  OBVIOUS
<1>7. look' = [look EXCEPT ![v] = s]
  <2>1. look' = [look EXCEPT ![v].seen = told]
    BY DEF Read
  <2>2. old = [screen |-> old.screen, seen |-> old.seen, since |-> old.since,
               vectors |-> old.vectors, missing |-> old.missing]
    BY <1>1 DEF IsLook
  <2> HIDE DEF told
  <2>3. [old EXCEPT !.seen = told] = s
    BY <2>2
  <2>4. look' = [look EXCEPT ![v] = [old EXCEPT !.seen = told]]
    BY <2>1
  <2> QED
    BY <2>3, <2>4
<1> HIDE DEF told, s, old
<1>8. ReadsLabels(s)
  <2>1. CASE store = "vocabulary"
    BY <1>4, <1>5, <2>1, StoresRead DEF ReadsLabels
  <2>2. CASE store # "vocabulary"
    BY <1>1, <1>2, <1>3, <1>5, <2>2 DEF ReadsLabels, IsLook
  <2> QED
    BY <2>1, <2>2
<1>9. "dismissed" \in DOMAIN s.seen => s.since \subseteq s.seen["dismissed"]
  <2>1. CASE store = "dismissed"
    BY <1>1, <1>2, <1>4, <1>5, <2>1, StoresRead DEF Stands
  <2>2. CASE store # "dismissed"
    BY <1>1, <1>2, <1>3, <1>5, <2>2 DEF IsLook
  <2> QED
    BY <2>1, <2>2
<1>15. ReadsGraph(s)
  <2>1. ReadsGraph(old)
    BY <1>1 DEF IsLook
  <2>2. \A x \in {"node", "edge", "mention"} : x \in DOMAIN told =>
          told[x] = Stores[x] \/ (x \in DOMAIN old.seen /\ told[x] = old.seen[x])
    BY <1>2, <1>3, <1>4
  <2>3. /\ Stores["node"] = node /\ Stores["edge"] = edge /\ Stores["mention"] = mention
        /\ node \in [Entities -> Node \cup {NoNode}]
        /\ edge \in [Triples -> Handles \cup {NoEdge}]
        /\ mention \in [MentionIds -> Mention \cup {NoMention}] /\ PlacesKept(mention)
    BY StoresRead DEF GraphTyped
  <2> QED
    BY <1>5, <2>1, <2>2, <2>3 DEF ReadsGraph
<1>10. IsLook(s)
  BY <1>1, <1>2, <1>5, <1>6, <1>8, <1>9, <1>15 DEF IsLook
<1>11. Stands(s, dismissed)
  BY <1>1, <1>2, <1>5 DEF Stands
<1>12. Encodes(s, embedded)
  <2>1. old.vectors \in {"encoding", "ready"} => Words(s) = Words(old)
    BY <1>1, <1>3, <1>5 DEF Words, IsLook
  <2> QED
    BY <1>1, <1>5, <2>1 DEF Encodes
<1>13. UNCHANGED <<dismissed, embedded, encoding, encodings>>
  BY DEF Read
<1>14. encoding = v <=> s.vectors = "encoding"
  BY <1>1, <1>5
<1> QED
  BY <1>7, <1>10, <1>11, <1>12, <1>13, <1>14, WithoutTheLock

(* What has been read stays read as the vectors come in.                   *)
Advanced(old, vectors, missing) == [old EXCEPT !.vectors = vectors, !.missing = missing]

(* A request whose vectors move on stays as it was otherwise.              *)
LEMMA OtherVectors ==
  ASSUME NEW old, IsLook(old), NEW vectors \in Progress, NEW missing \in SUBSET Labels,
         vectors \in {"waiting", "ready", "encoding"} => "vocabulary" \in DOMAIN old.seen
  PROVE  /\ IsLook(Advanced(old, vectors, missing))
         /\ Advanced(old, vectors, missing).seen = old.seen
         /\ Advanced(old, vectors, missing).since = old.since
         /\ Advanced(old, vectors, missing).vectors = vectors
         /\ Advanced(old, vectors, missing).missing = missing
<1> DEFINE s == Advanced(old, vectors, missing)
<1>1. s = [screen |-> old.screen, seen |-> old.seen, since |-> old.since,
           vectors |-> vectors, missing |-> missing]
  <2>1. old = [screen |-> old.screen, seen |-> old.seen, since |-> old.since,
               vectors |-> old.vectors, missing |-> old.missing]
    BY DEF IsLook
  <2>2. \A a, b, c, d, e :
          Advanced([screen |-> a, seen |-> b, since |-> c, vectors |-> d, missing |-> e],
                vectors, missing)
            = [screen |-> a, seen |-> b, since |-> c, vectors |-> vectors, missing |-> missing]
    <3> TAKE a, b, c, d, e
    <3> DEFINE x == [screen |-> a, seen |-> b, since |-> c, vectors |-> d, missing |-> e]
               y == [screen |-> a, seen |-> b, since |-> c, vectors |-> vectors, missing |-> e]
    <3>1. [x EXCEPT !.vectors = vectors] = y
      OBVIOUS
    <3>2. [y EXCEPT !.missing = missing]
            = [screen |-> a, seen |-> b, since |-> c, vectors |-> vectors, missing |-> missing]
      OBVIOUS
    <3>3. Advanced(x, vectors, missing) = [[x EXCEPT !.vectors = vectors] EXCEPT !.missing = missing]
      BY DEF Advanced
    <3> QED
      BY <3>1, <3>2, <3>3
  <2> QED
    BY <2>1, <2>2, ZenonT(40)
<1>2. /\ s.screen = old.screen /\ s.seen = old.seen /\ s.since = old.since
      /\ s.vectors = vectors /\ s.missing = missing
  BY <1>1
<1>3. s = [screen |-> s.screen, seen |-> s.seen, since |-> s.since, vectors |-> s.vectors,
           missing |-> s.missing]
  BY <1>1, <1>2
<1> HIDE DEF s
<1>4. IsLook(s)
  BY <1>2, <1>3 DEF IsLook, ReadsLabels, ReadsGraph
<1> QED
  BY <1>2, <1>4 DEF s

(* Looking the vectors up.                                                 *)
LEMMA CacheStep ==
  ASSUME ScreensInv, NEW v \in Looks, CheckCache(v)
  PROVE  ScreensInv'
<1> DEFINE old == look[v]
           vectors == IF Unembedded(v) = {} THEN "ready" ELSE "waiting"
           s == Advanced(old, vectors, Unembedded(v))
<1>1. /\ IsLook(old) /\ Stands(old, dismissed)
      /\ (encoding = v <=> old.vectors = "encoding")
  BY DEF ScreensInv, LooksOK, DismissalsOK, EncodingOK, CheckCache
<1>2. "vocabulary" \in DOMAIN old.seen /\ old.vectors = "unread"
  BY DEF CheckCache, Seen
<1>3. Unembedded(v) = Words(old) \ embedded
  BY DEF Unembedded, Vocabulary, Words
<1>4. Words(old) \subseteq Labels
  BY <1>1, <1>2 DEF IsLook, ReadsLabels, Words
<1>5. vectors \in {"ready", "waiting"} /\ (vectors = "ready" => Words(old) \subseteq embedded)
  BY <1>3
<1>6. look' = [look EXCEPT ![v] = s] /\ UNCHANGED <<dismissed, embedded, encoding, encodings>>
  BY DEF CheckCache, Advanced
<1> HIDE DEF vectors
<1>7. /\ IsLook(s) /\ Stands(s, dismissed) /\ Words(s) = Words(old)
      /\ s.vectors = vectors /\ s.missing = Unembedded(v)
  <2>1. vectors \in Progress /\ Unembedded(v) \subseteq Labels
    BY <1>3, <1>4, <1>5 DEF Progress
  <2> QED
    BY <1>1, <1>2, <2>1, OtherVectors DEF Stands, Words
<1> HIDE DEF s, old
<1>8. Encodes(s, embedded)
  BY <1>5, <1>7 DEF Encodes
<1>9. encoding = v <=> s.vectors = "encoding"
  BY <1>1, <1>2, <1>5, <1>7
<1> QED
  BY <1>6, <1>7, <1>8, <1>9, WithoutTheLock

(* Who takes the lock is the only one to hold it.                          *)
LEMMA TakeStep ==
  ASSUME ScreensInv, NEW v \in Looks, TakeLock(v)
  PROVE  ScreensInv'
<1> DEFINE old == look[v]
           s == Advanced(old, "encoding", Unembedded(v))
<1>1. IsLook(old) /\ Stands(old, dismissed)
  BY DEF ScreensInv, LooksOK, DismissalsOK, TakeLock
<1>2. "vocabulary" \in DOMAIN old.seen
  BY <1>1 DEF TakeLock, IsLook
<1>3. Unembedded(v) = Words(old) \ embedded
  BY DEF Unembedded, Vocabulary, Words
<1>4. Words(old) \subseteq Labels
  BY <1>1, <1>2 DEF IsLook, ReadsLabels, Words
<1>5. look' = [look EXCEPT ![v] = s] /\ UNCHANGED <<dismissed, embedded, encodings>>
      /\ encoding = Nobody /\ encoding' = v
  BY DEF TakeLock, Advanced
<1>6. /\ IsLook(s) /\ Stands(s, dismissed) /\ Words(s) = Words(old)
      /\ s.vectors = "encoding" /\ s.missing = Unembedded(v)
  <2>1. Unembedded(v) \subseteq Labels /\ "encoding" \in Progress
    BY <1>3, <1>4 DEF Progress
  <2> QED
    BY <1>1, <1>2, <2>1, OtherVectors DEF Stands, Words
<1> HIDE DEF s, old
<1>7. /\ LooksOK' /\ DismissalsOK'
      /\ look'[v] = s /\ \A w \in Looks \ {v} : look'[w] = look[w]
  BY <1>5, <1>6, LookMoves
<1>8. Encodes(s, embedded)
  BY <1>3, <1>6 DEF Encodes
<1>9. \A w \in Looks : look'[w] = Off \/ Encodes(look'[w], embedded)
  BY <1>7, <1>8 DEF ScreensInv, EncodingOK
<1>10. \A w \in Looks : encoding' = w <=> look'[w] # Off /\ look'[w].vectors = "encoding"
  <2>1. \A w \in Looks : encoding # w
    BY <1>5, ScreensAssumption DEF ScreensAssumption
  <2>2. s # Off
    BY <1>6, LookIsNotOff
  <2> QED
    BY <1>5, <1>6, <1>7, <2>1, <2>2 DEF ScreensInv, EncodingOK
<1>11. EncodingOK'
  BY <1>5, <1>9, <1>10 DEF ScreensInv, EncodingOK
<1> QED
  BY <1>7, <1>11 DEF ScreensInv

(* Among labels there is a first one.                                      *)
LEMMA FirstLabel ==
  ASSUME NEW S, S \subseteq Labels, S # {}
  PROVE  (CHOOSE x \in S : \A y \in S : Rank[x] <= Rank[y]) \in S
<1> DEFINE Ranks == {Rank[x] : x \in S}
<1>1. S \subseteq DOMAIN Rank /\ \A x \in S : Rank[x] \in Nat
  BY Ranked
<1>2. Ranks \subseteq Nat /\ Ranks # {}
  BY <1>1
<1>3. PICK m \in Ranks : \A k \in Ranks : m <= k
  <2> HIDE DEF Ranks
  <2> QED
    BY <1>2, LeastNat
<1>4. PICK x \in S : m = Rank[x]
  BY <1>3
<1>5. \A y \in S : Rank[x] <= Rank[y]
  BY <1>3, <1>4
<1>6. \E z \in S : \A y \in S : Rank[z] <= Rank[y]
  BY <1>5
<1> QED
  BY <1>6

(* One label is encoded, which nobody has encoded before.                  *)
LEMMA EncodeStep ==
  ASSUME ScreensInv, NEW v \in Looks, EncodeLabel(v)
  PROVE  ScreensInv'
<1> DEFINE old == look[v]
           l == CHOOSE x \in look[v].missing : \A y \in look[v].missing : Rank[x] <= Rank[y]
           s == Advanced(old, "encoding", old.missing \ {l})
<1>1. /\ IsLook(old) /\ Stands(old, dismissed) /\ Encodes(old, embedded)
      /\ old.vectors = "encoding" /\ old.missing # {} /\ encoding = v
  BY DEF ScreensInv, LooksOK, DismissalsOK, EncodingOK, EncodeLabel
<1>2. "vocabulary" \in DOMAIN old.seen /\ old.missing \subseteq Labels
  BY <1>1 DEF IsLook
<1>3. l \in old.missing
  BY <1>1, <1>2, FirstLabel
<1>4. /\ embedded' = embedded \cup {l}
      /\ encodings' = [encodings EXCEPT ![l] = @ + 1]
      /\ look' = [look EXCEPT ![v].missing = @ \ {l}]
      /\ UNCHANGED <<dismissed, encoding>>
  BY DEF EncodeLabel
<1> HIDE DEF l
<1>5. l \in Labels /\ l \notin embedded
  BY <1>1, <1>2, <1>3 DEF Encodes
<1>6. look' = [look EXCEPT ![v] = s]
  <2>1. old = [screen |-> old.screen, seen |-> old.seen, since |-> old.since,
               vectors |-> old.vectors, missing |-> old.missing]
    BY <1>1 DEF IsLook
  <2>2. [old EXCEPT !.missing = old.missing \ {l}] = s
    BY <1>1, <2>1 DEF Advanced
  <2>3. look' = [look EXCEPT ![v] = [old EXCEPT !.missing = old.missing \ {l}]]
    BY <1>4
  <2> QED
    BY <2>2, <2>3
<1>7. /\ IsLook(s) /\ Stands(s, dismissed) /\ Words(s) = Words(old)
      /\ s.vectors = "encoding" /\ s.missing = old.missing \ {l}
  <2>1. old.missing \ {l} \subseteq Labels /\ "encoding" \in Progress
    BY <1>2 DEF Progress
  <2> QED
    BY <1>1, <1>2, <2>1, OtherVectors DEF Stands, Words
<1> HIDE DEF s, old
<1>8. /\ LooksOK' /\ DismissalsOK'
      /\ look'[v] = s /\ \A w \in Looks \ {v} : look'[w] = look[w]
  BY <1>4, <1>6, <1>7, LookMoves
<1>9. Encodes(s, embedded')
  BY <1>1, <1>4, <1>7 DEF Encodes
<1>10. \A w \in Looks : look'[w] = Off \/ Encodes(look'[w], embedded')
  <2> TAKE w \in Looks
  <2>1. CASE w = v
    BY <1>8, <1>9, <2>1
  <2>2. CASE w # v /\ look[w] # Off
    <3>1. Encodes(look[w], embedded) /\ look[w].vectors # "encoding"
      BY <1>1, <2>2 DEF ScreensInv, EncodingOK
    <3>2. Encodes(look[w], embedded')
      BY <1>4, <3>1 DEF Encodes
    <3> QED
      BY <1>8, <2>2, <3>2
  <2>3. CASE w # v /\ look[w] = Off
    BY <1>8, <2>3
  <2> QED
    BY <2>1, <2>2, <2>3
<1>11. \A w \in Looks : encoding' = w <=> look'[w] # Off /\ look'[w].vectors = "encoding"
  BY <1>1, <1>4, <1>7, <1>8, LookIsNotOff DEF ScreensInv, EncodingOK
<1>12. /\ encodings' \in [Labels -> Nat]
       /\ \A k \in Labels : encodings'[k] = IF k \in embedded' THEN 1 ELSE 0
  BY <1>4, <1>5 DEF ScreensInv, EncodingOK
<1>13. EncodingOK'
  BY <1>4, <1>5, <1>10, <1>11, <1>12 DEF ScreensInv, EncodingOK
<1> QED
  BY <1>8, <1>13 DEF ScreensInv

(* The lock is let go, with all labels of its own encoded or not.          *)
LEMMA LetGo ==
  ASSUME ScreensInv, NEW v \in Looks, ReleaseLock(v) \/ EncodeFails(v)
  PROVE  ScreensInv'
<1> DEFINE old == look[v]
<1>1. /\ IsLook(old) /\ Stands(old, dismissed) /\ Encodes(old, embedded)
      /\ old.vectors = "encoding" /\ encoding = v
  BY DEF ScreensInv, LooksOK, DismissalsOK, EncodingOK, ReleaseLock, EncodeFails
<1>2. "vocabulary" \in DOMAIN old.seen /\ old.missing \subseteq Labels
  BY <1>1 DEF IsLook
<1>3. PICK vectors \in {"ready", "failed"} :
        /\ look' = [look EXCEPT ![v].vectors = vectors]
        /\ vectors = "ready" => old.missing = {}
  BY DEF ReleaseLock, EncodeFails
<1>4. encoding' = Nobody /\ UNCHANGED <<dismissed, embedded, encodings>>
  BY DEF ReleaseLock, EncodeFails
<1> DEFINE s == Advanced(old, vectors, old.missing)
<1>5. look' = [look EXCEPT ![v] = s]
  <2>1. old = [screen |-> old.screen, seen |-> old.seen, since |-> old.since,
               vectors |-> old.vectors, missing |-> old.missing]
    BY <1>1 DEF IsLook
  <2>2. [old EXCEPT !.vectors = vectors] = s
    BY <2>1 DEF Advanced
  <2>3. look' = [look EXCEPT ![v] = [old EXCEPT !.vectors = vectors]]
    BY <1>3
  <2> QED
    BY <2>2, <2>3
<1>6. /\ IsLook(s) /\ Stands(s, dismissed) /\ Words(s) = Words(old)
      /\ s.vectors = vectors /\ s.missing = old.missing
  <2>1. vectors \in Progress
    BY DEF Progress
  <2> QED
    BY <1>1, <1>2, <2>1, OtherVectors DEF Stands, Words
<1> HIDE DEF s, old
<1>7. /\ LooksOK' /\ DismissalsOK'
      /\ look'[v] = s /\ \A w \in Looks \ {v} : look'[w] = look[w]
  BY <1>4, <1>5, <1>6, LookMoves
<1>8. Encodes(s, embedded)
  BY <1>1, <1>3, <1>6 DEF Encodes
<1>9. \A w \in Looks : look'[w] = Off \/ Encodes(look'[w], embedded)
  BY <1>7, <1>8 DEF ScreensInv, EncodingOK
<1>10. \A w \in Looks : encoding' = w <=> look'[w] # Off /\ look'[w].vectors = "encoding"
  <2>1. \A w \in Looks : encoding' # w
    BY <1>4, ScreensAssumption DEF ScreensAssumption
  <2> QED
    BY <1>1, <1>6, <1>7, <2>1 DEF ScreensInv, EncodingOK
<1>11. EncodingOK'
  BY <1>4, <1>9, <1>10 DEF ScreensInv, EncodingOK
<1> QED
  BY <1>7, <1>11 DEF ScreensInv

-----------------------------------------------------------------------------
(* Steps of the author *)

(* A decision does not touch what is encoded.                              *)
LEMMA DismissStep ==
  ASSUME ScreensInv, NEW pair \in Dismissable, Dismiss(pair)
  PROVE  ScreensInv'
<1>1. PairId(pair[1], pair[2], pair[3]) \in PairIds
  <2>1. pair \in Surfaces \X (DOMAIN Rank) \X (DOMAIN Rank)
    BY ScreensAssumption DEF ScreensAssumption
  <2> QED
    BY <2>1, IdOfPair
<1>2. /\ dismissed' = dismissed \cup {PairId(pair[1], pair[2], pair[3])}
      /\ UNCHANGED <<look, embedded, encoding, encodings>>
  BY DEF Dismiss
<1>3. LooksOK' /\ EncodingOK'
  BY <1>2 DEF ScreensInv, LooksOK, EncodingOK
<1>4. dismissed' \subseteq PairIds
  BY <1>1, <1>2 DEF ScreensInv, DismissalsOK
<1>5. \A v \in Looks : look[v] = Off \/ Stands(look[v], dismissed')
  BY <1>2 DEF ScreensInv, DismissalsOK, Stands
<1> QED
  BY <1>2, <1>3, <1>4, <1>5 DEF ScreensInv, DismissalsOK

(* A request for a screen that has been told of one reversal.              *)
Told(s, id) == [s EXCEPT !.since = @ \ {id}]

(* A request that is told of a restored pair stays as it was otherwise.    *)
LEMMA ToldLook ==
  ASSUME NEW old, IsLook(old), NEW id
  PROVE  /\ IsLook(Told(old, id))
         /\ Told(old, id).seen = old.seen
         /\ Told(old, id).since = old.since \ {id}
         /\ Told(old, id).vectors = old.vectors
         /\ Told(old, id).missing = old.missing
<1> DEFINE s == Told(old, id)
<1>1. s = [screen |-> old.screen, seen |-> old.seen, since |-> old.since \ {id},
           vectors |-> old.vectors, missing |-> old.missing]
  <2>1. old = [screen |-> old.screen, seen |-> old.seen, since |-> old.since,
               vectors |-> old.vectors, missing |-> old.missing]
    BY DEF IsLook
  <2> QED
    BY <2>1 DEF Told
<1>2. /\ s.screen = old.screen /\ s.seen = old.seen /\ s.since = old.since \ {id}
      /\ s.vectors = old.vectors /\ s.missing = old.missing
  BY <1>1
<1>3. s = [screen |-> s.screen, seen |-> s.seen, since |-> s.since, vectors |-> s.vectors,
           missing |-> s.missing]
  BY <1>1, <1>2
<1> HIDE DEF s
<1>4. IsLook(s)
  BY <1>2, <1>3 DEF IsLook, ReadsLabels, ReadsGraph
<1> QED
  BY <1>2, <1>4 DEF s

(* What is taken back is no longer among what stood all along.             *)
LEMMA UndismissStep ==
  ASSUME ScreensInv, NEW pair, Undismiss(pair)
  PROVE  ScreensInv'
<1> DEFINE id == PairId(pair[1], pair[2], pair[3])
<1>1. /\ dismissed' = dismissed \ {id}
      /\ look' = [v \in Looks |-> IF look[v] = Off THEN Off ELSE Told(look[v], id)]
      /\ UNCHANGED <<embedded, encoding, encodings>>
  BY DEF Undismiss, Told
<1> HIDE DEF id
<1>2. \A v \in Looks :
        \/ look[v] = Off /\ look'[v] = Off
        \/ look[v] # Off /\ IsLook(look[v]) /\ look'[v] = Told(look[v], id)
  BY <1>1 DEF ScreensInv, LooksOK
<1>3. \A v \in Looks : look'[v] = Off \/ IsLook(look'[v])
  BY <1>2, ToldLook
<1>4. LooksOK'
  BY <1>1, <1>3 DEF LooksOK
<1>5. \A v \in Looks : look'[v] = Off \/ Stands(look'[v], dismissed')
  BY <1>1, <1>2, ToldLook DEF ScreensInv, DismissalsOK, Stands
<1>6. DismissalsOK'
  BY <1>1, <1>5 DEF ScreensInv, DismissalsOK
<1>7. \A v \in Looks : look'[v] = Off \/ Encodes(look'[v], embedded)
  BY <1>2, ToldLook DEF ScreensInv, EncodingOK, Encodes, Words
<1>8. \A v \in Looks : encoding = v <=> look'[v] # Off /\ look'[v].vectors = "encoding"
  <2> TAKE v \in Looks
  <2>1. CASE look[v] = Off
    BY <1>2, <2>1, LookIsNotOff DEF ScreensInv, EncodingOK
  <2>2. CASE look[v] # Off
    <3>1. look'[v] # Off /\ look'[v].vectors = look[v].vectors
      BY <1>2, <2>2, ToldLook, LookIsNotOff
    <3> QED
      BY <2>2, <3>1 DEF ScreensInv, EncodingOK
  <2> QED
    BY <2>1, <2>2
<1>9. EncodingOK'
  BY <1>1, <1>7, <1>8 DEF ScreensInv, EncodingOK
<1> QED
  BY <1>4, <1>6, <1>9 DEF ScreensInv

-----------------------------------------------------------------------------
(* The whole invariant *)

LEMMA ScreensBegin == InitScreens => Init /\ ScreensInv
<1> SUFFICES ASSUME InitScreens PROVE Init /\ ScreensInv
  OBVIOUS
<1>1. LooksOK
  BY DEF InitScreens, LooksOK
<1>2. DismissalsOK
  BY DEF InitScreens, DismissalsOK
<1>3. EncodingOK
  <2>1. \A v \in Looks : look[v] = Off /\ encoding # v
    BY ScreensAssumption DEF InitScreens, ScreensAssumption
  <2> QED
    BY <2>1 DEF InitScreens, EncodingOK
<1> QED
  BY <1>1, <1>2, <1>3 DEF InitScreens, ScreensInv

(* Every step of the screens, and of the edits beneath them.               *)
LEMMA ScreensStep ==
  ASSUME Inv, TypeInv, ScreensInv, [NextScreens]_allVars
  PROVE  [Next]_vars /\ ScreensInv'
<1>1. CASE UNCHANGED allVars
  <2>1. UNCHANGED vars /\ UNCHANGED <<dismissed, look, embedded, encoding, encodings>>
    BY <1>1 DEF allVars, screenVars
  <2> QED
    BY <2>1 DEF ScreensInv, LooksOK, DismissalsOK, EncodingOK
<1>2. CASE Next /\ UNCHANGED screenVars
  <2>1. UNCHANGED <<dismissed, look, embedded, encoding, encodings>>
    BY <1>2 DEF screenVars
  <2> QED
    BY <1>2, <2>1 DEF ScreensInv, LooksOK, DismissalsOK, EncodingOK
<1>3. ASSUME NEW v \in Looks, Screen(v) PROVE [Next]_vars /\ ScreensInv'
  <2>1. UNCHANGED vars
    BY <1>3 DEF Screen, Open, Read, CheckCache, TakeLock, EncodeLabel, ReleaseLock, EncodeFails
  <2>2. GraphTyped
    BY DEF TypeInv
  <2>3. ASSUME NEW screen \in DOMAIN ReadsOf, Open(v, screen) PROVE ScreensInv'
    BY <2>3, OpenStep
  <2>4. ASSUME NEW store \in DOMAIN Stores, Read(v, store) PROVE ScreensInv'
    BY <2>2, <2>4, ReadStep
  <2>5. CASE CheckCache(v)
    BY <2>1, <2>5, CacheStep
  <2>6. CASE TakeLock(v)
    BY <2>1, <2>6, TakeStep
  <2>7. CASE EncodeLabel(v)
    BY <2>1, <2>7, EncodeStep
  <2>8. CASE ReleaseLock(v) \/ EncodeFails(v)
    BY <2>1, <2>8, LetGo
  <2> QED
    BY <1>3, <2>1, <2>3, <2>4, <2>5, <2>6, <2>7, <2>8 DEF Screen
<1>4. ASSUME NEW pair \in Dismissable, Dismiss(pair) \/ Undismiss(pair)
      PROVE  [Next]_vars /\ ScreensInv'
  <2>1. UNCHANGED vars
    BY <1>4 DEF Dismiss, Undismiss
  <2> QED
    BY <1>4, <2>1, DismissStep, UndismissStep
<1> QED
  BY <1>1, <1>2, <1>3, <1>4 DEF NextScreens, Decide

(* At every moment the edits and the screens are as described.             *)
LEMMA ScreensAlways == SpecScreens => [](Inv /\ TypeInv /\ ScreensInv)
<1>1. ConstantsAssumption
  BY ConstantsAssumption
<1>2. InitScreens => Inv /\ TypeInv /\ ScreensInv
  BY <1>1, ScreensBegin, InvInit, TypedInit
<1>3. Inv /\ TypeInv /\ ScreensInv /\ [NextScreens]_allVars
        => (Inv /\ TypeInv /\ ScreensInv)'
  BY ScreensStep, InvStep, TypedStep
<1> QED
  BY <1>2, <1>3, PTL DEF SpecScreens

-----------------------------------------------------------------------------
(* What the screens promise *)

(* The two screens of suggestions name pairs of what is ranked.            *)
LEMMA SuggestedIds ==
  ASSUME TypeOK, NEW v \in Looks, IsLook(look[v]), Suggests(v)
  PROVE  Suggested(v) \subseteq PairIds
<1> DEFINE g == look[v].seen
<1>1. CASE look[v].screen = "duplicates"
  <2>1. \A x, y \in Listed(g) : PairId("entity", x, y) \in PairIds
    <3>1. Listed(g) \subseteq DOMAIN Rank
      BY Ranked DEF Listed
    <3> QED
      BY <3>1, IdOfPair DEF Surfaces
  <2>2. DuplicatePairs(g) \subseteq PairIds
    BY <2>1 DEF DuplicatePairs, Distinct
  <2> QED
    BY <1>1, <2>2 DEF Suggested
<1>2. CASE look[v].screen = "labels"
  <2>1. "vocabulary" \in DOMAIN g
    BY <1>2, ScreenReads DEF Suggests, Answered, HasRead, Seen
  <2>2. \A surface \in {"predicate", "type"} : g.vocabulary[surface] \subseteq Labels
    BY <2>1 DEF IsLook, ReadsLabels
  <2>3. ASSUME NEW surface \in {"predicate", "type"}
        PROVE  SynonymPairs(surface, g.vocabulary[surface]) \subseteq PairIds
    <3>1. g.vocabulary[surface] \subseteq DOMAIN Rank /\ surface \in Surfaces
      BY <2>2, Ranked DEF Surfaces
    <3> DEFINE labels == g.vocabulary[surface]
    <3> HIDE DEF labels
    <3>2. \A x, y \in labels : PairId(surface, x, y) \in PairIds
      BY <3>1, IdOfPair DEF labels
    <3> QED
      BY <3>2 DEF SynonymPairs, Distinct, labels
  <2> QED
    BY <1>2, <2>3 DEF Suggested
<1> QED
  BY <1>1, <1>2 DEF Suggests

(* What is in the dismissals a request read is off its screen.             *)
LEMMA DismissedIsOut ==
  ASSUME TypeOK, ScreensInv
  PROVE  DismissedStaysDismissed
<1> SUFFICES ASSUME NEW v \in Looks, Suggests(v), NEW id \in Suggested(v),
                    NEW past \in look[v].since, id[1] = past[1], Range(id[2]) = Range(past[2])
             PROVE  FALSE
  BY DEF DismissedStaysDismissed
<1>1. IsLook(look[v])
  BY DEF ScreensInv, LooksOK, Suggests, Answered
<1>2. id \in PairIds
  BY <1>1, SuggestedIds
<1>3. past \in PairIds
  BY <1>1 DEF IsLook
<1>4. id = past
  BY <1>2, <1>3, PairIsId
<1>5. "dismissed" \in DOMAIN look[v].seen
  BY ScreenReads DEF Suggests, Answered, HasRead, Seen
<1>6. past \in look[v].seen.dismissed
  BY <1>1, <1>5 DEF IsLook
<1>7. id \notin look[v].seen.dismissed
  BY DEF Suggested
<1> QED
  BY <1>4, <1>6, <1>7

(* Whoever encodes holds the lock, and no label has a vector yet.          *)
LEMMA OnceEncoded ==
  ASSUME ScreensInv
  PROVE  EncodedOnce
<1>1. \A v, w \in Looks : v # w =>
        look[v] = Off \/ look[w] = Off
          \/ ~(look[v].vectors = "encoding" /\ look[w].vectors = "encoding")
  BY DEF ScreensInv, EncodingOK
<1>2. \A l \in Labels : encodings[l] <= 1
  BY DEF ScreensInv, EncodingOK
<1>3. ASSUME NEW v \in Looks, look[v] # Off, look[v].vectors = "ready"
      PROVE  Unembedded(v) = {}
  BY <1>3 DEF ScreensInv, EncodingOK, Encodes, Words, Unembedded, Vocabulary
<1> QED
  BY <1>1, <1>2, <1>3 DEF EncodedOnce

(* The types of what the screens keep.                                     *)
LEMMA ScreensAreTyped ==
  ASSUME TypeOK, ScreensInv
  PROVE  TypeOKScreens
<1>1. ASSUME NEW id \in dismissed
      PROVE  id[1] \in Surfaces /\ id[2] \in (DOMAIN Rank) \X (DOMAIN Rank)
  <2>1. PICK p \in Surfaces \X (DOMAIN Rank) \X (DOMAIN Rank) : id = PairId(p[1], p[2], p[3])
    BY DEF ScreensInv, DismissalsOK, PairIds
  <2>2. p[1] \in Surfaces /\ p[2] \in DOMAIN Rank /\ p[3] \in DOMAIN Rank
    OBVIOUS
  <2> QED
    BY <2>1, <2>2, IdOfPair
<1>2. ASSUME NEW v \in Looks, look[v] # Off
      PROVE  /\ look[v].screen \in DOMAIN ReadsOf
             /\ Seen(v) \subseteq DOMAIN ReadsOf[look[v].screen]
             /\ look[v].missing \subseteq Labels
  <2>1. IsLook(look[v])
    BY <1>2 DEF ScreensInv, LooksOK
  <2> QED
    BY <2>1, ScreenReads DEF IsLook, Seen
<1>3. embedded \subseteq Labels /\ encoding \in Looks \cup {Nobody}
  BY DEF ScreensInv, EncodingOK
<1> QED
  BY <1>1, <1>2, <1>3 DEF TypeOKScreens

(* What the reader has read when it answers is a graph.                    *)
LEMMA ReaderSound ==
  ASSUME ScreensInv
  PROVE  ReaderIsSound
<1> SUFFICES ASSUME NEW v \in Looks, Answered(v), look[v].screen = "reader"
             PROVE  /\ \E holders \in SUBSET Claims(look[v].seen) : Arbitrated(look[v].seen, holders)
                    /\ \A e \in {c.entity : c \in Marks(look[v].seen)} : TooltipIsWhole(look[v].seen, e)
  BY DEF ReaderIsSound
<1>1. IsLook(look[v])
  BY DEF ScreensInv, LooksOK, Answered
<1>2. DOMAIN look[v].seen = {"mention", "hidden", "node", "edge"}
  BY ScreenReads DEF Answered, HasRead, Seen
<1>3. ReadsGraph(look[v])
  BY <1>1 DEF IsLook
<1> DEFINE g == look[v].seen
<1>4. Readable(g)
  <2>1. g.mention \in [MentionIds -> Mention \cup {NoMention}] /\ PlacesKept(g.mention)
        /\ g.node \in [Entities -> Node \cup {NoNode}]
        /\ g.edge \in [Triples -> Handles \cup {NoEdge}]
    BY <1>2, <1>3 DEF ReadsGraph
  <2> HIDE DEF g
  <2>2. \A i \in MentionIds : g.mention[i] # NoMention /\ IsManual(i) => g.mention[i].span \in Spans
    BY <2>1 DEF PlacesKept, Placed, IsManual
  <2> QED
    BY <2>1, <2>2 DEF Readable
<1> HIDE DEF g
<1>5. /\ \E holders \in SUBSET Claims(g) : Arbitrated(g, holders)
      /\ \A e \in {c.entity : c \in Marks(g)} : TooltipIsWhole(g, e)
  BY <1>4, ReadableIsSound
<1> QED
  BY <1>5 DEF g

(* Both ends of a drawn edge are in the graph, and the story's members.    *)
LEMMA ClosedStory ==
  ASSUME TypeOK
  PROVE  StoryIsClosed
<1> SUFFICES ASSUME NEW v \in Looks,
                    <<look[v].seen.node, look[v].seen.edge, look[v].seen.mention>>
                      = <<node, edge, mention>>,
                    NEW t \in StoryGraph(look[v].seen).edges
             PROVE  {t[1], t[3]} \subseteq StoryGraph(look[v].seen).nodes
  BY DEF StoryIsClosed, SelfContained
<1> DEFINE g == look[v].seen
<1>1. g.node = node /\ g.edge = edge
  OBVIOUS
<1>2. t \in Triples /\ edge[t] # NoEdge /\ {t[1], t[3]} \subseteq Members(g)
  BY <1>1 DEF StoryGraph, Drawn
<1>3. t[1] \in Entities /\ t[3] \in Entities /\ node[t[1]] # NoNode /\ node[t[3]] # NoNode
  BY <1>2 DEF TypeOK, HasEdge, Exists, Triples
<1> QED
  BY <1>1, <1>2, <1>3 DEF StoryGraph, Listed

-----------------------------------------------------------------------------
(* A pair the author dismissed before a screen of suggestions was asked    *)
(* for, and has not taken back, is not on it, in either order: for any     *)
(* number of requests, edits and decisions (list_duplicate_suggestions,    *)
(* list_label_synonyms).                                                   *)
THEOREM DismissedIsNotShown == SpecScreens => []DismissedStaysDismissed
<1>1. Inv /\ TypeInv /\ ScreensInv => DismissedStaysDismissed
  BY TypedIsOK, DismissedIsOut
<1> QED
  BY <1>1, ScreensAlways, PTL

(* One request at a time runs the model, no label is encoded twice, and a  *)
(* request that goes on has all of its vectors (LabelVocabularyReader), for *)
(* any vocabulary and any number of requests.                              *)
THEOREM LabelsAreEncodedOnce == SpecScreens => []EncodedOnce
<1>1. Inv /\ TypeInv /\ ScreensInv => EncodedOnce
  BY OnceEncoded
<1> QED
  BY <1>1, ScreensAlways, PTL

(* Whatever edits fall between its reads, the marks of the reader never    *)
(* overlap, an author's tag beats a search hit and a longer hit a shorter  *)
(* one, what is hidden uncovers nothing beneath it, and what is marked has *)
(* its tooltip with every neighbour on it or counted as left out           *)
(* (reconcile_highlights, summarise_relations); the screens are of their   *)
(* types, and the graph of a story that no edit came into has both ends of *)
(* each edge (filter_graph_to_story).  For any text and any graph.         *)
THEOREM ScreensShowWhatIsSound == SpecScreens => []ScreensAreSound
<1>1. Inv /\ TypeInv /\ ScreensInv => ScreensAreSound
  BY TypedIsOK, ScreensAreTyped, ReaderSound, ClosedStory DEF ScreensAreSound
<1> QED
  BY <1>1, ScreensAlways, PTL

-----------------------------------------------------------------------------
(* What is said of a and b                                                 *)
Plausible(B, a, b) ==
  /\ a \in Entities /\ b \in Entities /\ a # b
  /\ B.node[a] # NoNode /\ B.node[b] # NoNode
  /\ B.mention \in [MentionIds -> Mention \cup {NoMention}]

(* The survivor answers to the names of both.                              *)
Widened(B, g, a, b) ==
  /\ g.node[a] # NoNode
  /\ SurfaceForms(B, a) \cup SurfaceForms(B, b) \subseteq SurfaceForms(g, a)

Unmoved(B, g, b) == g.mention = B.mention /\ g.node[b] = B.node[b]
HandedOn(B, g, a, b) == g.mention = Given(B.mention, Naming(B.mention, b), a)

(* Where a merge can be, there or back.                                    *)
Midway(B, g, a, b) ==
  /\ Plausible(B, a, b)
  /\ \/ Unmoved(B, g, b) /\ g.node[a] = B.node[a]
     \/ Widened(B, g, a, b) /\ (Unmoved(B, g, b) \/ HandedOn(B, g, a, b))

(* A mention of either in B is one of either in g that claims as much.     *)
Carried(B, g, a, b, i) ==
  LET m == B.mention[i]
      k == g.mention[i]
  IN  /\ k # NoMention /\ k.span = m.span
      /\ k.entity \in {a, b} /\ g.node[k.entity] # NoNode
      /\ SurfaceForms(B, m.entity) \subseteq SurfaceForms(g, k.entity)

LEMMA MidwayCarries ==
  ASSUME NEW B, NEW g, NEW a, NEW b, Midway(B, g, a, b), NEW i \in MentionIds,
         B.mention[i] # NoMention, B.mention[i].entity \in {a, b}
  PROVE  Carried(B, g, a, b, i)
<1> DEFINE m == B.mention[i]
<1>1. m \in Mention /\ Plausible(B, a, b)
  BY DEF Midway, Plausible
<1>2. CASE Unmoved(B, g, b) /\ g.node[a] = B.node[a]
  <2>1. SurfaceForms(B, a) = SurfaceForms(g, a) /\ SurfaceForms(B, b) = SurfaceForms(g, b)
    BY <1>2 DEF Unmoved, SurfaceForms
  <2> QED
    BY <1>1, <1>2, <2>1 DEF Unmoved, Carried, Plausible
<1>3. CASE Widened(B, g, a, b) /\ Unmoved(B, g, b)
  <2>1. SurfaceForms(B, b) = SurfaceForms(g, b)
    BY <1>3 DEF Unmoved, SurfaceForms
  <2> QED
    BY <1>1, <1>3, <2>1 DEF Unmoved, Widened, Carried, Plausible
<1>4. CASE Widened(B, g, a, b) /\ HandedOn(B, g, a, b)
  <2>1. g.mention[i] = IF m.entity = b THEN [m EXCEPT !.entity = a] ELSE m
    BY <1>4 DEF HandedOn, Given, Naming
  <2>2. [m EXCEPT !.entity = a].entity = a /\ [m EXCEPT !.entity = a].span = m.span
        /\ [m EXCEPT !.entity = a] \in Mention /\ NoMention \notin Mention
    BY <1>1, ConstantsAssumption DEF Mention, Plausible, ConstantsAssumption
  <2>3. g.mention[i].entity = a /\ g.mention[i].span = m.span /\ g.mention[i] # NoMention
    BY <1>1, <2>1, <2>2
  <2> QED
    BY <1>4, <2>3 DEF Widened, Carried
<1> QED
  BY <1>2, <1>3, <1>4 DEF Midway

LEMMA MidwayKeeps ==
  ASSUME NEW B, NEW g, NEW a, NEW b, Midway(B, g, a, b)
  PROVE  Occurrences(B, {b, a}) \subseteq Occurrences(g, {b, a})
<1> SUFFICES ASSUME NEW c \in Claims(B), c.entity \in {b, a}
             PROVE  \E d \in Claims(g) : d.entity \in {b, a} /\ d.span = c.span
  BY DEF Occurrences
<1>0. a \in Entities /\ b \in Entities
  BY DEF Midway, Plausible
<1>1. CASE c \in SearchClaims(B)
  <2>1. PICK x \in Spans \X Searched(B) : /\ Named[x[1]] \in SurfaceForms(B, x[2])
                                          /\ c = [span |-> x[1], entity |-> x[2], manual |-> FALSE]
    BY <1>1 DEF SearchClaims
  <2>2. c.span \in Spans /\ c.entity \in Searched(B) /\ Named[c.span] \in SurfaceForms(B, c.entity)
    BY <2>1
  <2>3. PICK i \in Stored(B, FALSE) : B.mention[i].entity = c.entity
    BY <2>2 DEF Searched
  <2>4. i \in MentionIds /\ B.mention[i] # NoMention /\ IsManual(i) = FALSE
    BY <2>3 DEF Stored
  <2>5. Carried(B, g, a, b, i)
    BY <2>3, <2>4, MidwayCarries
  <2> DEFINE f == g.mention[i].entity
  <2>6. /\ g.mention[i] # NoMention /\ f \in {a, b} /\ g.node[f] # NoNode
        /\ SurfaceForms(B, c.entity) \subseteq SurfaceForms(g, f)
    BY <2>3, <2>5 DEF Carried
  <2>7. f \in Searched(g)
    BY <1>0, <2>4, <2>6 DEF Searched, Stored, Listed
  <2> HIDE DEF f
  <2>8. <<c.span, f>> \in Spans \X Searched(g) /\ Named[c.span] \in SurfaceForms(g, f)
    BY <2>2, <2>6, <2>7
  <2>9. [span |-> c.span, entity |-> f, manual |-> FALSE] \in SearchClaims(g)
    <3> PICK y : y = <<c.span, f>>
      OBVIOUS
    <3>1. y \in {z \in Spans \X Searched(g) : Named[z[1]] \in SurfaceForms(g, z[2])}
          /\ y[1] = c.span /\ y[2] = f
      BY <2>8
    <3>2. [span |-> y[1], entity |-> y[2], manual |-> FALSE] \in SearchClaims(g)
      BY <3>1 DEF SearchClaims
    <3> QED
      BY <3>1, <3>2
  <2> QED
    BY <2>6, <2>9 DEF Claims
<1>2. CASE c \in ManualClaims(B)
  <2>1. PICK i \in Stored(B, TRUE) :
          c = [span |-> B.mention[i].span, entity |-> B.mention[i].entity, manual |-> TRUE]
    BY <1>2 DEF ManualClaims
  <2>2. i \in MentionIds /\ B.mention[i] # NoMention /\ IsManual(i) = TRUE
        /\ c.span = B.mention[i].span /\ c.entity = B.mention[i].entity
    BY <2>1 DEF Stored
  <2>3. Carried(B, g, a, b, i)
    BY <2>2, MidwayCarries
  <2> DEFINE f == g.mention[i].entity
  <2>4. g.mention[i] # NoMention /\ f \in {a, b} /\ g.node[f] # NoNode /\ g.mention[i].span = c.span
    BY <2>2, <2>3 DEF Carried
  <2>5. i \in Stored(g, TRUE) /\ f \in Listed(g)
    BY <1>0, <2>2, <2>4 DEF Stored, Listed
  <2>6. [span |-> c.span, entity |-> f, manual |-> TRUE] \in ManualClaims(g)
    BY <2>4, <2>5 DEF ManualClaims
  <2> HIDE DEF f
  <2> QED
    BY <2>4, <2>6 DEF Claims
<1> QED
  BY <1>1, <1>2 DEF Claims

-----------------------------------------------------------------------------
(* The calls of a merge in flight, and of its undoing *)

IsEdgeCall(c) == c.do \in {"create_relation", "delete_relation"}

(* Where an edit stands: the calls cs are still to come.                   *)
Merging(cs, B, g, a, b) ==
  LET n == Len(cs)
  IN  \/ /\ n >= 3 /\ Unmoved(B, g, b) /\ g.node[a] = B.node[a]
         /\ cs[1].do = "update_entity" /\ cs[1].on = a
         /\ SurfaceForms(B, a) \cup SurfaceForms(B, b) \subseteq {cs[1].with.name} \cup cs[1].with.aliases
         /\ cs[1].with # NoNode
         /\ \A i \in 2 .. n - 2 : IsEdgeCall(cs[i])
         /\ cs[n - 1] = Call("repoint_mentions", b, a) /\ cs[n] = Call("delete_entity", b, NoImage)
      \/ /\ n >= 2 /\ Unmoved(B, g, b) /\ Widened(B, g, a, b)
         /\ \A i \in 1 .. n - 2 : IsEdgeCall(cs[i])
         /\ cs[n - 1] = Call("repoint_mentions", b, a) /\ cs[n] = Call("delete_entity", b, NoImage)
      \/ n = 1 /\ Widened(B, g, a, b) /\ HandedOn(B, g, a, b) /\ cs[1] = Call("delete_entity", b, NoImage)
      \/ n = 0 /\ Widened(B, g, a, b) /\ HandedOn(B, g, a, b) /\ g.node[b] = NoNode

(* Where an undo stands.                                                   *)
Unmerging(cs, B, g, a, b) ==
  LET n == Len(cs)
      back == Call("reassign_mentions", Naming(B.mention, b), b)
  IN  n # 0 =>
        /\ Widened(B, g, a, b)
        /\ \/ /\ n >= 3 /\ HandedOn(B, g, a, b) /\ g.node[b] = NoNode
              /\ cs[1] = Call("create_entity", b, B.node[b]) /\ cs[2] = back
              /\ \A i \in 3 .. n - 1 : IsEdgeCall(cs[i])
           \/ /\ n >= 2 /\ HandedOn(B, g, a, b) /\ g.node[b] = B.node[b] /\ cs[1] = back
              /\ \A i \in 2 .. n - 1 : IsEdgeCall(cs[i])
           \/ /\ Unmoved(B, g, b)
              /\ \A i \in 1 .. n - 1 : IsEdgeCall(cs[i])

(* An edge call leaves nodes and mentions as they are.                     *)
LEMMA EdgesOnly ==
  ASSUME NEW c, IsEdgeCall(c), NEW g
  PROVE  After(c, g).node = g.node /\ After(c, g).mention = g.mention
<1>1. c.do \notin OnNodes /\ c.do \notin OnMentions
  BY DEF IsEdgeCall, OnNodes, OnMentions
<1>2. NodeAfter(c, g.node) = g.node /\ MentionAfter(c, g.mention) = g.mention
  BY <1>1, Untouched
<1> QED
  BY <1>2 DEF After, GraphOf

LEMMA CallParts ==
  ASSUME NEW c, NEW g
  PROVE  After(c, g).node = NodeAfter(c, g.node) /\ After(c, g).mention = MentionAfter(c, g.mention)
BY DEF After, GraphOf

(* The calls on nodes that a merge or its undoing makes, and on mentions.  *)
LEMMA NodeMade ==
  ASSUME NEW c, NEW n, NEW m
  PROVE  /\ c.do = "create_entity" /\ n[c.on] = NoNode =>
              NodeAfter(c, n) = Put(n, c.on, c.with) /\ MentionAfter(c, m) = m
         /\ c.do = "update_entity" /\ n[c.on] # NoNode =>
              NodeAfter(c, n) = Put(n, c.on, c.with) /\ MentionAfter(c, m) = m
         /\ c.do = "delete_entity" =>
              NodeAfter(c, n) = Put(n, c.on, NoNode) /\ MentionAfter(c, m) = m
<1>1. c.do \in {"create_entity", "update_entity", "delete_entity"} => MentionAfter(c, m) = m
  BY DEF MentionAfter
<1>2. c.do = "create_entity" /\ n[c.on] = NoNode => NodeAfter(c, n) = Put(n, c.on, c.with)
  BY DEF NodeAfter
<1>3. c.do = "update_entity" /\ n[c.on] # NoNode => NodeAfter(c, n) = Put(n, c.on, c.with)
  BY DEF NodeAfter
<1>4. c.do = "delete_entity" => NodeAfter(c, n) = Put(n, c.on, NoNode)
  BY DEF NodeAfter
<1> QED
  BY <1>1, <1>2, <1>3, <1>4

LEMMA MentionsTurned ==
  ASSUME NEW c, NEW n, NEW m
  PROVE  /\ c.do = "repoint_mentions" =>
              NodeAfter(c, n) = n /\ MentionAfter(c, m) = Given(m, Naming(m, c.on), c.with)
         /\ c.do = "reassign_mentions" =>
              NodeAfter(c, n) = n /\ MentionAfter(c, m) = Given(m, c.on, c.with)
<1>1. c.do \in {"repoint_mentions", "reassign_mentions"} => NodeAfter(c, n) = n
  BY DEF NodeAfter
<1>2. c.do = "repoint_mentions" => MentionAfter(c, m) = Given(m, Naming(m, c.on), c.with)
  BY DEF MentionAfter
<1>3. c.do = "reassign_mentions" => MentionAfter(c, m) = Given(m, c.on, c.with)
  BY DEF MentionAfter
<1> QED
  BY <1>1, <1>2, <1>3

LEMMA MergingGoes ==
  ASSUME NEW B, NEW g, NEW a, NEW b, Plausible(B, a, b), NEW S, NEW cs \in Seq(S), cs # <<>>,
         Merging(cs, B, g, a, b), NEW h, h = After(Head(cs), g), g.node \in [Entities -> Node \cup {NoNode}]
  PROVE  Merging(Tail(cs), B, h, a, b)
<1> PICK c : c = cs[1]
  OBVIOUS
<1> PICK n : n = Len(cs)
  OBVIOUS
<1> PICK u : u = Tail(cs)
  OBVIOUS
<1>1. /\ n \in Nat /\ n # 0 /\ Head(cs) = c /\ Len(u) = n - 1
      /\ \A i \in 1 .. n - 1 : u[i] = cs[i + 1]
  OBVIOUS
<1>2. h.node = NodeAfter(c, g.node) /\ h.mention = MentionAfter(c, g.mention)
  BY <1>1, CallParts
<1>3. CASE /\ n >= 3 /\ Unmoved(B, g, b) /\ g.node[a] = B.node[a]
           /\ c.do = "update_entity" /\ c.on = a
           /\ SurfaceForms(B, a) \cup SurfaceForms(B, b) \subseteq {c.with.name} \cup c.with.aliases
           /\ c.with # NoNode
           /\ \A i \in 2 .. n - 2 : IsEdgeCall(cs[i])
           /\ cs[n - 1] = Call("repoint_mentions", b, a) /\ cs[n] = Call("delete_entity", b, NoImage)
  <2>1. h.node = Put(g.node, a, c.with) /\ h.mention = g.mention
    BY <1>2, <1>3, NodeMade DEF Plausible
  <2>2. h.node[a] = c.with /\ h.node[b] = g.node[b]
    BY <2>1 DEF Put, Plausible
  <2>3. Unmoved(B, h, b) /\ Widened(B, h, a, b)
    BY <1>3, <2>1, <2>2 DEF Unmoved, Widened, SurfaceForms
  <2>4. n - 1 >= 2 /\ (n - 1) - 1 = n - 2 /\ n - 2 \in 1 .. n - 1 /\ n - 1 \in 1 .. n - 1
        /\ (n - 2) + 1 = n - 1 /\ (n - 1) + 1 = n
    BY <1>1, <1>3
  <2>5. u[n - 2] = cs[n - 1] /\ u[n - 1] = cs[n]
    BY <1>1, <2>4
  <2>6. \A i \in 1 .. (n - 1) - 2 : u[i] = cs[i + 1] /\ i + 1 \in 2 .. n - 2
    BY <1>1, <1>3
  <2> QED
    BY <1>1, <1>3, <2>3, <2>4, <2>5, <2>6 DEF Merging
<1>4. CASE /\ n >= 2 /\ Unmoved(B, g, b) /\ Widened(B, g, a, b)
           /\ \A i \in 1 .. n - 2 : IsEdgeCall(cs[i])
           /\ cs[n - 1] = Call("repoint_mentions", b, a) /\ cs[n] = Call("delete_entity", b, NoImage)
  <2>1. CASE n = 2
    <3>1. c = Call("repoint_mentions", b, a)
      BY <1>4, <2>1
    <3>2. h.node = g.node /\ h.mention = Given(g.mention, Naming(g.mention, b), a)
      BY <1>2, <3>1, MentionsTurned DEF Call
    <3>3. Widened(B, h, a, b) /\ HandedOn(B, h, a, b)
      BY <1>4, <3>2 DEF Unmoved, Widened, SurfaceForms, HandedOn
    <3>4. Len(u) = 1 /\ u[1] = Call("delete_entity", b, NoImage)
      <4>1. 1 \in 1 .. n - 1 /\ 1 + 1 = n /\ n - 1 = 1
        BY <2>1
      <4> QED
        BY <1>1, <1>4, <4>1
    <3> QED
      BY <3>3, <3>4 DEF Merging
  <2>2. CASE n # 2
    <3>1. IsEdgeCall(c)
      BY <1>1, <1>4, <2>2
    <3>2. h.node = g.node /\ h.mention = g.mention
      BY <1>1, <3>1, EdgesOnly
    <3>3. Unmoved(B, h, b) /\ Widened(B, h, a, b)
      BY <1>4, <3>2 DEF Unmoved, Widened, SurfaceForms
    <3>4. n - 1 >= 2 /\ (n - 1) - 1 = n - 2 /\ n - 2 \in 1 .. n - 1 /\ n - 1 \in 1 .. n - 1
          /\ (n - 2) + 1 = n - 1 /\ (n - 1) + 1 = n
      BY <1>1, <1>4, <2>2
    <3>5. u[n - 2] = cs[n - 1] /\ u[n - 1] = cs[n]
      BY <1>1, <3>4
    <3>6. \A i \in 1 .. (n - 1) - 2 : u[i] = cs[i + 1] /\ i + 1 \in 1 .. n - 2
      BY <1>1, <1>4
    <3> QED
      BY <1>1, <1>4, <3>3, <3>4, <3>5, <3>6 DEF Merging
  <2> QED
    BY <2>1, <2>2
<1>5. CASE n = 1 /\ Widened(B, g, a, b) /\ HandedOn(B, g, a, b) /\ c = Call("delete_entity", b, NoImage)
  <2>1. h.node = Put(g.node, b, NoNode) /\ h.mention = g.mention
    BY <1>2, <1>5, NodeMade DEF Call
  <2>2. h.node[a] = g.node[a] /\ h.node[b] = NoNode
    BY <2>1 DEF Put, Plausible
  <2>3. Widened(B, h, a, b) /\ HandedOn(B, h, a, b) /\ Len(u) = 0
    BY <1>1, <1>5, <2>1, <2>2 DEF Widened, SurfaceForms, HandedOn
  <2> QED
    BY <2>2, <2>3 DEF Merging
<1> QED
  BY <1>1, <1>3, <1>4, <1>5 DEF Merging

LEMMA UnmergingGoes ==
  ASSUME NEW B, NEW g, NEW a, NEW b, Plausible(B, a, b), NEW S, NEW cs \in Seq(S), cs # <<>>,
         Unmerging(cs, B, g, a, b), NEW h, h = After(Head(cs), g), g.node \in [Entities -> Node \cup {NoNode}]
  PROVE  Unmerging(Tail(cs), B, h, a, b)
<1> PICK c : c = cs[1]
  OBVIOUS
<1> PICK n : n = Len(cs)
  OBVIOUS
<1> PICK u : u = Tail(cs)
  OBVIOUS
<1> PICK back : back = Call("reassign_mentions", Naming(B.mention, b), b)
  OBVIOUS
<1>1. /\ n \in Nat /\ n # 0 /\ Head(cs) = c /\ Len(u) = n - 1
      /\ \A i \in 1 .. n - 1 : u[i] = cs[i + 1]
  OBVIOUS
<1>2. h.node = NodeAfter(c, g.node) /\ h.mention = MentionAfter(c, g.mention)
  BY <1>1, CallParts
<1>3. Widened(B, g, a, b) /\ B.node[b] # NoNode /\ b \in Entities /\ a # b
  BY <1>1 DEF Unmerging, Plausible
<1>4. CASE /\ n >= 3 /\ HandedOn(B, g, a, b) /\ g.node[b] = NoNode
           /\ c = Call("create_entity", b, B.node[b]) /\ cs[2] = back
           /\ \A i \in 3 .. n - 1 : IsEdgeCall(cs[i])
  <2>1. h.node = Put(g.node, b, B.node[b]) /\ h.mention = g.mention
    BY <1>2, <1>4, NodeMade DEF Call
  <2>2. h.node[a] = g.node[a] /\ h.node[b] = B.node[b]
    BY <1>3, <2>1 DEF Put, Plausible
  <2>3. Widened(B, h, a, b) /\ HandedOn(B, h, a, b)
    BY <1>3, <1>4, <2>1, <2>2 DEF Widened, SurfaceForms, HandedOn
  <2>4. n - 1 >= 2 /\ u[1] = back /\ \A i \in 2 .. (n - 1) - 1 : u[i] = cs[i + 1] /\ i + 1 \in 3 .. n - 1
    BY <1>1, <1>4
  <2> QED
    BY <1>1, <1>4, <2>2, <2>3, <2>4 DEF Unmerging
<1>5. CASE /\ n >= 2 /\ HandedOn(B, g, a, b) /\ g.node[b] = B.node[b] /\ c = back
           /\ \A i \in 2 .. n - 1 : IsEdgeCall(cs[i])
  <2>1. h.node = g.node /\ h.mention = Given(g.mention, Naming(B.mention, b), b)
    BY <1>2, <1>5, MentionsTurned DEF Call
  <2>2. h.mention = B.mention
    BY <1>5, <2>1, MentionsGoBack DEF HandedOn, Plausible
  <2>3. Widened(B, h, a, b) /\ Unmoved(B, h, b)
    BY <1>3, <1>5, <2>1, <2>2 DEF Widened, SurfaceForms, Unmoved
  <2>4. \A i \in 1 .. (n - 1) - 1 : u[i] = cs[i + 1] /\ i + 1 \in 2 .. n - 1
    BY <1>1
  <2> QED
    BY <1>1, <1>5, <2>3, <2>4 DEF Unmerging
<1>6. CASE Unmoved(B, g, b) /\ \A i \in 1 .. n - 1 : IsEdgeCall(cs[i])
  <2>1. CASE n = 1
    BY <1>1, <2>1 DEF Unmerging
  <2>2. CASE n # 1
    <3>1. IsEdgeCall(c)
      BY <1>1, <1>6, <2>2
    <3>2. h.node = g.node /\ h.mention = g.mention
      BY <1>1, <3>1, EdgesOnly
    <3>3. Widened(B, h, a, b) /\ Unmoved(B, h, b)
      BY <1>3, <1>6, <3>2 DEF Widened, SurfaceForms, Unmoved
    <3>4. \A i \in 1 .. (n - 1) - 1 : u[i] = cs[i + 1] /\ i + 1 \in 1 .. n - 1
      BY <1>1
    <3> QED
      BY <1>1, <1>6, <3>3, <3>4 DEF Unmerging
  <2> QED
    BY <2>1, <2>2
<1> QED
  BY <1>1, <1>4, <1>5, <1>6 DEF Unmerging
(* At no point of either is an occurrence lost.                            *)
LEMMA MergingIsMidway ==
  ASSUME NEW B, NEW g, NEW a, NEW b, Plausible(B, a, b), NEW cs, Merging(cs, B, g, a, b)
  PROVE  Midway(B, g, a, b)
BY DEF Merging, Midway

LEMMA UnmergingIsMidway ==
  ASSUME NEW B, NEW g, NEW a, NEW b, Plausible(B, a, b), NEW S, NEW cs \in Seq(S), cs # <<>>, Unmerging(cs, B, g, a, b)
  PROVE  Midway(B, g, a, b)
<1>1. Len(cs) # 0
  OBVIOUS
<1> QED
  BY <1>1 DEF Unmerging, Midway

-----------------------------------------------------------------------------
(* The rows of a merge, and the calls that they say take it back *)

StepRowOps == {"repoint_relation", "fold_relation", "discard_self_loop_relation"}

MergedRows(v, B, b, told) ==
  LET k == Len(v)
  IN  /\ k >= 3 /\ v[1].op = "merge_consolidate"
      /\ \A i \in 2 .. k - 2 : v[i].op \in StepRowOps
      /\ v[k - 1].op = "repoint_mentions" /\ v[k - 1].target = b
      /\ told => v[k - 1].before = Naming(B.mention, b)
      /\ v[k].op = "delete_absorbed" /\ v[k].target = b /\ v[k].before = B.node[b]

(* Two calls, edge calls, and one more.                                    *)
Closed(u, K, L) ==
  /\ Len(u) >= 3 /\ u[1] = K /\ u[2] = L
  /\ \A i \in 3 .. Len(u) - 1 : IsEdgeCall(u[i])

Returning(u, B, b) ==
  Closed(u, Call("create_entity", b, B.node[b]), Call("reassign_mentions", Naming(B.mention, b), b))

Ended(B, g, a, b) == Widened(B, g, a, b) /\ HandedOn(B, g, a, b) /\ g.node[b] = NoNode

(* Two calls, then edge calls.                                             *)
Opening(u, K, L) ==
  /\ Len(u) >= 2 /\ u[1] = K /\ u[2] = L
  /\ \A i \in 3 .. Len(u) : IsEdgeCall(u[i])

LEMMA OpeningGrows ==
  ASSUME NEW S, NEW u \in Seq(S), NEW w \in Seq(S), NEW K, NEW L, Opening(u, K, L),
         \A i \in 1 .. Len(w) : IsEdgeCall(w[i])
  PROVE  Opening(u \o w, K, L)
<1> PICK v : v = u \o w
  OBVIOUS
<1>1. /\ Len(u) \in Nat /\ Len(w) \in Nat /\ Len(v) = Len(u) + Len(w)
      /\ \A i \in 1 .. Len(u) : v[i] = u[i]
      /\ \A i \in 1 .. Len(w) : v[Len(u) + i] = w[i]
  OBVIOUS
<1>2. Len(v) >= 2 /\ v[1] = K /\ v[2] = L
  BY <1>1 DEF Opening
<1>3. ASSUME NEW i \in 3 .. Len(v) PROVE IsEdgeCall(v[i])
  <2>1. CASE i <= Len(u)
    BY <1>1, <2>1 DEF Opening
  <2>2. CASE i > Len(u)
    <3>1. i - Len(u) \in 1 .. Len(w) /\ Len(u) + (i - Len(u)) = i
      BY <1>1, <2>2
    <3> QED
      BY <1>1, <3>1
  <2> QED
    BY <1>1, <2>1, <2>2
<1> QED
  BY <1>2, <1>3 DEF Opening

LEMMA OpeningCloses ==
  ASSUME NEW S, NEW u \in Seq(S), NEW w \in Seq(S), Len(w) = 1, NEW K, NEW L, Opening(u, K, L)
  PROVE  Closed(u \o w, K, L)
<1> PICK v : v = u \o w
  OBVIOUS
<1>1. /\ Len(u) \in Nat /\ Len(v) = Len(u) + 1 /\ \A i \in 1 .. Len(u) : v[i] = u[i]
  <2>1. \A x, y \in Seq(S) : Len(x \o y) = Len(x) + Len(y) /\ \A i \in 1 .. Len(x) : (x \o y)[i] = x[i]
    OBVIOUS
  <2>2. Len(v) = Len(u) + Len(w) /\ \A i \in 1 .. Len(u) : v[i] = u[i]
    BY <2>1
  <2> QED
    BY <2>2
<1>2. Len(u) >= 2 /\ u[1] = K /\ u[2] = L /\ \A i \in 3 .. Len(u) : IsEdgeCall(u[i])
  BY DEF Opening
<1>3. 1 \in 1 .. Len(u) /\ 2 \in 1 .. Len(u) /\ Len(v) >= 3 /\ Len(v) - 1 = Len(u)
  BY <1>1, <1>2
<1>4. \A i \in 3 .. Len(u) : v[i] = u[i]
  BY <1>1
<1> QED
  BY <1>1, <1>2, <1>3, <1>4 DEF Closed

LEMMA RunningStep ==
  ASSUME NEW seqs, NEW n \in Nat, NEW f, Flattens(seqs, f, n), NEW i \in 1 .. n
  PROVE  f[i] = IF i = 1 THEN seqs[i] ELSE f[i - 1] \o seqs[i]
BY DEF Flattens

LEMMA FlattenReturns ==
  ASSUME NEW S, NEW k \in Nat, k >= 3, NEW parts \in Seq(Seq(S)), Len(parts) = k, NEW K, NEW L,
         parts[1] = <<K>>, parts[2] = <<L>>, Len(parts[k]) = 1,
         \A i \in 3 .. k - 1 : \A j \in 1 .. Len(parts[i]) : IsEdgeCall(parts[i][j])
  PROVE  Closed(FlattenSeq(parts), K, L)
<1>0. k # 0 /\ Len(parts) \in Nat
  OBVIOUS
<1>1. PICK f : Flattens(parts, f, k) /\ FlattenSeq(parts) = f[k]
  BY <1>0, FlattenIs
<1>2. \A i \in 1 .. k : parts[i] \in Seq(S)
  OBVIOUS
<1>3. f[1] = parts[1]
  <2>1. 1 \in 1 .. k
    BY <1>0
  <2> QED
    BY <1>1, <2>1, RunningStep
<1>4. f[2] = f[1] \o parts[2]
  <2>1. ASSUME NEW m \in 1 .. k, m # 1 PROVE f[m] = f[m - 1] \o parts[m]
    BY <1>1, <2>1, RunningStep, ZenonT(40)
  <2>2. 2 \in 1 .. k /\ 2 # 1 /\ 2 - 1 = 1
    BY <1>0
  <2> QED
    BY <2>1, <2>2
<1>5. f[2] = <<K, L>>
  <2>1. <<K>> \o <<L>> = <<K, L>>
    BY JoinTwo
  <2> QED
    BY <1>3, <1>4, <2>1
<1>6. K \in S /\ L \in S
  <2>1. 1 \in 1 .. k /\ 2 \in 1 .. k
    BY <1>0
  <2>2. parts[1] \in Seq(S) /\ parts[2] \in Seq(S)
    BY <1>2, <2>1
  <2>3. <<K>> \in Seq(S) /\ <<L>> \in Seq(S)
    BY <2>2
  <2>4. Head(<<K>>) \in S /\ Head(<<L>>) \in S
    BY <2>3
  <2> QED
    BY <2>4
<1> DEFINE Good(i) == f[i] \in Seq(S) /\ Opening(f[i], K, L)
           Bad == {i \in 2 .. k - 1 : ~Good(i)}
<1>7. Good(2)
  <2>1. <<K, L>> \in Seq(S)
    BY <1>6
  <2>2. Len(<<K, L>>) = 2 /\ <<K, L>>[1] = K /\ <<K, L>>[2] = L /\ ~\E i \in 3 .. 2 : TRUE
    OBVIOUS
  <2>3. Opening(<<K, L>>, K, L)
    BY <2>2 DEF Opening
  <2> QED
    BY <1>5, <2>1, <2>3
<1>8. Bad = {}
  <2> SUFFICES ASSUME Bad # {} PROVE FALSE
    OBVIOUS
  <2>1. Bad \subseteq Nat
    BY <1>0
  <2> HIDE DEF Good
  <2>2. PICK m \in Bad : \A i \in Bad : m <= i
    <3> HIDE DEF Bad
    <3> QED
      BY <2>1, LeastNat
  <2>3. m \in 2 .. k - 1 /\ ~Good(m) /\ m # 2
    BY <1>7, <2>2
  <2>4. m - 1 \in 2 .. k - 1 /\ m \in 3 .. k - 1 /\ m \in 1 .. k /\ m # 1 /\ ~(m <= m - 1)
    BY <2>3
  <2>5. Good(m - 1)
    BY <2>2, <2>4
  <2>6. f[m] = f[m - 1] \o parts[m]
    BY <1>1, <2>4, RunningStep, ZenonT(40)
  <2>7. f[m - 1] \in Seq(S) /\ Opening(f[m - 1], K, L) /\ parts[m] \in Seq(S)
    BY <1>2, <2>4, <2>5 DEF Good
  <2>8. Opening(f[m - 1] \o parts[m], K, L)
    BY <2>4, <2>7, OpeningGrows
  <2>9. f[m - 1] \o parts[m] \in Seq(S)
    <3>1. \A s, t \in Seq(S) : s \o t \in Seq(S)
      OBVIOUS
    <3> QED
      BY <2>7, <3>1
  <2>10. Good(m)
    BY <2>6, <2>8, <2>9 DEF Good
  <2> QED
    BY <2>3, <2>10
<1>9. k - 1 \in 2 .. k - 1 /\ k \in 1 .. k /\ k # 1
  BY <1>0
<1>10. f[k - 1] \in Seq(S) /\ Opening(f[k - 1], K, L) /\ f[k] = f[k - 1] \o parts[k] /\ parts[k] \in Seq(S)
  <2>1. Good(k - 1)
    <3> HIDE DEF Good
    <3> QED
      BY <1>8, <1>9
  <2>2. f[k] = f[k - 1] \o parts[k] /\ parts[k] \in Seq(S)
    BY <1>1, <1>2, <1>9, RunningStep, ZenonT(40)
  <2> QED
    BY <2>1, <2>2 DEF Good
<1>11. Closed(f[k - 1] \o parts[k], K, L)
  BY <1>10, OpeningCloses
<1> QED
  BY <1>1, <1>10, <1>11

(* What the rows of a merge say takes it back.                             *)
LEMMA StepRowInverse ==
  ASSUME NEW row, row.op \in StepRowOps, NEW j \in 1 .. Len(InverseOf(row))
  PROVE  IsEdgeCall(InverseOf(row)[j])
<1>1. CASE row.op = "repoint_relation"
  <2> PICK x, y : x = Call("delete_relation", row.after, NoImage) /\ y = Call("create_relation", row.target, row.before)
    OBVIOUS
  <2>1. InverseOf(row) = <<x, y>>
    BY <1>1 DEF InverseOf
  <2>2. IsEdgeCall(x) /\ IsEdgeCall(y)
    BY DEF IsEdgeCall, Call
  <2>3. j \in 1 .. 2
    BY <2>1
  <2>4. <<x, y>>[j] = x \/ <<x, y>>[j] = y
    BY <2>3
  <2> QED
    BY <2>1, <2>2, <2>4
<1>2. CASE row.op \in {"fold_relation", "discard_self_loop_relation"}
  <2> PICK x : x = Call("create_relation", row.target, row.before)
    OBVIOUS
  <2>1. InverseOf(row) = <<x>>
    BY <1>2 DEF InverseOf
  <2>2. IsEdgeCall(x)
    BY DEF IsEdgeCall, Call
  <2>3. j = 1
    BY <2>1
  <2> QED
    BY <2>1, <2>2, <2>3
<1> QED
  BY <1>1, <1>2 DEF StepRowOps

LEMMA RowsReturn ==
  ASSUME NEW B, NEW b, NEW v \in Seq(GoodRows), MergedRows(v, B, b, TRUE), NEW op, NEW at
  PROVE  Returning(InversePlan(Logged(op, at, v)), B, b)
<1> PICK k : k = Len(v)
  OBVIOUS
<1> DEFINE H == HighestFirst(Logged(op, at, v))
           parts == [i \in DOMAIN H |-> InverseOf(H[i].row)]
<1>1. H = Backward(op, at, v)
  BY LoggedBackward
<1>2. k \in Nat /\ DOMAIN H = 1 .. k
  BY <1>1 DEF Backward
<1>3. \A i \in 1 .. k : H[i].row = v[k + 1 - i]
  BY <1>1, <1>2 DEF Backward, Entry
<1> HIDE DEF H
<1>4. /\ DOMAIN parts = 1 .. k
      /\ \A i \in 1 .. k : parts[i] = InverseOf(v[k + 1 - i])
  BY <1>2, <1>3
<1>5. \A i \in 1 .. k : k + 1 - i \in 1 .. k /\ v[i] \in GoodRows
  BY <1>2
<1>6. \A i \in 1 .. k : parts[i] \in Seq(GoodCalls)
  BY <1>4, <1>5, InverseTyped
<1>7. parts = [i \in 1 .. k |-> parts[i]]
  BY <1>2
<1>8. InversePlan(Logged(op, at, v)) = FlattenSeq(parts)
  BY DEF InversePlan, H
<1> HIDE DEF parts
<1>9. parts \in Seq(Seq(GoodCalls)) /\ Len(parts) = k
  BY <1>2, <1>6, <1>7
<1>10. /\ k >= 3 /\ v[1].op = "merge_consolidate"
       /\ \A i \in 2 .. k - 2 : v[i].op \in StepRowOps
       /\ v[k - 1].op = "repoint_mentions" /\ v[k - 1].target = b
       /\ v[k - 1].before = Naming(B.mention, b)
       /\ v[k].op = "delete_absorbed" /\ v[k].target = b /\ v[k].before = B.node[b]
  BY DEF MergedRows
<1> PICK K, L : K = Call("create_entity", b, B.node[b]) /\ L = Call("reassign_mentions", Naming(B.mention, b), b)
  OBVIOUS
<1>11. parts[1] = <<K>>
  <2>1. 1 \in 1 .. k /\ k + 1 - 1 = k
    BY <1>2, <1>10
  <2>2. InverseOf(v[k]) = <<Call("create_entity", v[k].target, v[k].before)>>
    BY <1>10 DEF InverseOf
  <2> QED
    BY <1>4, <1>10, <2>1, <2>2
<1>12. parts[2] = <<L>>
  <2>1. 2 \in 1 .. k /\ k + 1 - 2 = k - 1
    BY <1>2, <1>10
  <2>2. InverseOf(v[k - 1]) = <<Call("reassign_mentions", v[k - 1].before, v[k - 1].target)>>
    BY <1>10 DEF InverseOf
  <2> QED
    BY <1>4, <1>10, <2>1, <2>2
<1>13. Len(parts[k]) = 1
  <2>1. k \in 1 .. k /\ k + 1 - k = 1
    BY <1>2, <1>10
  <2>2. InverseOf(v[1]) = <<Call("restore_fields", v[1].target, v[1].before)>>
    BY <1>10 DEF InverseOf
  <2> QED
    BY <1>4, <2>1, <2>2
<1>14. ASSUME NEW i \in 3 .. k - 1, NEW j \in 1 .. Len(parts[i]) PROVE IsEdgeCall(parts[i][j])
  <2>1. i \in 1 .. k /\ k + 1 - i \in 2 .. k - 2
    BY <1>2, <1>10
  <2>2. parts[i] = InverseOf(v[k + 1 - i]) /\ v[k + 1 - i].op \in StepRowOps
    BY <1>4, <1>10, <2>1
  <2> QED
    BY <2>2, StepRowInverse
<1>15. Closed(FlattenSeq(parts), K, L)
  <2>1. k \in Nat /\ k >= 3 /\ parts \in Seq(Seq(GoodCalls)) /\ Len(parts) = k
    BY <1>2, <1>9, <1>10
  <2>2. \A i \in 3 .. k - 1 : \A j \in 1 .. Len(parts[i]) : IsEdgeCall(parts[i][j])
    BY <1>14
  <2> QED
    BY <1>11, <1>12, <1>13, <2>1, <2>2, FlattenReturns
<1> QED
  BY <1>8, <1>15 DEF Returning
LEMMA ToldMerged ==
  ASSUME NEW B, NEW b, NEW v \in Seq(GoodRows), MergedRows(v, B, b, FALSE), NEW ids, ids = Naming(B.mention, b)
  PROVE  MergedRows(Telling(v, ids), B, b, TRUE)
<1> PICK k : k = Len(v)
  OBVIOUS
<1> PICK w : w = Telling(v, ids)
  OBVIOUS
<1>1. k \in Nat /\ DOMAIN v = 1 .. k
  OBVIOUS
<1>2. w = [i \in 1 .. k |-> IF v[i].op = "repoint_mentions" THEN [v[i] EXCEPT !.before = ids] ELSE v[i]]
  BY <1>1 DEF Telling
<1>3. Len(w) = k
  <2> DEFINE T == {w[i] : i \in 1 .. k}
  <2>1. w \in [1 .. k -> T]
    BY <1>2
  <2> HIDE DEF T
  <2> QED
    BY <1>1, <2>1
<1>4. /\ k >= 3 /\ v[1].op = "merge_consolidate"
      /\ \A i \in 2 .. k - 2 : v[i].op \in StepRowOps
      /\ v[k - 1].op = "repoint_mentions" /\ v[k - 1].target = b
      /\ v[k].op = "delete_absorbed" /\ v[k].target = b /\ v[k].before = B.node[b]
  BY DEF MergedRows
<1>5. 1 \in 1 .. k /\ k - 1 \in 1 .. k /\ k \in 1 .. k /\ \A i \in 2 .. k - 2 : i \in 1 .. k
  BY <1>1, <1>4
<1>6. \A i \in 1 .. k : v[i].op # "repoint_mentions" => w[i] = v[i]
  BY <1>2
<1>7. w[1] = v[1] /\ w[k] = v[k]
  BY <1>4, <1>5, <1>6
<1>8. \A i \in 2 .. k - 2 : w[i].op \in StepRowOps
  BY <1>4, <1>5, <1>6 DEF StepRowOps
<1>9. w[k - 1].op = "repoint_mentions" /\ w[k - 1].target = b /\ w[k - 1].before = ids
  <2> PICK y : y = v[k - 1]
    OBVIOUS
  <2>1. w[k - 1] = [y EXCEPT !.before = ids]
    BY <1>2, <1>4, <1>5
  <2>2. y \in GoodRows /\ y.op = "repoint_mentions" /\ y.target = b
    BY <1>1, <1>4, <1>5
  <2>3. y \in [op : {"repoint_mentions"}, target : Entities, before : SUBSET MentionIds, after : {NoImage}]
    BY <2>2, SMTT(30) DEF GoodRows
  <2> QED
    BY <2>1, <2>2, <2>3
<1>10. MergedRows(w, B, b, TRUE)
  BY <1>3, <1>4, <1>7, <1>8, <1>9 DEF MergedRows
<1> QED
  BY <1>10

LEMMA RowsGo ==
  ASSUME NEW B, NEW g, NEW a, NEW b, NEW S, NEW cs \in Seq(S), cs # <<>>, Merging(cs, B, g, a, b),
         NEW v \in Seq(GoodRows), MergedRows(v, B, b, Len(cs) <= 1),
         NEW c, c = Head(cs), NEW u, u = Tail(cs)
  PROVE  MergedRows(RowsAfter(c, g, v), B, b, Len(u) <= 1) /\ c.do # "relabel_entity_type"
<1> PICK n : n = Len(cs)
  OBVIOUS
<1>1. n \in Nat /\ n # 0 /\ cs[1] = c /\ Len(u) = n - 1
  OBVIOUS
<1>2. CASE c.do \notin {"repoint_mentions", "relabel_entity_type"} /\ (n - 1 <= 1 => n <= 1)
  <2>1. RowsAfter(c, g, v) = v
    BY <1>2 DEF RowsAfter
  <2>2. Len(u) <= 1 => Len(cs) <= 1
    BY <1>1, <1>2
  <2> QED
    BY <1>2, <2>1, <2>2 DEF MergedRows
<1>3. CASE n = 2 /\ Unmoved(B, g, b) /\ c = Call("repoint_mentions", b, a)
  <2>1. c.do = "repoint_mentions" /\ c.on = b /\ g.mention = B.mention
    BY <1>3 DEF Call, Unmoved
  <2>2. RowsAfter(c, g, v) = Telling(v, Naming(B.mention, b))
    BY <2>1 DEF RowsAfter
  <2>3. MergedRows(v, B, b, FALSE)
    BY DEF MergedRows
  <2>4. MergedRows(Telling(v, Naming(B.mention, b)), B, b, TRUE)
    BY <2>3, ToldMerged
  <2> QED
    BY <2>1, <2>2, <2>4 DEF MergedRows
<1>4. CASE n >= 3
  <2>1. c.do = "update_entity" \/ IsEdgeCall(c)
    <3>1. 1 \in 1 .. n - 2
      BY <1>1, <1>4
    <3> QED
      BY <1>1, <1>4, <3>1 DEF Merging
  <2>2. c.do \notin {"repoint_mentions", "relabel_entity_type"}
    BY <2>1 DEF IsEdgeCall
  <2> QED
    BY <1>1, <1>2, <1>4, <2>2
<1>5. CASE n = 2
  <2>1. 2 - 1 = 1
    OBVIOUS
  <2>2. Unmoved(B, g, b) /\ cs[n - 1] = Call("repoint_mentions", b, a)
    BY <1>5 DEF Merging
  <2> QED
    BY <1>1, <1>3, <1>5, <2>1, <2>2
<1>6. CASE n = 1
  <2>1. c = Call("delete_entity", b, NoImage)
    BY <1>1, <1>6 DEF Merging
  <2>2. c.do = "delete_entity"
    BY <2>1 DEF Call
  <2> QED
    BY <1>1, <1>2, <1>6, <2>2
<1> QED
  BY <1>1, <1>4, <1>5, <1>6

-----------------------------------------------------------------------------
(* A merge begins *)

RelationCalls == {c \in GoodCalls : IsEdgeCall(c)}

LEMMA StepCallsAreEdgeCalls ==
  ASSUME GraphTyped, NEW old \in Triples, NEW new \in Triples, HasEdge(old)
  PROVE  MergeStepCalls(old, new) \in Seq(RelationCalls) /\ MergeStepRow(old, new) \in {w \in GoodRows : w.op \in StepRowOps}
<1>1. edge[old] \in Handles
  BY DEF GraphTyped, HasEdge
<1>2. Call("delete_relation", old, NoImage) \in RelationCalls /\ Call("create_relation", new, edge[old]) \in RelationCalls
  <2>1. Call("delete_relation", old, NoImage) \in GoodCalls /\ Call("create_relation", new, edge[old]) \in GoodCalls
    BY <1>1, MakeCall
  <2>2. IsEdgeCall(Call("delete_relation", old, NoImage)) /\ IsEdgeCall(Call("create_relation", new, edge[old]))
    BY DEF IsEdgeCall, Call
  <2> QED
    BY <2>1, <2>2 DEF RelationCalls
<1>3. <<Call("delete_relation", old, NoImage)>> \in Seq(RelationCalls)
      /\ <<Call("create_relation", new, edge[old])>> \in Seq(RelationCalls) /\ <<>> \in Seq(RelationCalls)
  BY <1>2, Tuples
<1>4. \A s, u \in Seq(RelationCalls) : s \o u \in Seq(RelationCalls)
  OBVIOUS
<1>5. MergeStepCalls(old, new) \in Seq(RelationCalls)
  BY <1>3, <1>4 DEF MergeStepCalls
<1>6. MergeStepRow(old, new) \in GoodRows
  BY MergeStepSafe DEF Modest
<1>7. MergeStepRow(old, new).op \in StepRowOps
  BY DEF MergeStepRow, RekeyRow, Row, StepRowOps
<1> QED
  BY <1>5, <1>6, <1>7

LEMMA SurvivorIsWider ==
  ASSUME GraphTyped, NEW a \in Entities, NEW b \in Entities, Exists(a), Exists(b),
         NEW kept \in Values \cup {NoValue}, NEW x, x = Consolidated(a, b, kept)
  PROVE  SurfaceForms(Graph, a) \cup SurfaceForms(Graph, b) \subseteq {x.name} \cup x.aliases
<1>1. node[a] \in Node /\ node[b] \in Node
  BY DEF GraphTyped, Exists
<1>2. x.name = node[a].name
      /\ x.aliases = (node[a].aliases \cup node[b].aliases \cup {node[b].name}) \ {node[a].name}
  BY <1>1 DEF Consolidated, Node
<1> QED
  BY <1>2 DEF SurfaceForms, Graph

LEMMA MergingBegins ==
  ASSUME NEW B, NEW a, NEW b, NEW f \in Seq(RelationCalls), NEW x, x # NoNode,
         SurfaceForms(B, a) \cup SurfaceForms(B, b) \subseteq {x.name} \cup x.aliases,
         NEW cs, cs = <<Call("update_entity", a, x)>> \o f
                        \o <<Call("repoint_mentions", b, a), Call("delete_entity", b, NoImage)>>
  PROVE  Merging(cs, B, B, a, b) /\ Len(cs) >= 3
<1> PICK m : m = Len(f)
  OBVIOUS
<1>1. /\ m \in Nat /\ Len(cs) = m + 3
      /\ cs[1] = Call("update_entity", a, x) /\ cs[m + 2] = Call("repoint_mentions", b, a)
      /\ cs[m + 3] = Call("delete_entity", b, NoImage)
      /\ \A k \in 2 .. m + 1 : cs[k] \in RelationCalls
  BY Sandwich
<1>2. cs[1].do = "update_entity" /\ cs[1].on = a /\ cs[1].with = x
  BY <1>1 DEF Call
<1>3. m + 3 >= 3 /\ (m + 3) - 2 = m + 1 /\ (m + 3) - 1 = m + 2
  BY <1>1
<1>4. \A i \in 2 .. m + 1 : IsEdgeCall(cs[i])
  BY <1>1 DEF RelationCalls
<1> QED
  BY <1>1, <1>2, <1>3, <1>4 DEF Merging, Unmoved

LEMMA MergedBegins ==
  ASSUME NEW B, NEW b, NEW T, \A w \in T : w.op \in StepRowOps, NEW f \in Seq(T),
         NEW x, x.op = "merge_consolidate", NEW n, n = B.node[b], NEW v,
         v = <<x>> \o f \o <<Row("repoint_mentions", b, {}, NoImage), Row("delete_absorbed", b, n, NoImage)>>
  PROVE  MergedRows(v, B, b, FALSE)
<1> PICK m : m = Len(f)
  OBVIOUS
<1>1. /\ m \in Nat /\ Len(v) = m + 3
      /\ v[1] = x /\ v[m + 2] = Row("repoint_mentions", b, {}, NoImage)
      /\ v[m + 3] = Row("delete_absorbed", b, n, NoImage)
      /\ \A k \in 2 .. m + 1 : v[k] \in T
  BY Sandwich
<1>2. /\ v[m + 2].op = "repoint_mentions" /\ v[m + 2].target = b
      /\ v[m + 3].op = "delete_absorbed" /\ v[m + 3].target = b /\ v[m + 3].before = n
  BY <1>1 DEF Row
<1>3. m + 3 >= 3 /\ (m + 3) - 2 = m + 1 /\ (m + 3) - 1 = m + 2
  BY <1>1
<1> QED
  BY <1>1, <1>2, <1>3 DEF MergedRows

LEMMA MergeBegins ==
  ASSUME GraphTyped, NEW r \in Requests, NEW b \in Entities, NEW a \in Entities,
         NEW kept \in Values \cup {NoValue}, MergeEntities(r, b, a, kept)
  PROVE  /\ Plausible(Graph, a, b)
         /\ \E calls, rows : /\ Begin(r, calls, <<"merge", b, a>>, rows)
                             /\ Merging(calls, Graph, Graph, a, b)
                             /\ MergedRows(rows, Graph, b, Len(calls) <= 1)
<1> DEFINE S == SetToSeq(Incident(b))
           survivor == Consolidated(a, b, kept)
           parts == [i \in DOMAIN S |-> MergeStepCalls(S[i], Swapped(S[i], a, b))]
           steps == [i \in DOMAIN S |-> MergeStepRow(S[i], Swapped(S[i], a, b))]
           calls == <<Call("update_entity", a, survivor)>> \o FlattenSeq(parts)
                      \o <<Call("repoint_mentions", b, a), Call("delete_entity", b, NoImage)>>
           first == Row("merge_consolidate", a, Images(node[a]), Images(survivor))
           rows == <<first>> \o steps
                     \o <<Row("repoint_mentions", b, {}, NoImage), Row("delete_absorbed", b, node[b], NoImage)>>
           T == {w \in GoodRows : w.op \in StepRowOps}
<1>1. Begin(r, calls, <<"merge", b, a>>, rows) /\ Exists(a) /\ Exists(b) /\ a # b
  BY DEF MergeEntities
<1>2. survivor # NoNode /\ SurfaceForms(Graph, a) \cup SurfaceForms(Graph, b) \subseteq {survivor.name} \cup survivor.aliases
  BY <1>1, SurvivorBack, SurvivorIsWider
<1>3. Incident(b) \subseteq Triples /\ IsFiniteSet(Incident(b)) /\ \A t \in Incident(b) : HasEdge(t)
  <2>1. Incident(b) \subseteq Triples /\ \A t \in Incident(b) : HasEdge(t)
    BY DEF Incident
  <2> QED
    BY <2>1, FiniteStores, FS_Subset
<1>4. S \in Seq(Incident(b)) /\ Len(S) \in Nat /\ DOMAIN S = 1 .. Len(S)
  BY <1>3, SetToSeqIs
<1> HIDE DEF S
<1>5. ASSUME NEW i \in DOMAIN S
      PROVE  MergeStepCalls(S[i], Swapped(S[i], a, b)) \in Seq(RelationCalls)
             /\ MergeStepRow(S[i], Swapped(S[i], a, b)) \in T
  <2>1. S[i] \in Triples /\ HasEdge(S[i])
    BY <1>3, <1>4
  <2>2. Swapped(S[i], a, b) \in Triples
    BY <2>1 DEF Swapped, Triples
  <2> QED
    BY <2>1, <2>2, StepCallsAreEdgeCalls
<1> HIDE DEF T
<1>6. parts \in Seq(Seq(RelationCalls)) /\ steps \in Seq(T)
  BY <1>4, <1>5
<1> HIDE DEF parts, steps, survivor
<1>7. FlattenSeq(parts) \in Seq(RelationCalls)
  BY <1>6, FlattenType
<1>8. Merging(calls, Graph, Graph, a, b) /\ Len(calls) >= 3
  BY <1>2, <1>7, MergingBegins
<1>9. MergedRows(rows, Graph, b, FALSE)
  <2>1. first.op = "merge_consolidate" /\ node[b] = Graph.node[b]
    BY DEF Row, Graph
  <2>2. \A w \in T : w.op \in StepRowOps
    BY DEF T
  <2> HIDE DEF first
  <2> QED
    BY <1>6, <2>1, <2>2, MergedBegins
<1> HIDE DEF calls, rows
<1>10. MergedRows(rows, Graph, b, Len(calls) <= 1)
  <2>1. ~(Len(calls) <= 1)
    <3> PICK n : n = Len(calls)
      OBVIOUS
    <3>1. n \in Int => ~(n <= 1)
      BY <1>8
    <3> QED
      BY <1>8
  <2> QED
    BY <1>9, <2>1 DEF MergedRows
<1>11. Plausible(Graph, a, b)
  BY <1>1 DEF Plausible, Graph, Exists, GraphTyped
<1> QED
  BY <1>1, <1>8, <1>10, <1>11
-----------------------------------------------------------------------------
(* The merges on the stack *)

(* A merge op that was begun on B led to y, and what the log g has of it   *)
(* takes it back call by call.                                             *)
Retraceable(op, g, B, y) ==
  op[1][1] = "merge" =>
    /\ Plausible(B, op[1][3], op[1][2])
    /\ Ended(B, y, op[1][3], op[1][2])
    /\ Returning(InversePlan(OfOp(g, op)), B, op[1][2])

Retraced(t, g, x) ==
  \A i \in 1 .. Len(t) :
    Retraceable(t[i].op, g, t[i].before, IF i = Len(t) THEN x ELSE t[i + 1].before)

LEMMA NothingToRetrace ==
  ASSUME NEW g, NEW x
  PROVE  Retraced(<<>>, g, x)
<1>1. Len(<<>>) = 0 /\ \A i \in 1 .. 0 : FALSE
  OBVIOUS
<1> QED
  BY <1>1 DEF Retraced

(* What is logged of another operation, or marked of the one on top, is    *)
(* not of those below.                                                     *)
LogsAgree(t, g, h, I) == \A i \in I : OfOp(h, t[i].op) = OfOp(g, t[i].op)

LEMMA OthersStay ==
  ASSUME NEW t, NEW g, NEW x, Stacked(t, g, x), NEW op, OfOp(g, op) = {},
         NEW new, \A l \in new : l.op = op, NEW h, h = g \cup new
  PROVE  LogsAgree(t, g, h, 1 .. Len(t))
<1> SUFFICES ASSUME NEW i \in 1 .. Len(t) PROVE OfOp(h, t[i].op) = OfOp(g, t[i].op)
  BY DEF LogsAgree
<1>1. PICK l \in g : l.op = t[i].op
  BY StackHas DEF Stacked
<1>2. t[i].op # op
  BY <1>1 DEF OfOp
<1> QED
  BY <1>2 DEF OfOp

AllRows(g) ==
  \A l \in g : /\ l.undone \in BOOLEAN
               /\ l = [op |-> l.op, seq |-> l.seq, at |-> l.at, undone |-> l.undone, row |-> l.row]

MarkedIn(g, op) == {Marked(l, op) : l \in g}

LEMMA OthersUnmarked ==
  ASSUME NEW t, NEW g, NEW x, Stacked(t, g, x), AllRows(g), NEW h, h = MarkedIn(g, Last(t).op)
  PROVE  LogsAgree(t, g, h, (1 .. Len(t)) \ {Len(t)})
<1> PICK n : n = Len(t)
  OBVIOUS
<1> PICK op : op = t[n].op
  OBVIOUS
<1>0. h = {Marked(l, op) : l \in g}
  BY DEF MarkedIn, Last
<1> SUFFICES ASSUME NEW i \in 1 .. n, i # n PROVE OfOp(h, t[i].op) = OfOp(g, t[i].op)
  BY DEF LogsAgree
<1> PICK at, rows : Linked(t, g, x, at, rows)
  BY DEF Stacked
<1>1. PICK S : t \in Seq(S)
  BY DEF Linked
<1>2. n \in Nat /\ n \in 1 .. n /\ i \in 1 .. Len(t) /\ n \in 1 .. Len(t) /\ i < n
  BY <1>1
<1>3. at[i] \in Nat /\ at[n] \in Nat /\ at[i] < at[n]
  BY <1>2 DEF Linked
<1>4. PICK k \in g : k.op = t[i].op /\ k.at = at[i]
  BY <1>2, StackHas
<1>5. k.op = op => k.at = at[n]
  BY <1>2, StackHas
<1>6. t[i].op # op
  BY <1>3, <1>4, <1>5
<1>7. \A l \in g : Marked(l, op).op = l.op /\ (l.op # op => Marked(l, op) = l)
  BY MarkedIs DEF AllRows
<1>8. \A l \in h : l.op = t[i].op => l \in g
  BY <1>0, <1>6, <1>7
<1>9. \A l \in g : l.op = t[i].op => l \in h
  BY <1>0, <1>6, <1>7
<1> QED
  BY <1>8, <1>9 DEF OfOp

LEMMA OnePast ==
  \A n \in Nat : /\ \A i \in 1 .. n : i # n + 1
                 /\ \A i \in 1 .. n + 1 : i # n + 1 => i \in 1 .. n
  OBVIOUS

LEMMA RetracedGrows ==
  ASSUME NEW t, NEW g, NEW x, Retraced(t, g, x), \E S : t \in Seq(S),
         NEW s, s.before = x, NEW u, u = Append(t, s),
         NEW h, LogsAgree(t, g, h, 1 .. Len(t)),
         NEW y, Retraceable(s.op, h, x, y)
  PROVE  Retraced(u, h, y)
<1>1. PICK S : t \in Seq(S)
  OBVIOUS
<1> PICK n : n = Len(t)
  OBVIOUS
<1>2. n \in Nat /\ Len(u) = n + 1 /\ u[n + 1] = s /\ \A i \in 1 .. n : u[i] = t[i]
  <2>1. t \in Seq(S \cup {s})
    BY <1>1
  <2> QED
    BY <2>1
<1>3. ASSUME NEW i \in 1 .. n PROVE Retraceable(u[i].op, h, u[i].before, u[i + 1].before)
  <2>1. Retraceable(t[i].op, g, t[i].before, IF i = n THEN x ELSE t[i + 1].before)
    BY DEF Retraced
  <2>2. u[i + 1].before = IF i = n THEN x ELSE t[i + 1].before
    BY <1>2
  <2>3. OfOp(h, t[i].op) = OfOp(g, t[i].op) /\ u[i] = t[i]
    BY <1>2 DEF LogsAgree
  <2> QED
    BY <2>1, <2>2, <2>3 DEF Retraceable
<1>4. Retraceable(u[n + 1].op, h, u[n + 1].before, y)
  BY <1>2
<1>5. ASSUME NEW i \in 1 .. n + 1, i # n + 1 PROVE i \in 1 .. n
  BY <1>2, <1>5, OnePast
<1>6. \A i \in 1 .. n : i # n + 1
  BY <1>2, OnePast
<1>7. ASSUME NEW i \in 1 .. n + 1
      PROVE  Retraceable(u[i].op, h, u[i].before, IF i = n + 1 THEN y ELSE u[i + 1].before)
  <2>1. CASE i = n + 1
    BY <1>4, <2>1
  <2>2. CASE i # n + 1
    <3>1. i \in 1 .. n
      BY <1>5, <2>2
    <3> QED
      BY <1>3, <2>2, <3>1
  <2> QED
    BY <2>1, <2>2
<1> QED
  BY <1>2, <1>7 DEF Retraced

LEMMA RetracedShrinks ==
  ASSUME NEW t, NEW g, NEW x, Retraced(t, g, x), \E S : t \in Seq(S), t # <<>>,
         NEW u, u = Front(t),
         NEW h, LogsAgree(t, g, h, (1 .. Len(t)) \ {Len(t)})
  PROVE  Retraced(u, h, Last(t).before)
<1>1. PICK S : t \in Seq(S)
  OBVIOUS
<1> PICK n : n = Len(t)
  OBVIOUS
<1> PICK m : m = n - 1
  OBVIOUS
<1>2. n \in Nat /\ n # 0 /\ m \in Nat /\ m + 1 = n /\ Last(t) = t[n]
  BY <1>1 DEF Last
<1>3. Len(u) = m /\ \A i \in 1 .. m : i \in 1 .. n /\ i # n /\ u[i] = t[i]
  <2>1. u = [i \in 1 .. m |-> t[i]]
    BY <1>2 DEF Front, SubSeq
  <2>2. \A i \in 1 .. m : i \in 1 .. n /\ i # n /\ t[i] \in S
    BY <1>1, <1>2
  <2>3. u \in [1 .. m -> S] /\ \A i \in 1 .. m : u[i] = t[i]
    BY <2>1, <2>2
  <2> QED
    BY <1>2, <2>2, <2>3
<1>4. ASSUME NEW i \in 1 .. m
      PROVE  Retraceable(u[i].op, h, u[i].before, IF i = m THEN Last(t).before ELSE u[i + 1].before)
  <2>1. Retraceable(t[i].op, g, t[i].before, IF i = n THEN x ELSE t[i + 1].before)
    BY <1>3 DEF Retraced
  <2>2. (IF i = m THEN Last(t).before ELSE u[i + 1].before) = IF i = n THEN x ELSE t[i + 1].before
    <3>1. i # n /\ i \in 1 .. m /\ m \in Nat /\ m + 1 = n
      BY <1>2, <1>3
    <3>2. i = m => Last(t).before = t[i + 1].before
      BY <1>2, <3>1
    <3>3. ASSUME i # m PROVE u[i + 1] = t[i + 1]
      <4>1. i + 1 \in 1 .. m
        BY <3>1, <3>3
      <4> QED
        BY <1>3, <4>1
    <3> QED
      BY <3>1, <3>2, <3>3
  <2>3. OfOp(h, t[i].op) = OfOp(g, t[i].op) /\ u[i] = t[i]
    BY <1>3 DEF LogsAgree
  <2> QED
    BY <2>1, <2>2, <2>3 DEF Retraceable
<1> QED
  BY <1>3, <1>4 DEF Retraced

-----------------------------------------------------------------------------
(* The merge in flight *)

EditRetraced(q, gr, g, t) ==
  /\ Retraced(t, g, q.before)
  /\ q.seed[1] = "merge" =>
       /\ Plausible(q.before, q.seed[3], q.seed[2])
       /\ Merging(q.calls, q.before, gr, q.seed[3], q.seed[2])
       /\ MergedRows(q.rows, q.before, q.seed[2], Len(q.calls) <= 1)
  /\ q.op # NoOp /\ q.op[1][1] = "merge" => q.op[1] = q.seed

UndoRetraced(q, gr, g, t) ==
  /\ \E x : Retraced(t, g, x)
  /\ t # <<>> /\ q.op[1][1] = "merge" =>
       /\ Plausible(Last(t).before, q.op[1][3], q.op[1][2])
       /\ Unmerging(q.calls, Last(t).before, gr, q.op[1][3], q.op[1][2])

Retracing(q, gr, g, t) ==
  /\ q = Idle => Retraced(t, g, gr)
  /\ q.kind = "edit" => EditRetraced(q, gr, g, t)
  /\ q.kind = "undo" => UndoRetraced(q, gr, g, t)

MergesRetraced(r) == Retracing(req[r], Graph, log, trail)

LEMMA OperationSeeds ==
  ASSUME GraphTyped, NEW r \in Requests, Operation(r)
  PROVE  \E calls, seed, rows :
           /\ Begin(r, calls, seed, rows)
           /\ seed[1] = "merge" =>
                /\ Plausible(Graph, seed[3], seed[2])
                /\ Merging(calls, Graph, Graph, seed[3], seed[2])
                /\ MergedRows(rows, Graph, seed[2], Len(calls) <= 1)
<1> DEFINE Seeded ==
      \E calls, seed, rows :
        /\ Begin(r, calls, seed, rows)
        /\ seed[1] = "merge" =>
             /\ Plausible(Graph, seed[3], seed[2])
             /\ Merging(calls, Graph, Graph, seed[3], seed[2])
             /\ MergedRows(rows, Graph, seed[2], Len(calls) <= 1)
<1>0. ASSUME NEW calls, NEW seed, NEW rows, Begin(r, calls, seed, rows), seed[1] # "merge"
      PROVE  Seeded
  BY <1>0
<1>1. ASSUME NEW b \in Entities, NEW a \in Entities, NEW kept \in Values \cup {NoValue}, MergeEntities(r, b, a, kept)
      PROVE  Seeded
  <2>1. /\ Plausible(Graph, a, b)
        /\ \E calls, rows : /\ Begin(r, calls, <<"merge", b, a>>, rows)
                            /\ Merging(calls, Graph, Graph, a, b)
                            /\ MergedRows(rows, Graph, b, Len(calls) <= 1)
    BY <1>1, MergeBegins
  <2>2. PICK calls, rows : /\ Begin(r, calls, <<"merge", b, a>>, rows)
                           /\ Merging(calls, Graph, Graph, a, b)
                           /\ MergedRows(rows, Graph, b, Len(calls) <= 1)
    BY <2>1
  <2> PICK seed : seed = <<"merge", b, a>>
    OBVIOUS
  <2>3. seed[2] = b /\ seed[3] = a
    OBVIOUS
  <2>4. Begin(r, calls, seed, rows)
    BY <2>2
  <2> QED
    BY <2>1, <2>2, <2>3, <2>4
<1> HIDE DEF Seeded
<1>2. ASSUME NEW e, NEW patch, EditEntity(r, e, patch) PROVE Seeded
  BY <1>0, <1>2 DEF EditEntity, Single
<1>3. ASSUME NEW t, AddRelation(r, t) \/ RemoveRelation(r, t) PROVE Seeded
  BY <1>0, <1>3 DEF AddRelation, RemoveRelation, Single
<1>4. ASSUME NEW old, NEW new, RetargetRelation(r, old, new) PROVE Seeded
  BY <1>0, <1>4 DEF RetargetRelation
<1>5. ASSUME NEW p, NEW q, RenamePredicate(r, p, q) PROVE Seeded
  BY <1>0, <1>5 DEF RenamePredicate
<1>6. ASSUME NEW from, NEW to, RelabelEntityType(r, from, to) PROVE Seeded
  BY <1>0, <1>6 DEF RelabelEntityType
<1>7. ASSUME NEW e, DeleteEntity(r, e) PROVE Seeded
  BY <1>0, <1>7 DEF DeleteEntity
<1>8. ASSUME NEW x, NEW y, TagExisting(r, x, y) \/ TagNewEntity(r, x, y) \/ SuppressOccurrence(r, x, y)
                           \/ MoveBoundaries(r, x, y)
      PROVE  Seeded
  BY <1>0, <1>8 DEF TagExisting, TagNewEntity, SuppressOccurrence, MoveBoundaries, Single
<1>9. ASSUME NEW x, NEW y, NEW z, RetagOccurrence(r, x, y, z) \/ MaterializeBoundaries(r, x, y, z)
      PROVE  Seeded
  BY <1>0, <1>9 DEF RetagOccurrence, MaterializeBoundaries
<1>10. Seeded
  BY <1>1, <1>2, <1>3, <1>4, <1>5, <1>6, <1>7, <1>8, <1>9 DEF Operation
<1> QED
  BY <1>10 DEF Seeded
LEMMA EditRetraces ==
  ASSUME NEW q, NEW gr, NEW g, NEW t, EditRetraced(q, gr, g, t), q.calls # <<>>, NEW S, q.calls \in Seq(S),
         q.rows \in Seq(GoodRows), q.op = NoOp, gr.node \in [Entities -> Node \cup {NoNode}],
         NEW c, c = Head(q.calls), NEW p, p.calls = Tail(q.calls), p.op = q.op, p.seed = q.seed,
         p.before = q.before, p.rows = RowsAfter(c, gr, q.rows), NEW h, h = After(c, gr)
  PROVE  EditRetraced(p, h, g, t)
<1>1. ASSUME q.seed[1] = "merge"
      PROVE  /\ Plausible(q.before, q.seed[3], q.seed[2])
             /\ Merging(p.calls, q.before, h, q.seed[3], q.seed[2])
             /\ MergedRows(p.rows, q.before, q.seed[2], Len(p.calls) <= 1)
  <2> PICK B, a, b : B = q.before /\ a = q.seed[3] /\ b = q.seed[2]
    OBVIOUS
  <2> PICK cs, v : cs = q.calls /\ v = q.rows
    OBVIOUS
  <2>1. Plausible(B, a, b) /\ Merging(cs, B, gr, a, b) /\ MergedRows(v, B, b, Len(cs) <= 1)
    BY <1>1 DEF EditRetraced
  <2>2. Merging(Tail(cs), B, h, a, b)
    BY <2>1, MergingGoes
  <2>3. MergedRows(RowsAfter(c, gr, v), B, b, Len(p.calls) <= 1)
    BY <2>1, RowsGo
  <2> QED
    BY <2>1, <2>2, <2>3
<1> QED
  BY <1>1 DEF EditRetraced

LEMMA UndoRetraces ==
  ASSUME NEW q, NEW gr, NEW g, NEW t, UndoRetraced(q, gr, g, t), q.calls # <<>>, NEW S, q.calls \in Seq(S),
         gr.node \in [Entities -> Node \cup {NoNode}],
         NEW c, c = Head(q.calls), NEW p, p.calls = Tail(q.calls), p.op = q.op, NEW h, h = After(c, gr)
  PROVE  UndoRetraced(p, h, g, t)
<1>1. ASSUME t # <<>>, q.op[1][1] = "merge"
      PROVE  /\ Plausible(Last(t).before, q.op[1][3], q.op[1][2])
             /\ Unmerging(p.calls, Last(t).before, h, q.op[1][3], q.op[1][2])
  <2> PICK B, a, b : B = Last(t).before /\ a = q.op[1][3] /\ b = q.op[1][2]
    OBVIOUS
  <2> PICK cs : cs = q.calls
    OBVIOUS
  <2>1. Plausible(B, a, b) /\ Unmerging(cs, B, gr, a, b)
    BY <1>1 DEF UndoRetraced
  <2>2. Unmerging(Tail(cs), B, h, a, b)
    BY <2>1, UnmergingGoes
  <2> QED
    BY <2>1, <2>2
<1> QED
  BY <1>1 DEF UndoRetraced

(* Every step keeps it.                                                    *)
LEMMA BeginRetraces ==
  ASSUME NEW slot \in Requests, ReqShape, GraphTyped, MergesRetraced(slot), Operation(slot)
  PROVE  MergesRetraced(slot)'
<1>1. PICK calls, seed, rows :
        /\ Begin(slot, calls, seed, rows)
        /\ seed[1] = "merge" =>
             /\ Plausible(Graph, seed[3], seed[2])
             /\ Merging(calls, Graph, Graph, seed[3], seed[2])
             /\ MergedRows(rows, Graph, seed[2], Len(calls) <= 1)
  BY OperationSeeds
<1>2. req[slot] = Idle /\ UNCHANGED <<node, edge, mention, hidden>>
  BY OperationTouches DEF Operation
<1>3. UNCHANGED <<log, trail>> /\ Graph' = Graph
  BY <1>1, <1>2 DEF Begin, Graph
<1> PICK q : q = Edit(calls, seed, rows, NoOp, 0, Graph)
  OBVIOUS
<1>4. req'[slot] = q
  BY <1>1 DEF Begin, Edit, ReqShape
<1>5. /\ q.kind = "edit" /\ q.calls = calls /\ q.seed = seed /\ q.rows = rows
      /\ q.op = NoOp /\ q.before = Graph /\ q # Idle
  BY DEF Edit, Idle
<1>6. Retraced(trail, log, Graph)
  BY <1>2 DEF MergesRetraced, Retracing
<1>7. EditRetraced(q, Graph, log, trail)
  BY <1>1, <1>5, <1>6 DEF EditRetraced
<1>8. Retracing(q, Graph', log', trail')
  BY <1>3, <1>5, <1>7 DEF Retracing
<1> QED
  BY <1>4, <1>8 DEF MergesRetraced

LEMMA CallRetraces ==
  ASSUME NEW slot \in Requests, ReqShape, GraphTyped, ReqTyped, ReqSafe(slot), Reversible(slot),
         MergesRetraced(slot), StoreCall(slot)
  PROVE  MergesRetraced(slot)'
<1> PICK q : q = req[slot]
  OBVIOUS
<1> PICK p : p = req'[slot]
  OBVIOUS
<1> PICK c : c = Head(q.calls)
  BY SMTT(30)
<1>1. q # Idle /\ q.calls # <<>>
  BY DEF StoreCall, CreateEntity, UpdateEntity, RestoreFields, DeleteNode, RelabelType, CreateRelation,
     DeleteRelation, AddMention, DeleteMention, UpdateMentionSpan, DeleteMentionsOf, ReassignMentions,
     RepointMentions, AddSuppression, DeleteSuppression, Calls
<1>2. UNCHANGED <<log, trail>>
  BY DEF StoreCall, CreateEntity, UpdateEntity, RestoreFields, DeleteNode, RelabelType, CreateRelation,
     DeleteRelation, AddMention, DeleteMention, UpdateMentionSpan, DeleteMentionsOf, ReassignMentions,
     RepointMentions, AddSuppression, DeleteSuppression, Bookkeeping
<1>3. Graph' = After(c, Graph)
  BY CallIs
<1>4. \/ /\ p.kind = q.kind /\ p.calls = Tail(q.calls) /\ p.op = q.op
         /\ IsEdit(q) => p.seed = q.seed /\ p.before = q.before /\ p.rows = RowsAfter(c, Graph, q.rows)
         /\ c.do = "relabel_entity_type" => OfType(node, c.on) # {}
      \/ p = Idle /\ c.do = "relabel_entity_type" /\ OfType(node, c.on) = {}
  BY CallMoves DEF ReqShape
<1>5. q.calls \in Seq(GoodCalls) /\ Graph.node = node /\ Idle.kind = "idle"
      /\ node \in [Entities -> Node \cup {NoNode}]
  BY <1>1 DEF ReqTyped, GoodReq, Graph, Idle, GraphTyped
<1>6. CASE IsEdit(q)
  <2>1. q.kind = "edit" /\ q.rows \in Seq(GoodRows)
    BY <1>6, EditIsEdit DEF ReqTyped, GoodReq
  <2>2. c.do = "relabel_entity_type" => q.seed[1] = "relabel"
    <3>1. 1 \in 1 .. Len(q.calls) /\ c = q.calls[1]
      BY <1>1, <1>5
    <3> QED
      BY <2>1, <3>1 DEF ReqSafe
  <2>3. EditReady(q, Graph, log, trail) /\ EditRetraced(q, Graph, log, trail)
    BY <2>1 DEF Reversible, Ready, MergesRetraced, Retracing
  <2>4. CASE p = Idle
    <3>1. c.do = "relabel_entity_type" /\ OfType(Graph.node, c.on) = {}
      BY <1>4, <1>5, <2>1, <2>4
    <3>2. Graph' = q.before
      BY <1>1, <1>3, <1>5, <2>2, <2>3, <3>1, EditEnds
    <3>3. Retraced(trail', log', Graph')
      BY <1>2, <2>3, <3>2 DEF EditRetraced
    <3>4. Retracing(p, Graph', log', trail')
      BY <1>5, <2>4, <3>3 DEF Retracing
    <3> QED
      BY <3>4 DEF MergesRetraced
  <2>5. CASE p # Idle
    <3>1. /\ p.kind = "edit" /\ p.calls = Tail(q.calls) /\ p.op = q.op
          /\ p.seed = q.seed /\ p.before = q.before /\ p.rows = RowsAfter(c, Graph, q.rows)
      BY <1>4, <1>6, <2>1, <2>5
    <3>2. q.op = NoOp
      BY <1>1, <2>3 DEF EditReady
    <3>3. EditRetraced(p, Graph', log, trail)
      BY <1>1, <1>3, <1>5, <2>1, <2>3, <3>1, <3>2, EditRetraces, ZenonT(40)
    <3>4. Retracing(p, Graph', log', trail')
      BY <1>2, <2>5, <3>1, <3>3 DEF Retracing
    <3> QED
      BY <3>4 DEF MergesRetraced
  <2> QED
    BY <2>4, <2>5
<1>7. CASE IsUndo(q)
  <2>1. q.kind = "undo"
    BY <1>7 DEF IsUndo
  <2>2. UndoReady(q, Graph, log, trail) /\ UndoRetraced(q, Graph, log, trail)
    BY <2>1 DEF Reversible, Ready, MergesRetraced, Retracing
  <2>3. c.do # "relabel_entity_type"
    BY <1>1, <2>2 DEF UndoReady, Backwards
  <2>4. p.kind = "undo" /\ p.calls = Tail(q.calls) /\ p.op = q.op
    BY <1>4, <2>1, <2>3
  <2>5. UndoRetraced(p, Graph', log, trail)
    BY <1>1, <1>3, <1>5, <2>2, <2>4, UndoRetraces, ZenonT(40)
  <2>6. Retracing(p, Graph', log', trail')
    BY <1>2, <1>5, <2>4, <2>5 DEF Retracing
  <2> QED
    BY <2>6 DEF MergesRetraced
<1> QED
  BY <1>1, <1>6, <1>7 DEF ReqShape

LEMMA StampRetraces ==
  ASSUME NEW slot \in Requests, ReqShape, MergesRetraced(slot), Stamp(slot)
  PROVE  MergesRetraced(slot)'
<1> PICK q : q = req[slot]
  OBVIOUS
<1> PICK p : p = req'[slot]
  OBVIOUS
<1>1. /\ q.kind = "edit" /\ q.calls = <<>> /\ p.kind = "edit"
      /\ p.calls = q.calls /\ p.seed = q.seed /\ p.rows = q.rows /\ p.before = q.before
  BY StampEffect
<1>2. p.op = StampedOp(slot)
  BY StampStamps
<1>3. p.op[1][1] = "merge" => p.op[1] = q.seed
  <2>1. CASE q.seed = Single
    <3>1. p.op = <<<<"single", clock>>, 0>>
      BY <1>2, <2>1 DEF StampedOp
    <3>2. p.op[1][1] = "single"
      BY <3>1
    <3> QED
      BY <3>2
  <2>2. CASE q.seed # Single
    <3>1. p.op = <<q.seed, NextGeneration(q.seed)>>
      BY <1>2, <2>2 DEF StampedOp
    <3> QED
      BY <3>1
  <2> QED
    BY <2>1, <2>2
<1>4. EditRetraced(q, Graph, log, trail)
  BY <1>1 DEF MergesRetraced, Retracing
<1>5. UNCHANGED <<log, trail>> /\ Graph' = Graph
  BY DEF Stamp, Graph
<1>6. EditRetraced(p, Graph, log, trail)
  BY <1>1, <1>3, <1>4 DEF EditRetraced
<1>7. p # Idle
  BY <1>1 DEF Idle
<1>8. Retracing(p, Graph', log', trail')
  BY <1>1, <1>5, <1>6, <1>7 DEF Retracing
<1> QED
  BY <1>8 DEF MergesRetraced

(* What is recorded can be retraced.                                       *)
LEMMA RecordedRetraces ==
  ASSUME NEW q, NEW g, NEW t, NEW y, EditRetraced(q, y, g, t), Stacked(t, g, q.before),
         q.calls = <<>>, q.op # NoOp, q.rows \in Seq(GoodRows), OfOp(g, q.op) = {},
         NEW h, h = g \cup Logged(q.op, q.at, q.rows),
         NEW u, u = Append(t, [op |-> q.op, before |-> q.before])
  PROVE  Retraced(u, h, y)
<1> PICK s : s = [op |-> q.op, before |-> q.before]
  OBVIOUS
<1> PICK new : new = Logged(q.op, q.at, q.rows)
  OBVIOUS
<1>1. \A l \in new : l.op = q.op
  BY DEF Logged, Entry
<1>2. LogsAgree(t, g, h, 1 .. Len(t))
  <2> PICK op, x : op = q.op /\ x = q.before
    OBVIOUS
  <2>1. OfOp(g, op) = {} /\ h = g \cup new /\ (\A l \in new : l.op = op) /\ Stacked(t, g, x)
    BY <1>1
  <2> QED
    BY <2>1, OthersStay
<1>3. OfOp(h, q.op) = new
  BY <1>1 DEF OfOp
<1>4. ASSUME q.op[1][1] = "merge"
      PROVE  /\ Plausible(q.before, q.op[1][3], q.op[1][2])
             /\ Ended(q.before, y, q.op[1][3], q.op[1][2])
             /\ Returning(InversePlan(new), q.before, q.op[1][2])
  <2> PICK B, a, b : B = q.before /\ a = q.op[1][3] /\ b = q.op[1][2]
    OBVIOUS
  <2> PICK v : v = q.rows
    OBVIOUS
  <2>1. q.op[1] = q.seed
    BY <1>4 DEF EditRetraced
  <2>2. Plausible(B, a, b) /\ Merging(q.calls, B, y, a, b) /\ MergedRows(v, B, b, Len(q.calls) <= 1)
    BY <1>4, <2>1 DEF EditRetraced
  <2>3. Len(q.calls) = 0
    OBVIOUS
  <2>4. Ended(B, y, a, b)
    BY <2>2, <2>3 DEF Merging, Ended
  <2>5. MergedRows(v, B, b, TRUE)
    BY <2>2, <2>3 DEF MergedRows
  <2>6. Returning(InversePlan(Logged(q.op, q.at, v)), B, b)
    BY <2>5, RowsReturn
  <2> QED
    BY <2>2, <2>4, <2>6
<1>5. Retraceable(q.op, h, q.before, y)
  BY <1>3, <1>4 DEF Retraceable
<1>6. \E S : t \in Seq(S)
  BY DEF Stacked, Linked
<1>7. Retraced(t, g, q.before)
  BY DEF EditRetraced
<1>8. s.op = q.op /\ s.before = q.before
  OBVIOUS
<1> QED
  BY <1>2, <1>5, <1>6, <1>7, <1>8, RetracedGrows, ZenonT(40)

LEMMA RecordRetraces ==
  ASSUME NEW slot \in Requests, ReqShape, ReqTyped, Reversible(slot), MergesRetraced(slot), Record(slot)
  PROVE  MergesRetraced(slot)'
<1> PICK q : q = req[slot]
  OBVIOUS
<1>1. /\ q.kind = "edit" /\ q.op # NoOp /\ req'[slot] = Idle /\ Graph' = Graph
  BY DEF Record, ReqShape, Graph
<1>2. EditReady(q, Graph, log, trail) /\ EditRetraced(q, Graph, log, trail)
  BY <1>1 DEF Reversible, Ready, MergesRetraced, Retracing
<1>3. q.calls = <<>> /\ Stacked(trail, log, q.before)
  BY <1>1, <1>2 DEF EditReady
<1>4. q.rows \in Seq(GoodRows)
  BY <1>1 DEF ReqTyped, GoodReq
<1>5. Retraced(trail', log', Graph)
  <2>1. CASE IsExact(slot)
    <3>1. /\ trail' = Append(trail, [op |-> q.op, before |-> q.before])
          /\ OfOp(log, q.op) = {} /\ log' = log \cup Logged(q.op, q.at, q.rows)
      BY <2>1, RecordAdds
    <3> QED
      BY <1>1, <1>2, <1>3, <1>4, <3>1, RecordedRetraces, ZenonT(40)
  <2>2. CASE ~IsExact(slot)
    <3>1. trail' = <<>>
      BY <2>2 DEF Record
    <3> QED
      BY <3>1, NothingToRetrace
  <2> QED
    BY <2>1, <2>2
<1>6. Retracing(Idle, Graph', log', trail')
  BY <1>1, <1>5 DEF Retracing, Idle
<1> QED
  BY <1>1, <1>6 DEF MergesRetraced

(* The undo of the merge on top makes its calls.                           *)
LEMMA UndoLastRetraces ==
  ASSUME NEW slot \in Requests, ReqShape, LogTyped, clock \in Nat, Reversible(slot), MergesRetraced(slot),
         UndoLast(slot)
  PROVE  MergesRetraced(slot)'
<1> DEFINE plan == InversePlan(LatestRows)
<1> PICK p : p = [kind |-> "undo", calls |-> plan, op |-> Latest]
  OBVIOUS
<1>1. req[slot] = Idle /\ req'[slot] = p /\ UNCHANGED <<log, trail>> /\ Graph' = Graph
  BY DEF UndoLast, ReqShape, Graph
<1>2. Stacked(trail, log, Graph) /\ Retraced(trail, log, Graph)
  BY <1>1 DEF Reversible, Ready, MergesRetraced, Retracing
<1>3. ASSUME trail # <<>>, Latest[1][1] = "merge"
      PROVE  /\ Plausible(Last(trail).before, Latest[1][3], Latest[1][2])
             /\ Unmerging(plan, Last(trail).before, Graph, Latest[1][3], Latest[1][2])
  <2> HIDE DEF plan
  <2> PICK n : n = Len(trail)
    OBVIOUS
  <2> PICK B, a, b : B = Last(trail).before /\ a = Latest[1][3] /\ b = Latest[1][2]
    OBVIOUS
  <2>1. n \in 1 .. Len(trail) /\ Last(trail) = trail[n]
    <3>1. PICK S : trail \in Seq(S)
      BY <1>2 DEF Stacked, Linked
    <3> QED
      BY <1>3, <3>1 DEF Last
  <2>2. Latest = Last(trail).op /\ LatestRows = OfOp(log, Last(trail).op)
    BY <1>2, <1>3, TopIsLatest
  <2>3. Retraceable(trail[n].op, log, trail[n].before, Graph)
    BY <1>2, <2>1 DEF Retraced
  <2>4. Plausible(B, a, b) /\ Ended(B, Graph, a, b) /\ Returning(plan, B, b)
    BY <1>3, <2>1, <2>2, <2>3 DEF Retraceable, plan
  <2>5. Unmerging(plan, B, Graph, a, b)
    BY <2>4 DEF Returning, Closed, Ended, Unmerging
  <2> QED
    BY <2>4, <2>5
<1> HIDE DEF plan
<1>4. p.kind = "undo" /\ p.calls = plan /\ p.op = Latest /\ p # Idle
  BY DEF Idle
<1>5. UndoRetraced(p, Graph, log, trail)
  BY <1>2, <1>3, <1>4 DEF UndoRetraced
<1>6. Retracing(p, Graph', log', trail')
  BY <1>1, <1>4, <1>5 DEF Retracing
<1> QED
  BY <1>1, <1>6 DEF MergesRetraced

LEMMA MarkRetraces ==
  ASSUME NEW slot \in Requests, ReqShape, LogShape, Reversible(slot), MergesRetraced(slot), MarkUndone(slot)
  PROVE  MergesRetraced(slot)'
<1> PICK q : q = req[slot]
  OBVIOUS
<1>1. q.kind = "undo" /\ q.calls = <<>> /\ req'[slot] = Idle /\ Graph' = Graph
  BY DEF MarkUndone, ReqShape, Graph
<1>2. UndoReady(q, Graph, log, trail) /\ UndoRetraced(q, Graph, log, trail)
  BY <1>1 DEF Reversible, Ready, MergesRetraced, Retracing
<1>3. Retraced(trail', log', Graph')
  <2>1. CASE trail = <<>>
    <3>1. trail' = <<>>
      BY <2>1 DEF MarkUndone
    <3> QED
      BY <3>1, NothingToRetrace
  <2>2. CASE trail # <<>>
    <3>1. PICK x : Stacked(trail, log, x)
      BY <1>2 DEF UndoReady
    <3>2. PICK z : Retraced(trail, log, z)
      BY <1>2 DEF UndoRetraced
    <3>3. q.op = Last(trail).op /\ \E w, v : Runs(<<>>, Graph, w, Last(trail).before, v)
      BY <1>1, <1>2, <2>2 DEF UndoReady
    <3>4. PICK w, v : Runs(<<>>, Graph, w, Last(trail).before, v)
      BY <3>3
    <3>5. Last(trail).before = Graph
      BY <3>4, RunsNone
    <3>6. trail' = Front(trail)
      BY <2>2, <3>3 DEF MarkUndone
    <3> PICK h : h = log'
      OBVIOUS
    <3>8. h = MarkedIn(log, Last(trail).op)
      BY <3>3 DEF MarkUndone, Marked, MarkedIn
    <3>9. AllRows(log)
      BY DEF LogShape, AllRows
    <3>10. LogsAgree(trail, log, h, (1 .. Len(trail)) \ {Len(trail)})
      BY <3>1, <3>8, <3>9, OthersUnmarked
    <3>11. \E S : trail \in Seq(S)
      BY <3>1 DEF Stacked, Linked
    <3>12. Retraced(trail', h, Last(trail).before)
      BY <2>2, <3>2, <3>6, <3>10, <3>11, RetracedShrinks
    <3> QED
      BY <1>1, <3>5, <3>12
  <2> QED
    BY <2>1, <2>2
<1>4. Retracing(Idle, Graph', log', trail')
  BY <1>3 DEF Retracing, Idle
<1> QED
  BY <1>1, <1>4 DEF MergesRetraced

LEMMA FailRetraces ==
  ASSUME NEW slot \in Requests, ReqShape, Fail(slot)
  PROVE  MergesRetraced(slot)'
<1>1. req'[slot] = Idle /\ trail' = <<>>
  BY DEF Fail, ReqShape
<1>2. Retraced(trail', log', Graph')
  BY <1>1, NothingToRetrace
<1>3. Retracing(Idle, Graph', log', trail')
  BY <1>2 DEF Retracing, Idle
<1> QED
  BY <1>1, <1>3 DEF MergesRetraced

LEMMA RetracedStep ==
  ASSUME NEW slot, Requests = {slot}, Alone(slot), Reversible(slot), MergesRetraced(slot), [Next]_vars
  PROVE  MergesRetraced(slot)'
<1>0. /\ slot \in Requests /\ clock \in Nat /\ ReqShape /\ LogShape /\ GraphTyped
      /\ LogTyped /\ ReqTyped /\ ReqSafe(slot)
  BY DEF Alone, Inv, IdsOK, TypeInv
<1>1. CASE UNCHANGED vars
  BY <1>1 DEF vars, MergesRetraced, Graph
<1>2. CASE Next
  BY <1>0, <1>2, BeginRetraces, CallRetraces, StampRetraces, RecordRetraces, UndoLastRetraces, MarkRetraces,
     FailRetraces DEF Next
<1> QED
  BY <1>1, <1>2

LEMMA RetracedInit ==
  ASSUME NEW slot, Requests = {slot}, Init
  PROVE  MergesRetraced(slot)
<1>1. req[slot] = Idle /\ trail = <<>>
  BY DEF Init
<1>2. Retracing(Idle, Graph, log, trail)
  BY <1>1, NothingToRetrace DEF Retracing, Idle
<1> QED
  BY <1>1, <1>2 DEF MergesRetraced

(* So nothing that was said of the two is lost on the way.                 *)
LEMMA RetracedKeeps ==
  ASSUME NEW slot, Requests = {slot}, Reversible(slot), MergesRetraced(slot)
  PROVE  MergeKeepsOccurrences
<1> PICK q : q = req[slot]
  OBVIOUS
<1>1. ASSUME q.kind = "edit", q.seed[1] = "merge"
      PROVE  Occurrences(q.before, {q.seed[2], q.seed[3]}) \subseteq Occurrences(Graph, {q.seed[2], q.seed[3]})
  <2> PICK B, a, b : B = q.before /\ a = q.seed[3] /\ b = q.seed[2]
    OBVIOUS
  <2>1. EditRetraced(q, Graph, log, trail)
    BY <1>1 DEF MergesRetraced, Retracing
  <2>2. Plausible(B, a, b) /\ Merging(q.calls, B, Graph, a, b)
    BY <1>1, <2>1 DEF EditRetraced
  <2>3. Midway(B, Graph, a, b)
    BY <2>2, MergingIsMidway
  <2> QED
    BY <2>3, MidwayKeeps
<1>2. ASSUME q.kind = "undo", trail # <<>>, q.op[1][1] = "merge"
      PROVE  Occurrences(Last(trail).before, {q.op[1][2], q.op[1][3]})
               \subseteq Occurrences(Graph, {q.op[1][2], q.op[1][3]})
  <2> PICK B, a, b : B = Last(trail).before /\ a = q.op[1][3] /\ b = q.op[1][2]
    OBVIOUS
  <2>1. UndoReady(q, Graph, log, trail) /\ UndoRetraced(q, Graph, log, trail)
    BY <1>2 DEF Reversible, Ready, MergesRetraced, Retracing
  <2>2. CASE q.calls = <<>>
    <3>1. \E w, v : Runs(<<>>, Graph, w, B, v)
      BY <1>2, <2>1, <2>2 DEF UndoReady
    <3>2. PICK w, v : Runs(<<>>, Graph, w, B, v)
      BY <3>1
    <3>3. B = Graph
      BY <3>2, RunsNone
    <3> QED
      BY <3>3
  <2>3. CASE q.calls # <<>>
    <3>1. q.calls \in Seq(Backwards)
      BY <2>1 DEF UndoReady
    <3>2. Plausible(B, a, b) /\ Unmerging(q.calls, B, Graph, a, b)
      BY <1>2, <2>1 DEF UndoRetraced
    <3>3. Midway(B, Graph, a, b)
      BY <2>3, <3>1, <3>2, UnmergingIsMidway
    <3> QED
      BY <3>3, MidwayKeeps
  <2> QED
    BY <2>2, <2>3
<1> QED
  BY <1>1, <1>2 DEF MergeKeepsOccurrences

-----------------------------------------------------------------------------
(* One request at a time: whatever the reader's screens read at any moment *)
(* of a merge, or of its undo, every mention of the two entities is still  *)
(* highlighted where it was (merge_entities updates the survivor before it *)
(* hands the mentions on and deletes the absorbed one; the inverse calls   *)
(* go the other way, through Mention.compute_highlights), for any graph,   *)
(* any text and any stack of operations done and undone.                   *)
THEOREM MergedOccurrencesAreKept ==
  ASSUME NEW slot, Requests = {slot} PROVE SpecScreens => []MergeKeepsOccurrences
<1>1. ConstantsAssumption
  BY ConstantsAssumption
<1> DEFINE I == Alone(slot) /\ Reversible(slot) /\ MergesRetraced(slot) /\ ScreensInv
<1>2. InitScreens => I
  BY <1>1, ScreensBegin, InvInit, TypedInit, SafeInit, ReversibleInit, RetracedInit DEF Alone
<1>3. I /\ [NextScreens]_allVars => I'
  <2> SUFFICES ASSUME I, [NextScreens]_allVars PROVE I'
    OBVIOUS
  <2>1. [Next]_vars /\ ScreensInv'
    BY ScreensStep DEF Alone
  <2>2. Alone(slot)'
    BY <2>1, InvStep, TypedStep, FreshStep, SafeStep DEF Alone
  <2>3. Reversible(slot)'
    BY <2>1, ReversibleStep
  <2>4. MergesRetraced(slot)'
    BY <2>1, RetracedStep
  <2> QED
    BY <2>1, <2>2, <2>3, <2>4
<1>4. I => MergeKeepsOccurrences
  BY RetracedKeeps
<1> QED
  BY <1>2, <1>3, <1>4, PTL DEF SpecScreens
=============================================================================

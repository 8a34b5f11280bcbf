------------------------------- MODULE Screens -------------------------------
(***************************************************************************)
(* The screens that show the committed graph while the author edits it.    *)
(* A request makes several reads, of Neo4j and of Postgres, each with a    *)
(* snapshot of its own; the steps of GraphEdit fall between them.  The     *)
(* screens of suggestions leave out the pairs the author has dismissed.    *)
(* The vocabulary screen embeds the labels it has not seen before, in a    *)
(* worker thread, under a lock that all requests of the process share.     *)
(***************************************************************************)
EXTENDS Projections

CONSTANTS
  Looks,        \* requests for a screen that can be in flight together
  Dismissable,  \* pairs the author may dismiss: surface and two members, as named
  Scenes        \* bounds: screens open together, with how many edits and decisions

VARIABLES
  dismissed,    \* Postgres: ids of the dismissed pairs
  look,         \* the requests for a screen
  decisions,    \* dismissals and reversals so far
  embedded,     \* LabelVocabularyReader._embeddings: the labels in it
  encoding,     \* _encode_lock: who holds it
  encodings     \* history: how often each label has been encoded

screenVars ==
  <<dismissed, look, decisions, embedded, encoding, encodings>>
allVars == <<vars, screenVars>>

Nobody == "nobody"
Off == [screen |-> "none"]
Surfaces == {"entity", "predicate", "type"}

ASSUME ScreensAssumption ==
  /\ Nobody \notin Looks
  /\ Dismissable \subseteq Surfaces \X (DOMAIN Rank) \X (DOMAIN Rank)

(* What each screen reads, and which reads it has made before.             *)
Chain(reads) ==
  [i \in {reads[j] : j \in DOMAIN reads} |->
     {reads[k] : k \in {k \in DOMAIN reads : \E j \in DOMAIN reads : reads[j] = i /\ k < j}}]

(* The suggestion screens gather: the dismissals are read at any time.     *)
ReadsOf ==
  [reader |-> Chain(<<"mention", "hidden", "node", "edge">>),
   story |-> Chain(<<"node", "edge", "mention">>),
   duplicates |-> [node |-> {}, mention |-> {"node"}, dismissed |-> {}],
   labels |-> [vocabulary |-> {}, dismissed |-> {}]]

InitScreens ==
  /\ Init
  /\ dismissed = {}
  /\ look = [v \in Looks |-> Off]
  /\ decisions = 0
  /\ embedded = {}
  /\ encoding = Nobody
  /\ encodings = [l \in Labels |-> 0]

-----------------------------------------------------------------------------
(* The two vocabularies are read together: nothing relates one to the other. *)
Stores ==
  [node |-> node, edge |-> edge, mention |-> mention, hidden |-> hidden, dismissed |-> dismissed,
   vocabulary |-> [predicate |-> PredicatesUsed(Graph), type |-> TypesUsed(Graph)]]

Open(v, screen) ==
  /\ look[v] = Off
  /\ look' = [look EXCEPT ![v] = [screen |-> screen, seen |-> <<>>, since |-> dismissed,
                                  vectors |-> IF screen = "labels" THEN "unread" ELSE "none",
                                  missing |-> {}]]
  /\ UNCHANGED <<vars, dismissed, decisions, embedded, encoding, encodings>>

Seen(v) == DOMAIN look[v].seen
HasRead(v) == Seen(v) = DOMAIN ReadsOf[look[v].screen]

(* One query, with the snapshot of that moment.                            *)
Read(v, store) ==
  /\ look[v] # Off
  /\ store \in DOMAIN ReadsOf[look[v].screen] \ Seen(v)
  /\ ReadsOf[look[v].screen][store] \subseteq Seen(v)
  /\ look' = [look EXCEPT ![v].seen =
                [x \in Seen(v) \cup {store} |-> IF x = store THEN Stores[x] ELSE look[v].seen[x]]]
  /\ UNCHANGED <<vars, dismissed, decisions, embedded, encoding, encodings>>

Vocabulary(v) == look[v].seen.vocabulary.predicate \cup look[v].seen.vocabulary.type
Unembedded(v) == Vocabulary(v) \ embedded

(* load_vocabulary: a first look at the cache, without the lock.           *)
CheckCache(v) ==
  /\ look[v] # Off /\ look[v].vectors = "unread"
  /\ "vocabulary" \in Seen(v)
  /\ look' = [look EXCEPT ![v] = [@ EXCEPT !.vectors =
                IF Unembedded(v) = {} THEN "ready" ELSE "waiting", !.missing = Unembedded(v)]]
  /\ UNCHANGED <<vars, dismissed, decisions, embedded, encoding, encodings>>

TakeLockUnchecked(v) ==   \* mutant: what was missing before the wait
  /\ look[v] # Off /\ look[v].vectors = "waiting"
  /\ encoding = Nobody
  /\ encoding' = v
  /\ look' = [look EXCEPT ![v].vectors = "encoding"]
  /\ UNCHANGED <<vars, dismissed, decisions, embedded, encodings>>

(* The second look, under the lock.                                        *)
TakeLock(v) ==
  /\ look[v] # Off /\ look[v].vectors = "waiting"
  /\ encoding = Nobody
  /\ encoding' = v
  /\ look' = [look EXCEPT ![v] = [@ EXCEPT !.vectors = "encoding", !.missing = Unembedded(v)]]
  /\ UNCHANGED <<vars, dismissed, decisions, embedded, encodings>>

(* _encode_labels, in the worker thread: one label after the other.        *)
EncodeLabel(v) ==
  /\ look[v] # Off /\ look[v].vectors = "encoding"
  /\ look[v].missing # {}
  /\ LET l == CHOOSE x \in look[v].missing : \A y \in look[v].missing : Rank[x] <= Rank[y]
     IN  /\ embedded' = embedded \cup {l}
         /\ encodings' = [encodings EXCEPT ![l] = @ + 1]
         /\ look' = [look EXCEPT ![v].missing = @ \ {l}]
  /\ UNCHANGED <<vars, dismissed, decisions, encoding>>

ReleaseLock(v) ==
  /\ look[v] # Off /\ look[v].vectors = "encoding"
  /\ look[v].missing = {}
  /\ encoding' = Nobody
  /\ look' = [look EXCEPT ![v].vectors = "ready"]
  /\ UNCHANGED <<vars, dismissed, decisions, embedded, encodings>>

(* The model does not load or an encode fails: the lock is let go, what    *)
(* was encoded stays, the request is answered with an error.               *)
EncodeFails(v) ==
  /\ look[v] # Off /\ look[v].vectors = "encoding"
  /\ encoding' = Nobody
  /\ look' = [look EXCEPT ![v].vectors = "failed"]
  /\ UNCHANGED <<vars, dismissed, decisions, embedded, encodings>>

Answered(v) == look[v] # Off /\ HasRead(v) /\ look[v].vectors \in {"none", "ready"}

-----------------------------------------------------------------------------
(* The author dismisses a pair, named in either order, or takes it back.   *)
Dismiss(pair) ==
  /\ decisions' = decisions + 1
  /\ dismissed' = dismissed \cup {PairId(pair[1], pair[2], pair[3])}
  /\ UNCHANGED <<vars, look, embedded, encoding, encodings>>

Undismiss(pair) ==
  LET id == PairId(pair[1], pair[2], pair[3])
  IN  /\ decisions' = decisions + 1
      /\ dismissed' = dismissed \ {id}
      /\ look' = [v \in Looks |-> IF look[v] = Off THEN Off
                                  ELSE [look[v] EXCEPT !.since = @ \ {id}]]
      /\ UNCHANGED <<vars, embedded, encoding, encodings>>

Screen(v) ==
  \/ \E screen \in DOMAIN ReadsOf : Open(v, screen)
  \/ \E store \in DOMAIN Stores : Read(v, store)
  \/ CheckCache(v) \/ TakeLock(v) \/ EncodeLabel(v) \/ ReleaseLock(v) \/ EncodeFails(v)

Decide == \E pair \in Dismissable : Dismiss(pair) \/ Undismiss(pair)

WithinBounds ==
  \E scene \in Scenes :
    /\ begun <= scene.edits /\ decisions <= scene.decisions
    /\ \A v \in Looks : look[v].screen \in {Off.screen, scene.screens[v]}

NextScreens ==
  /\ \/ Next /\ UNCHANGED screenVars
     \/ \E v \in Looks : Screen(v)
     \/ Decide
  /\ WithinBounds'

SpecScreens == InitScreens /\ [][NextScreens]_allVars

-----------------------------------------------------------------------------
(* list_duplicate_suggestions, list_label_synonyms: what is not dismissed. *)
Suggested(v) ==
  LET g == look[v].seen
      pairs == IF look[v].screen = "duplicates" THEN DuplicatePairs(g)
               ELSE UNION {SynonymPairs(surface, g.vocabulary[surface]) : surface \in {"predicate", "type"}}
  IN  pairs \ g.dismissed

Suggests(v) == Answered(v) /\ look[v].screen \in {"duplicates", "labels"}
-----------------------------------------------------------------------------
(* Safety *)

TypeOKScreens ==
  /\ TypeOK
  /\ \A id \in dismissed :
       id[1] \in Surfaces /\ id[2] \in (DOMAIN Rank) \X (DOMAIN Rank)
  /\ \A v \in Looks : look[v] # Off =>
       /\ look[v].screen \in DOMAIN ReadsOf
       /\ Seen(v) \subseteq DOMAIN ReadsOf[look[v].screen]
       /\ look[v].missing \subseteq Labels
  /\ embedded \subseteq Labels
  /\ encoding \in Looks \cup {Nobody}

(* A claim is marked if no stronger claim that holds its own place is in   *)
(* the way, and if it is not hidden; a hidden claim still holds its place. *)
Arbitrated(g, holders) ==
  /\ \A c, d \in holders : c = d \/ ~Overlap(c.span, d.span)
  /\ \A c \in Claims(g) \ holders :
       \E d \in holders : Overlap(c.span, d.span) /\ (d.manual \/ ~c.manual)
         /\ (d.manual = c.manual => Length(d.span) >= Length(c.span))
  /\ Marks(g) = {c \in holders : \A h \in g.hidden : h[1] = c.span => h[2] \notin {Everyone, c.entity}}

(* Each neighbour of a marked entity has one line or is counted as left    *)
(* out, no line is less connected than what is left out, and the panel of  *)
(* the entity draws the same neighbours.                                   *)
TooltipIsWhole(g, e) ==
  LET shown == {Summary(g, e).lines[i] : i \in DOMAIN Summary(g, e).lines}
  IN  /\ shown \subseteq Neighbours(g, e)
      /\ Cardinality(shown) + Summary(g, e).overflow = Cardinality(Neighbours(g, e))
      /\ \A f \in shown, h \in Neighbours(g, e) \ shown : Degree(g, f) >= Degree(g, h)
      /\ Neighbours(g, e) = Ego(g, e).neighbours \cap Listed(g)

SelfContained(view) == \A t \in view.edges : {t[1], t[3]} \subseteq view.nodes

(* Whatever edits fall between its reads, an answer of the reader is what  *)
(* the three rules say: marks never overlap, an author's tag beats a       *)
(* search hit and a longer hit a shorter one, what is hidden uncovers      *)
(* nothing beneath it; and what is marked has its tooltip.                 *)
ReaderIsSound ==
  \A v \in Looks : Answered(v) /\ look[v].screen = "reader" =>
    /\ \E holders \in SUBSET Claims(look[v].seen) : Arbitrated(look[v].seen, holders)
    /\ \A e \in {c.entity : c \in Marks(look[v].seen)} : TooltipIsWhole(look[v].seen, e)

(* The graph of a story, unless an edit came between its reads, has both   *)
(* ends of each edge.                                                      *)
StoryIsClosed ==
  \A v \in Looks : Answered(v) /\ look[v].screen = "story" =>
    LET g == look[v].seen
    IN  <<g.node, g.edge, g.mention>> = <<node, edge, mention>> => SelfContained(StoryGraph(g))

(* What the reader, the tooltips and the story graph show is sound.         *)
ScreensAreSound == TypeOKScreens /\ ReaderIsSound /\ StoryIsClosed

(* A pair that was dismissed before a screen of suggestions was asked for, *)
(* and was not taken back since, is not on it: whichever way round it was  *)
(* named, and through merges and renames and their undoing.                *)
DismissedStaysDismissed ==
  \A v \in Looks : Suggests(v) =>
    \A id \in Suggested(v), past \in look[v].since :
      id[1] = past[1] => Range(id[2]) # Range(past[2])

Occurrences(g, who) == {c.span : c \in {d \in Claims(g) : d.entity \in who}}

(* A merge loses no occurrence: at every point of it, and of its undoing,  *)
(* each span that was claimed for one of the two entities when it began is *)
(* claimed for one of them.                                                *)
MergeKeepsOccurrences ==
  \A r \in Requests :
    /\ req[r].kind = "undo" /\ trail # <<>> /\ req[r].op[1][1] = "merge" =>
         Occurrences(Last(trail).before, {req[r].op[1][2], req[r].op[1][3]})
           \subseteq Occurrences(Graph, {req[r].op[1][2], req[r].op[1][3]})
    /\ req[r].kind = "edit" /\ req[r].seed[1] = "merge" =>
         Occurrences(req[r].before, {req[r].seed[2], req[r].seed[3]})
           \subseteq Occurrences(Graph, {req[r].seed[2], req[r].seed[3]})

(* The model is loaded by one request at a time, no label is encoded       *)
(* twice, and a request that goes on has a vector for all of its labels.   *)
EncodedOnce ==
  /\ \A v, w \in Looks : v # w =>
       look[v] = Off \/ look[w] = Off
         \/ ~(look[v].vectors = "encoding" /\ look[w].vectors = "encoding")
  /\ \A l \in Labels : encodings[l] <= 1
  /\ \A v \in Looks : look[v] # Off /\ look[v].vectors = "ready" => Unembedded(v) = {}

-----------------------------------------------------------------------------
(* What the documentation says and the code does not do *)

(* A re-tag "suppress[es] the wrong entity claim at the span AND tag[s]    *)
(* the right entity there": once it is done the reader marks that entity.  *)
RetagShows ==
  AtRest /\ trail # <<>> /\ Last(trail).op[1][1] = "retag" =>
    \E c \in Marks(Graph) :
      c.span = Last(trail).op[1][2] /\ c.entity = Last(trail).op[1][3]

(* "a self-contained subgraph with no dangling edges": an undo that puts a *)
(* deleted entity back between the reads leaves its edge without an end.   *)
NoDanglingEdges ==
  \A v \in Looks : Answered(v) /\ look[v].screen = "story" =>
    SelfContained(StoryGraph(look[v].seen))
=============================================================================

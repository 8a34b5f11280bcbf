------------------------------ MODULE MCScreens ------------------------------
(* Instances of Screens for TLC. *)
EXTENDS Screens

CONSTANTS a, b, c, knows, loves, person, place, s1, s2, s3, r1, v1, v2, Ada, Bea, Duo

OneRequest == {r1}
TwoLooks == {v1, v2}
MCEntities == {a, b, c}
MCPredicates == {knows, loves}
MCTypes == {person, place}
MCNames == {Ada, Bea, Duo}
MCValues == {}
MCSpans == {s1, s2, s3}

(* "Ada Bea": one name after the other, and a third that is both.          *)
MCNamed == s1 :> Ada @@ s2 :> Bea @@ s3 :> Duo
MCExtent == s1 :> <<0, 3>> @@ s2 :> <<4, 7>> @@ s3 :> <<0, 7>>
MCTagEntity == [s \in MCSpans |-> c]

Person(name) == [type |-> person, name |-> name, aliases |-> {}, prop |-> NoValue]
MCNodes == a :> Person(Ada) @@ b :> Person(Bea) @@ c :> Person(Duo)

(* b knows and loves c, c knows a.                                         *)
MCEdges ==
  [t \in MCEntities \X MCPredicates \X MCEntities |->
    CASE t = <<b, knows, c>> -> 1
      [] t = <<b, loves, c>> -> 2
      [] t = <<c, knows, a>> -> 3
      [] OTHER -> NoEdge]

(* One accepted mention of each.                                           *)
MCMentions ==
  [i \in MCEntities \X (MCSpans \cup {NoSpan}) |->
    IF i[2] = NoSpan THEN [entity |-> i[1], span |-> NoSpan] ELSE NoMention]

MCRank ==
  a :> 1 @@ b :> 2 @@ c :> 3 @@ knows :> 4 @@ loves :> 5 @@ person :> 6 @@ place :> 7
    @@ Ada :> 8 @@ Bea :> 9 @@ Duo :> 10
MCAlike == {{Ada, Bea}, {knows, loves}, {person, place}}
MCNear == {{<<b, NoSpan>>, <<c, NoSpan>>}}
MCElsewhere == {2}

ScreenAsks ==
  {<<"merge", b, a>>, <<"delete", c>>, <<"tag", b, s3>>, <<"suppress", s3, Everyone>>,
   <<"retag", s1, a, b>>, <<"rename", knows, loves>>}
RetagAsks == {<<"retag", s1, a, b>>, <<"retag", s1, b, a>>}

Scene(first, second, edits, decided) ==
  [screens |-> v1 :> first @@ v2 :> second, edits |-> edits, decisions |-> decided]
MCScenes ==
  {Scene("reader", "none", 2, 0), Scene("story", "none", 1, 0),
   Scene("duplicates", "none", 2, 1), Scene("duplicates", "none", 1, 2),
   Scene("labels", "none", 1, 2), Scene("labels", "labels", 1, 0)}
NoScreens == {Scene("none", "none", 2, 0)}
BothWays == {<<"entity", b, a>>, <<"predicate", loves, knows>>}

NoFailures == [edit |-> 0, undo |-> 0]
=============================================================================

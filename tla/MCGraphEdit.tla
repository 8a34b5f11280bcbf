----------------------------- MODULE MCGraphEdit -----------------------------
(* Instances of GraphEdit for TLC. *)
EXTENDS GraphEdit

CONSTANTS a, b, c, n, knows, loves, person, place, s1, s2, r1, Ada, Bea, Cid, Dan, red, blue

OneRequest == {r1}
MCEntities == {a, b, c, n}
MCPredicates == {knows, loves}
MCTypes == {person, place}
MCNames == {Ada, Bea, Cid, Dan}
MCValues == {red, blue}
MCSpans == {s1, s2}
MCNamed == [s \in MCSpans |-> Dan]
MCTagEntity == [s \in MCSpans |-> n]

Person(name) == [type |-> person, name |-> name, aliases |-> {}, prop |-> NoValue]

(* Three people, two of whom differ in a property; n is what the text at either span would be tagged as.     *)
MCNodes ==
  a :> [Person(Ada) EXCEPT !.prop = red] @@ b :> [Person(Bea) EXCEPT !.prop = blue] @@
  c :> Person(Cid) @@ n :> NoNode

(* b knows and loves c, a loves c, b knows a; the last has no handle.      *)
MCEdges ==
  [t \in MCEntities \X MCPredicates \X MCEntities |->
    CASE t = <<b, knows, c>> -> 1
      [] t = <<b, loves, c>> -> 2
      [] t = <<a, loves, c>> -> 3
      [] t = <<b, knows, a>> -> 0
      [] OTHER -> NoEdge]

(* One accepted mention of each of a and b.                                *)
MCMentions ==
  [i \in MCEntities \X (MCSpans \cup {NoSpan}) |->
    IF i \in {<<a, NoSpan>>, <<b, NoSpan>>}
      THEN [entity |-> i[1], span |-> NoSpan] ELSE NoMention]

GraphAsks ==
  {<<"edit", a, [type |-> place]>>, <<"add", <<a, knows, c>>>>, <<"add", <<b, loves, c>>>>,
   <<"remove", <<b, knows, c>>>>, <<"retarget", <<b, knows, c>>, <<a, knows, c>>>>,
   <<"rename", knows, loves>>, <<"relabel", person, place>>, <<"merge", b, a>>, <<"delete", c>>}

TextAsks ==
  {<<"merge", b, a>>, <<"delete", b>>, <<"tag", b, s1>>, <<"tagnew", s1, person>>,
   <<"suppress", s1, Everyone>>, <<"retag", s1, a, b>>, <<"move", <<b, s1>>, s2>>,
   <<"materialize", b, s1, s2>>}

AllAsks == GraphAsks \cup TextAsks

(* Operations of which one that died can trip up a later one or an undo.    *)
CrashAsks ==
  {<<"rename", knows, loves>>, <<"retarget", <<b, knows, c>>, <<a, knows, c>>>>,
   <<"merge", b, a>>, <<"delete", a>>, <<"delete", b>>, <<"tag", a, s1>>,
   <<"tagnew", s1, person>>, <<"tag", n, s2>>, <<"retag", s1, a, b>>}

NoFailures == [edit |-> 0, undo |-> 0]
AnyFailure == [edit |-> 1, undo |-> 1]
=============================================================================

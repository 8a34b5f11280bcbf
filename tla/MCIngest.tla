------------------------------ MODULE MCIngest ------------------------------
(* Instances of Ingest for TLC. *)
EXTENDS Ingest

CONSTANTS jan, janek, ola, r1, r2, knows

OneRun == {r1}
TwoRuns == {r1, r2}
ThreeNames == {jan, janek, ola}
NoSeeds == {}
JanKnown == {jan}
MCTriples == {knows}

Read(es, rs) == [entities |-> es, relations |-> rs]
Nothing == Read({}, {})

(* jan and janek are one name to the matcher, ola is near both of them.    *)
MCLikeness ==
  [x \in {jan, janek, ola} |-> [y \in {jan, janek, ola} |->
     IF x = y \/ {x, y} = {jan, janek} THEN "strong" ELSE "close"]]

(* janek is only near jan, ola is far from both.                           *)
LooseLikeness ==
  [x \in {jan, janek, ola} |-> [y \in {jan, janek, ola} |->
     IF x = y THEN "strong" ELSE IF {x, y} = {jan, janek} THEN "close" ELSE "far"]]

(* The sampling model may read a paragraph in several ways, or in none.    *)
TwoParagraphs ==
  << {Read({jan, ola}, {knows}), Read({janek}, {}), Nothing},
     {Read({janek, jan}, {}), Nothing} >>
ThreeParagraphs ==
  << {Read({jan}, {knows}), Nothing},
     {Read({janek, jan}, {}), Read({jan}, {knows})},
     {Read({ola}, {})} >>
=============================================================================

-------------------------- MODULE MCRelationReview --------------------------
(* Instances of RelationReview for TLC. *)
EXTENDS RelationReview, TLC

CONSTANTS x1, x2, a, b, a2, e1, e2, e3, r1, r2, jan, ola, knows

TwoRequests == {r1, r2}
MCPredicates == {knows}
ThreeEntities == {e1, e2, e3}

MCCandidates == {a, a2, b}
MCKeys == {jan, ola}
MCKeyOf == a :> jan @@ a2 :> jan @@ b :> ola

(* The same fact twice, in spellings that are one normalised name.         *)
TwoRelations == {x1, x2}
SameSurface == [x \in {x1, x2} |-> [subject |-> jan, predicate |-> knows, object |-> ola]]

Symmetry == Permutations(Requests) \cup Permutations(Entities)
=============================================================================

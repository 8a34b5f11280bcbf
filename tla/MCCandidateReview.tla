-------------------------- MODULE MCCandidateReview --------------------------
(* Instances of CandidateReview for TLC. *)
EXTENDS CandidateReview, TLC

CONSTANTS c1, c2, c3, s1, r1, r2

TwoCandidates == {c1, c2}
ThreeCandidates == {c1, c2, c3}
MCSeeds == {s1}
OneRequest == {r1}
TwoRequests == {r1, r2}

(* c1 and c2 are spellings of one name: each flips the other.              *)
AllMatch == {<<c1, c2>>, <<c2, c1>>}
NoneDeletable == {}
SeedDeletable == {s1}

Accept == [act |-> "default", target |-> NoEntity]
Create == [act |-> "create", target |-> NoEntity]
Reject == [act |-> "reject", target |-> NoEntity]
(* A merge into an entity the author picks, or into the one proposed.      *)
MergeSeed == [act |-> "merge", target |-> s1]
MergeProposed == [act |-> "merge", target |-> NoEntity]
MergeFirst == [act |-> "merge", target |-> AcceptedEntity(c1)]

EveryAsk ==
  c1 :> {Create, Reject, MergeSeed, MergeProposed} @@ c2 :> {Accept}
OnlyAccept == [c \in {c1, c2} |-> {Accept}]
(* Each candidate is always asked the same thing: c2 is merged into what   *)
(* c1 creates, c3 is rejected.                                             *)
Unanimous == c1 :> {Create} @@ c2 :> {MergeFirst} @@ c3 :> {Reject}

RequestSymmetry == Permutations(Requests)
=============================================================================

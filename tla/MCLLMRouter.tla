---------------------------- MODULE MCLLMRouter ----------------------------
(* Instances of LLMRouter for TLC. *)
EXTENDS LLMRouter, TLC

CONSTANTS c1, c2, freeA, freeB, strong

\* Two free providers to fail over between; one paid provider; no local tier.
MCProviders ==
    [t \in Tiers |-> CASE t = "cloud_free"   -> <<freeA, freeB>>
                       [] t = "cloud_strong" -> <<strong>>
                       [] OTHER              -> <<>>]

\* One caller uses both tiers, the other one competes with it for the paid tier.
MCWeights == c1 :> {"medium", "heavy"} @@ c2 :> {"heavy"}
=============================================================================

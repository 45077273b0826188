------------------------- MODULE MCRequestPipeline -------------------------
(* A small instance of RequestPipeline for TLC: two requests, and tiers that   *)
(* start at one or two requests in a second.                                  *)
EXTENDS RequestPipeline

CONSTANTS r1, r2

MCTwoRequests == {r1, r2}
\* A policy that slows the host down, and lets requests overlap
MCPolicyRules == {[rate |-> 1, max_concurrent |-> 2, burst |-> 0]}
MCTierRates == [tier \in Tiers |-> IF tier = "robust" THEN 2 ELSE 1]
MCTierCeilings == [tier \in Tiers |-> IF tier = "fragile" THEN 1 ELSE 2]

=============================================================================

-------------------------- MODULE MCRateController --------------------------
(* A small instance of RateController for TLC: two senders, two tiers, one of *)
(* which has a rate above its ceiling, and a policy with a burst and a crawl  *)
(* window under which the ceiling is below min_rate; two clean responses for  *)
(* a step.                                                                    *)
EXTENDS RateController

CONSTANTS s1, s2

MCSenders == {s1, s2}
MCTierLimits == {[rate |-> 2, ceiling |-> 4], [rate |-> 4, ceiling |-> 3]}
MCRules == {[rate |-> 3, burst |-> 2, ceilings |-> {1, 3}]}

=============================================================================

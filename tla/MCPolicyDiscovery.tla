------------------------- MODULE MCPolicyDiscovery -------------------------
(* A small instance of PolicyDiscovery for TLC: two requests that discover at *)
(* the same time, two policies the site changes between, and a ttl of two     *)
(* ticks of which a discovery may last one.                                   *)
EXTENDS PolicyDiscovery, TLC

CONSTANTS r1, r2, p1, p2

MCRequests == {r1, r2}
MCPolicies == {p1, p2}
MCSymmetry == Permutations(MCRequests) \cup Permutations(MCPolicies)

=============================================================================

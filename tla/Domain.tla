------------------------------- MODULE Domain -------------------------------
(***************************************************************************)
(* _domain.py's DomainState, the state a client keeps per host, as         *)
(* operators on a record.  None of its methods takes a lock of its own;    *)
(* the modules that own a DomainState say how its callers interleave.      *)
(*                                                                         *)
(* retry_not_before is kept as the seconds until then, floor: 0 when the   *)
(* floor was never set or has gone by.  The crawl windows of a policy are  *)
(* left out here (their multiplier is 1), and so are the policy's own      *)
(* fields: a DomainState with a policy is one with hard_ceiling.           *)
(***************************************************************************)
EXTENDS Breaker, Aimd

CONSTANTS
    TierRates,              \* config.tier_rates, [tier -> rate]
    TierCeilings,           \* config.tier_ceilings, [tier -> rate]
    DefaultTier,            \* config.default_tier
    InitialBurst,           \* 3 in the code
    MaxConcurrent,          \* config.max_concurrent_per_domain
    LongestRetryAfter       \* the longest Retry-After a server sends

Tiers == {"fragile", "standard", "robust"}

ASSUME DomainConfigAssumption ==
    /\ TierRates \in [Tiers -> Nat \ {0}]
    /\ TierCeilings \in [Tiers -> Nat \ {0}]
    /\ DefaultTier \in Tiers
    /\ InitialBurst \in 1..LargestBurst
    /\ MaxConcurrent \in Nat \ {0}
    /\ LongestRetryAfter \in Nat

DomainRecords ==
    [ calibrated : BOOLEAN, hard_ceiling : BOOLEAN, base_ceiling : Nat,
      max_concurrent : Nat \ {0}, floor : 0..LongestRetryAfter,
      controller : ControllerRecords, breaker : BreakerRecords ]

\* __init__; its set_ceiling() is CeilingSet, and EffectiveCeiling the ceiling it sets
InitDomain ==
    [ calibrated |-> FALSE, hard_ceiling |-> FALSE, base_ceiling |-> TierCeilings[DefaultTier],
      max_concurrent |-> MaxConcurrent, floor |-> 0, breaker |-> InitBreaker,
      controller |-> CeilingSet(InitController(TierRates[DefaultTier], InitialBurst),
                                TierCeilings[DefaultTier]) ]

\* What refresh_effective_ceiling() sets config.max_rate to
EffectiveCeiling(d) == d.base_ceiling

\* ... and does to the rate
CeilingRefreshed(d) == [d EXCEPT !.controller = CeilingSet(@, EffectiveCeiling(d))]

\* apply_policy() of a rule; a max_concurrent or burst of 0 is one it does not give, and
\* leaves that of the policy before in place
PolicyApplied(d, rule) ==
    CeilingRefreshed(
        [d EXCEPT !.hard_ceiling = TRUE, !.base_ceiling = rule.rate,
                  !.controller.rate = IF d.calibrated THEN Smaller(@, rule.rate) ELSE rule.rate,
                  !.controller.capacity = IF rule.burst = 0 THEN @ ELSE rule.burst,
                  !.max_concurrent = IF rule.max_concurrent = 0 THEN @ ELSE rule.max_concurrent])

\* apply_inference() past its test of hard_ceiling: headers and ttfb suggest the tier
TierTaken(d, tier) ==
    LET capped == CeilingRefreshed([d EXCEPT !.base_ceiling = TierCeilings[tier]])
    IN  [capped EXCEPT !.controller.rate = (@ + TierRates[tier]) \div 2]

\* Fault: a Retry-After replaces the floor, a shorter one too
FloorReplaced(floor, seconds) == seconds

\* note_retry_after(): the floor after a Retry-After of this many seconds
FloorNoted(floor, seconds) == Larger(floor, seconds)

\* One second passes
DomainTick(d) ==
    [d EXCEPT !.breaker = BreakerTick(@), !.controller = ControllerTick(@),
              !.floor = Larger(0, @ - 1)]

=============================================================================

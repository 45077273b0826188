-------------------------- MODULE MCDomainRegistry --------------------------
(* A small instance of DomainRegistry for TLC: three hosts of which two are   *)
(* tracked, two requests, days of two minutes.  Host a names this agent and  *)
(* halves its rate in the second minute; b and c publish nothing, and differ  *)
(* in nothing.                                                                *)
EXTENDS DomainRegistry, TLC

CONSTANTS a, b, c, r1, r2

MCHosts == {a, b, c}
MCRequests == {r1, r2}
Symmetry == Permutations(MCRequests) \cup Permutations({b, c})

MCTierRates == [fragile |-> 1, standard |-> 2, robust |-> 2]
MCTierCeilings == [fragile |-> 2, standard |-> 2, robust |-> 2]

NoRules == [n \in {} |-> 0]
Rule(rate) == [rate |-> rate]
Window(days, start, end, multiplier) ==
    [days |-> days, hours |-> "span", start |-> start, end |-> end, multiplier |-> multiplier]

Document ==
    [ default |-> Rule(3), agents |-> ("agent" :> Rule(2)), verified_agents |-> NoRules,
      crawl_windows |-> {Window({}, 1, 0, 1)} ]

\* Without windows, and slower than the others
PlainDocument == [Document EXCEPT !.agents = ("agent" :> Rule(1)), !.crawl_windows = {}]

MCPlainDocuments == a :> PlainDocument @@ b :> Nothing @@ c :> Nothing

MCDocuments == a :> Document @@ b :> Nothing @@ c :> Nothing

MCLongestRetryAfter == a :> 1 @@ b :> 0 @@ c :> 0

\* Every rule there may be for the agent, and every two windows of some
MCWindows ==
    {Window(days, start, end, m) :
        days \in {{}, {0}, {0, OddDay}}, start \in 0..1, end \in 0..1, m \in {0, 1, 4}}
    \cup {[days |-> {1}, hours |-> hours, start |-> 0, end |-> 0, multiplier |-> 3] :
              hours \in {"all", "odd"}}
    \cup {[days |-> {0}, multiplier |-> 4], [hours |-> "span", start |-> 1, end |-> 0]}

Rules == {Rule(1), [tier |-> "fragile"], [rate |-> NoRate, tier |-> "no tier"]}

MCSampleDocuments ==
    {Document, PlainDocument} \cup
    {[ default |-> Rule(3), agents |-> NoRules, verified_agents |-> NoRules,
       crawl_windows |-> {v, w} ] : v \in MCWindows, w \in MCWindows}
    \cup
    {[ default |-> Rule(3), agents |-> [n \in names |-> IF n = "*" THEN Rule(4) ELSE rule],
       verified_agents |-> [n \in ids |-> Rule(2)], crawl_windows |-> {} ] :
        names \in SUBSET {"agent", "*", "id"}, ids \in SUBSET {"agent", "id"}, rule \in Rules}

=============================================================================

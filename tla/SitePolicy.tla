----------------------------- MODULE SitePolicy -----------------------------
(***************************************************************************)
(* policy.py as pure operators: what the file of a site says to an agent,  *)
(* and what it says at a moment; and the document that _cache.py makes of  *)
(* a policy.                                                               *)
(*                                                                         *)
(* A document is what json.loads makes of the file, reduced to the fields  *)
(* that decide how fast the agent goes: the rules and the crawl windows.   *)
(* Each of their fields may be missing.                                    *)
(* Rates are whole numbers, a multiplier is a number of                    *)
(* MultiplierUnit-ths, a day has DayLength minutes (1440 in the code).     *)
(***************************************************************************)
EXTENDS Integers, Sequences, FiniteSets

CONSTANTS
    Days,               \* the days of the week are numbered from 0, as by weekday()
    DayLength,          \* minutes of a day
    MultiplierUnit      \* stands for the multiplier 1.0

ASSUME SitePolicyAssumption ==
    Days \in Nat \ {0} /\ DayLength \in Nat \ {0} /\ MultiplierUnit \in Nat \ {0}

ValidTiers == {"fragile", "standard", "robust"}
DayNumbers == 0..(Days - 1)

None == "none"      \* a name, an identity or a tier that is not given
NoRate == -1        \* a rule without requests_per_second, or with an odd one
OddDay == -1        \* a day whose name is none
OddMultiplier == -1 \* a multiplier that is missing or no number

-----------------------------------------------------------------------------
(* Parsing *)

\* obj.get(key)
Get(obj, key, missing) == IF key \in DOMAIN obj THEN obj[key] ELSE missing

\* _rule: a tier that does not exist is dropped
ParsedRule(obj) ==
    [ rate |-> Get(obj, "rate", NoRate),
      tier |-> IF Get(obj, "tier", None) \in ValidTiers THEN obj.tier ELSE None ]

\* The documents that are modelled: a rate or a multiplier that is given is not negative (the
\* code takes a negative one as it is), and a time of day is one
IsRule(obj) == Get(obj, "rate", NoRate) \in Nat \cup {NoRate}

IsWindow(w) ==
    /\ Get(w, "hours", "all") = "span" => {"start", "end"} \subseteq DOMAIN w
    /\ Get(w, "start", 0) \in 0..(DayLength - 1) /\ Get(w, "end", 0) \in 0..(DayLength - 1)
    /\ Get(w, "multiplier", OddMultiplier) \in Nat \cup {OddMultiplier}

IsDocument(document) ==
    /\ IsRule(document.default)
    /\ \A name \in DOMAIN document.agents : IsRule(document.agents[name])
    /\ \A name \in DOMAIN document.verified_agents : IsRule(document.verified_agents[name])
    /\ IsFiniteSet(document.crawl_windows)
    /\ \A w \in document.crawl_windows : IsWindow(w)

ParsedRules(rules) == [name \in DOMAIN rules |-> ParsedRule(rules[name])]

\* Odd days are dropped: a window whose days are all odd is one for every day.  An odd
\* multiplier is 1.0
ParsedWindow(w) ==
    LET multiplier == Get(w, "multiplier", OddMultiplier)
    IN  [ days |-> Get(w, "days", {}) \cap DayNumbers,
          hours |-> Get(w, "hours", "all"), start |-> Get(w, "start", 0), end |-> Get(w, "end", 0),
          multiplier |-> IF multiplier = OddMultiplier THEN MultiplierUnit ELSE multiplier ]

\* parse_well_known()
Parsed(document) ==
    [ default |-> ParsedRule(document.default),
      agents |-> ParsedRules(document.agents),
      verified_agents |-> ParsedRules(document.verified_agents),
      crawl_windows |-> {ParsedWindow(w) : w \in document.crawl_windows} ]

-----------------------------------------------------------------------------
(* The policy written to disk, as a document again *)

\* The fields of obj that have a value
Present(obj, missing) == [key \in {k \in DOMAIN obj : obj[k] # missing[k]} |-> obj[key]]

\* _rule_to_dict()
WireRule(rule) == Present(rule, [rate |-> NoRate, tier |-> None])

WireRules(rules) == [name \in DOMAIN rules |-> WireRule(rules[name])]

\* Fault: a value counts as missing when it is falsy
WireWindowTruthy(w) ==
    Present(w, [days |-> {}, hours |-> "all", start |-> -1, end |-> -1, multiplier |-> 0])

\* The hours are the only field that may be None
WireWindow(w) ==
    [field \in DOMAIN w \ (IF w.hours = "all" THEN {"hours"} ELSE {}) |-> w[field]]

\* policy_to_wire_dict()
WireDocument(policy) ==
    [ default |-> WireRule(policy.default),
      agents |-> WireRules(policy.agents),
      verified_agents |-> WireRules(policy.verified_agents),
      crawl_windows |-> {WireWindow(w) : w \in policy.crawl_windows} ]

-----------------------------------------------------------------------------
(* Which rule applies *)

\* rule_for()
RuleFor(policy, name, verified) ==
    IF verified # None /\ verified \in DOMAIN policy.verified_agents
    THEN policy.verified_agents[verified]
    ELSE IF name # None /\ name \in DOMAIN policy.agents THEN policy.agents[name]
    ELSE IF name # None /\ "*" \in DOMAIN policy.agents THEN policy.agents["*"]
    ELSE policy.default

-----------------------------------------------------------------------------
(* Crawl windows.  A moment is a day and a minute of it. *)

Moments == [day : DayNumbers, minute : 0..(DayLength - 1)]

NextMoment(now) ==
    IF now.minute < DayLength - 1
    THEN [now EXCEPT !.minute = @ + 1]
    ELSE [day |-> (now.day + 1) % Days, minute |-> 0]

\* Fault: hours that wrap past midnight are not told apart
IsActiveNoWrap(w, now) ==
    /\ w.days = {} \/ now.day \in w.days
    /\ \/ w.hours = "all"
       \/ w.hours = "span" /\ w.start <= now.minute /\ now.minute < w.end

\* is_active().  hours is missing ("all"), is start-end ("span") or does not parse ("odd")
IsActive(w, now) ==
    /\ w.days = {} \/ now.day \in w.days
    /\ \/ w.hours = "all"
       \/ /\ w.hours = "span"
          /\ IF w.start <= w.end
             THEN w.start <= now.minute /\ now.minute < w.end
             ELSE now.minute >= w.start \/ now.minute < w.end

\* active_multiplier(): the largest of the active windows
ActiveMultiplier(windows, now) ==
    LET active == {w.multiplier : w \in {v \in windows : IsActive(v, now)}}
    IN  IF active = {} THEN MultiplierUnit ELSE CHOOSE m \in active : \A n \in active : n <= m

=============================================================================

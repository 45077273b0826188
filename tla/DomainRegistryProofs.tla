------------------------ MODULE DomainRegistryProofs ------------------------
(***************************************************************************)
(* Theorems about DomainRegistry, for any number of hosts and requests,    *)
(* any table size and any documents.                                       *)
(*                                                                         *)
(* The inductive invariant is IInv.  A host leaves the table when it is    *)
(* cold because the table is in the order of the last requests (Once,      *)
(* Ordered); a Retry-After outlives the steps because requests and table   *)
(* share the DomainState of a host that is tracked (Busy, Alive, Shared),  *)
(* so what a response notes there is what the next sleep looks at          *)
(* (FloorsKept, SleepersKnow); and the ceiling is that of the document     *)
(* (RuledByDocument).  Alone, which says who is allowed a rate, needs      *)
(* documents that are spelled well, and stands apart.                      *)
(***************************************************************************)
EXTENDS DomainRegistry, MethodProofs, FiniteSetTheorems

-----------------------------------------------------------------------------
(* Numbers and finite sets *)

\* A finite set of numbers that is not empty has a largest: of the subsets that have none
\* there would be a smallest one.
LEMMA LargestMember ==
    ASSUME NEW S \in SUBSET Int, IsFiniteSet(S), S # {}
    PROVE  \E m \in S : \A n \in S : n <= m
<1> DEFINE Endless == {T \in SUBSET S : T # {} /\ \A m \in T : \E n \in T : n > m}
<1>1. \A T \in SUBSET S : IsFiniteSet(T) /\ Cardinality(T) \in Nat
  BY FS_Subset, FS_CardinalityType
<1>2. ASSUME Endless # {}
      PROVE  FALSE
  <2>1. PICK k \in {Cardinality(T) : T \in Endless} :
                 \A n \in {Cardinality(T) : T \in Endless} : k <= n
    <3> DEFINE sizes == {Cardinality(T) : T \in Endless}
    <3>1. sizes \in SUBSET Nat /\ sizes # {}
      BY <1>1, <1>2
    <3> HIDE DEF sizes
    <3>2. \E x \in sizes : \A y \in sizes : x <= y
      BY <3>1, LeastMember
    <3> QED
      BY <3>2 DEF sizes
  <2>2. PICK T \in Endless : k = Cardinality(T)
    BY <2>1
  <2>3. PICK x \in T : TRUE
    OBVIOUS
  <2>4. T \ {x} \in SUBSET S /\ Cardinality(T \ {x}) = k - 1 /\ k \in Nat
    BY <1>1, <2>2, <2>3, FS_RemoveElement
  <2>5. T \ {x} \notin Endless
    <3>1. Cardinality(T \ {x}) < k
      BY <2>4
    <3> HIDE DEF Endless
    <3>2. ASSUME T \ {x} \in Endless
          PROVE  FALSE
      BY <2>1, <2>4, <3>1, <3>2
    <3> QED
      BY <3>2
  <2>6. CASE T \ {x} = {}
    <3>1. \A n \in T : n = x
      BY <2>6
    <3> QED
      BY <2>3, <3>1
  <2>7. CASE T \ {x} # {}
    <3>1. PICK m \in T \ {x} : \A n \in T \ {x} : ~(n > m)
      BY <2>4, <2>5, <2>7
    <3>2. \A n \in T : n # x => n <= m
      BY <3>1
    <3>3. CASE x > m
      BY <2>3, <3>2, <3>3
    <3>4. CASE ~(x > m)
      BY <2>3, <3>1, <3>2, <3>4
    <3> QED
      BY <3>3, <3>4
  <2> QED
    BY <2>6, <2>7
<1> QED
  BY <1>2

\* The remainders of numbers that are less than one turn off.
LEMMA OneTurn ==
    ASSUME NEW n \in Nat \ {0}, NEW x \in 0..(n - 1)
    PROVE  x % n = x /\ (x + n) % n = x /\ (x - n) % n = x
<1>1. x % n = x
  OBVIOUS
<1>2. (x + n) % n = x
  OBVIOUS
<1>3. (x - n) % n = x
  OBVIOUS
<1> QED
  BY <1>1, <1>2, <1>3

-----------------------------------------------------------------------------
(* Documents *)

\* Hours that wrap around midnight are the minutes counted around the clock.
LEMMA SpanIsAroundTheClock ==
    ASSUME NEW w, w.start \in 0..(DayLength - 1), w.end \in 0..(DayLength - 1),
           NEW minute \in 0..(DayLength - 1)
    PROVE  minute \in SpanMinutes(w) <=>
             IF w.start <= w.end THEN w.start <= minute /\ minute < w.end
             ELSE minute >= w.start \/ minute < w.end
<1> DEFINE start == w.start
           end == w.end
           length == (end - start) % DayLength
<1>1. DayLength \in Nat \ {0}
  BY SitePolicyAssumption
<1>2. start \in 0..(DayLength - 1) /\ end \in 0..(DayLength - 1)
  OBVIOUS
<1> HIDE DEF start, end
<1>3. length = IF start <= end THEN end - start ELSE end - start + DayLength
  <2>1. CASE start <= end
    <3>1. end - start \in 0..(DayLength - 1)
      BY <1>1, <1>2, <2>1
    <3> QED
      BY <1>1, <2>1, <3>1, OneTurn
  <2>2. CASE ~(start <= end)
    <3> DEFINE x == end - start + DayLength
    <3>1. x \in 0..(DayLength - 1) /\ end - start = x - DayLength
      BY <1>1, <1>2, <2>2
    <3> HIDE DEF x
    <3>2. (x - DayLength) % DayLength = x
      BY <1>1, <3>1, OneTurn
    <3> QED
      BY <2>2, <3>1, <3>2 DEF x
  <2> QED
    BY <2>1, <2>2
<1>4. minute \in SpanMinutes(w) <=>
        \E k \in 0..(length - 1) : minute = (start + k) % DayLength
  BY DEF SpanMinutes, start, end
<1>5. ASSUME NEW k \in 0..(DayLength - 1)
      PROVE  (start + k) % DayLength
               = IF start + k < DayLength THEN start + k ELSE start + k - DayLength
  <2>1. CASE start + k < DayLength
    <3>1. start + k \in 0..(DayLength - 1)
      BY <1>1, <1>2, <2>1
    <3> QED
      BY <1>1, <2>1, <3>1, OneTurn
  <2>2. CASE ~(start + k < DayLength)
    <3> DEFINE x == start + k - DayLength
    <3>1. x \in 0..(DayLength - 1) /\ start + k = x + DayLength
      BY <1>1, <1>2, <2>2
    <3> HIDE DEF x
    <3>2. (x + DayLength) % DayLength = x
      BY <1>1, <3>1, OneTurn
    <3> QED
      BY <2>2, <3>1, <3>2 DEF x
  <2> QED
    BY <2>1, <2>2
<1> HIDE DEF length
<1>6. length \in 0..(DayLength - 1)
  BY <1>1, <1>2, <1>3
<1>7. ASSUME NEW k \in 0..(length - 1), minute = (start + k) % DayLength
      PROVE  IF start <= end THEN start <= minute /\ minute < end
             ELSE minute >= start \/ minute < end
  <2>1. k \in 0..(DayLength - 1)
    BY <1>1, <1>6
  <2>2. minute = IF start + k < DayLength THEN start + k ELSE start + k - DayLength
    BY <1>5, <1>7, <2>1
  <2> QED
    BY <1>1, <1>2, <1>3, <1>7, <2>1, <2>2
<1>8. ASSUME IF start <= end THEN start <= minute /\ minute < end
             ELSE minute >= start \/ minute < end
      PROVE  \E k \in 0..(length - 1) : minute = (start + k) % DayLength
  <2> DEFINE k == IF start <= minute THEN minute - start ELSE minute - start + DayLength
  <2>1. k \in 0..(length - 1) /\ k \in 0..(DayLength - 1)
    BY <1>1, <1>2, <1>3, <1>8
  <2>2. minute = IF start + k < DayLength THEN start + k ELSE start + k - DayLength
    BY <1>1, <1>2, <1>8
  <2> HIDE DEF k
  <2>3. minute = (start + k) % DayLength
    BY <1>5, <2>1, <2>2
  <2> QED
    BY <2>1, <2>3
<1> QED
  BY <1>4, <1>7, <1>8 DEF start, end

\* A document without a window whose days are all odd, or whose multiplier is: to the code
\* that is one for every day, or one that changes nothing
WellSpelled(document) ==
    \A w \in document.crawl_windows :
        /\ Get(w, "days", {}) \cap DayNumbers = {} => Get(w, "days", {}) = {}
        /\ Get(w, "multiplier", MultiplierUnit) # OddMultiplier

LEMMA WindowIsRead ==
    ASSUME NEW w, IsWindow(w), NEW moment \in Moments,
           Get(w, "days", {}) \cap DayNumbers = {} => Get(w, "days", {}) = {},
           Get(w, "multiplier", MultiplierUnit) # OddMultiplier
    PROVE  /\ IsActive(ParsedWindow(w), moment) <=> OpenAt(w, moment)
           /\ ParsedWindow(w).multiplier = Get(w, "multiplier", MultiplierUnit)
<1> DEFINE parsed == ParsedWindow(w)
<1>1. /\ parsed.days = Get(w, "days", {}) \cap DayNumbers
      /\ parsed.hours = Get(w, "hours", "all")
      /\ parsed.start = Get(w, "start", 0) /\ parsed.end = Get(w, "end", 0)
  BY DEF ParsedWindow
<1>2. parsed.multiplier = Get(w, "multiplier", MultiplierUnit)
  BY DEF ParsedWindow, Get
<1>3. moment.day \in DayNumbers /\ moment.minute \in 0..(DayLength - 1)
  BY DEF Moments
<1> HIDE DEF parsed
<1>4. (parsed.days = {} \/ moment.day \in parsed.days)
        <=> (Get(w, "days", {}) = {} \/ moment.day \in w.days)
  BY <1>1, <1>3 DEF Get
<1>5. CASE Get(w, "hours", "all") = "all"
  BY <1>1, <1>2, <1>4, <1>5 DEF IsActive, OpenAt, parsed
<1>6. CASE Get(w, "hours", "all") # "all"
  <2>1. w.hours = Get(w, "hours", "all") /\ parsed.hours = w.hours
    BY <1>1, <1>6 DEF Get
  <2>2. CASE w.hours = "span"
    <3>1. w.start = parsed.start /\ w.end = parsed.end
      BY <1>1, <2>1, <2>2 DEF IsWindow, Get
    <3>2. w.start \in 0..(DayLength - 1) /\ w.end \in 0..(DayLength - 1)
      BY <1>1, <3>1 DEF IsWindow
    <3>3. moment.minute \in SpanMinutes(w) <=>
            IF w.start <= w.end THEN w.start <= moment.minute /\ moment.minute < w.end
            ELSE moment.minute >= w.start \/ moment.minute < w.end
      BY <1>3, <3>2, SpanIsAroundTheClock
    <3> QED
      BY <1>2, <1>4, <1>6, <2>1, <2>2, <3>1, <3>3 DEF IsActive, OpenAt, parsed
  <2>3. CASE w.hours # "span"
    BY <1>2, <1>4, <1>6, <2>1, <2>3 DEF IsActive, OpenAt, parsed
  <2> QED
    BY <2>2, <2>3
<1> QED
  BY <1>5, <1>6

\* The agent finds the multiplier that is declared.
LEMMA MultiplierIsRead ==
    ASSUME NEW document, IsDocument(document), WellSpelled(document), NEW moment \in Moments
    PROVE  ActiveMultiplier(Parsed(document).crawl_windows, moment)
             = DeclaredMultiplier(document, moment)
<1> DEFINE windows == document.crawl_windows
           parsed == Parsed(document).crawl_windows
           active == {v.multiplier : v \in {u \in parsed : IsActive(u, moment)}}
           factors == {Get(w, "multiplier", MultiplierUnit) :
                          w \in {v \in windows : OpenAt(v, moment)}}
<1>1. parsed = {ParsedWindow(w) : w \in windows}
  BY DEF Parsed
<1>2. \A w \in windows :
        /\ IsActive(ParsedWindow(w), moment) <=> OpenAt(w, moment)
        /\ ParsedWindow(w).multiplier = Get(w, "multiplier", MultiplierUnit)
  BY WindowIsRead DEF IsDocument, WellSpelled
<1> HIDE DEF parsed, windows
<1>3. active \subseteq factors
  BY <1>1, <1>2
<1>4. factors \subseteq active
  <2> SUFFICES ASSUME NEW w \in windows, OpenAt(w, moment)
               PROVE  Get(w, "multiplier", MultiplierUnit) \in active
    OBVIOUS
  <2>1. ParsedWindow(w) \in parsed /\ IsActive(ParsedWindow(w), moment)
    BY <1>1, <1>2
  <2> QED
    BY <1>2, <2>1
<1>5. active = factors
  BY <1>3, <1>4
<1> HIDE DEF active, factors
<1>6. ActiveMultiplier(parsed, moment)
        = IF active = {} THEN MultiplierUnit ELSE CHOOSE m \in active : \A n \in active : n <= m
  BY DEF ActiveMultiplier, active
<1>7. DeclaredMultiplier(document, moment)
        = IF factors = {} THEN MultiplierUnit
          ELSE CHOOSE m \in factors : \A n \in factors : n <= m
  BY DEF DeclaredMultiplier, factors, windows
<1> QED
  BY <1>5, <1>6, <1>7 DEF parsed

\* The agent follows the most specific entry there is for it.
LEMMA RateIsRead ==
    ASSUME NEW document
    PROVE  RateOf(RuleFor(Parsed(document), AgentName, VerifiedIdentity)) = DeclaredRate(document)
<1> DEFINE policy == Parsed(document)
           entries == Entries(document)
           entry == CHOOSE e \in entries : \A f \in entries : f.rank <= e.rank
           Read(obj) == LET tier == IF Get(obj, "tier", None) \in ValidTiers
                                    THEN obj.tier ELSE DefaultTier
                        IN  IF Get(obj, "rate", NoRate) # NoRate THEN Get(obj, "rate", NoRate)
                            ELSE TierRates[tier]
<1>1. ASSUME NEW obj
      PROVE  RateOf(ParsedRule(obj)) = Read(obj)
  BY DEF RateOf, ParsedRule, ValidTiers, None, Get
<1>2. DeclaredRate(document) = Read(entry.rule)
  BY DEF DeclaredRate
<1> SUFFICES RateOf(RuleFor(policy, AgentName, VerifiedIdentity)) = Read(entry.rule)
  BY <1>2
<1>3. /\ policy.default = ParsedRule(document.default)
      /\ DOMAIN policy.agents = DOMAIN document.agents
      /\ DOMAIN policy.verified_agents = DOMAIN document.verified_agents
      /\ \A n \in DOMAIN document.agents : policy.agents[n] = ParsedRule(document.agents[n])
      /\ \A n \in DOMAIN document.verified_agents :
             policy.verified_agents[n] = ParsedRule(document.verified_agents[n])
  BY DEF Parsed, ParsedRules
<1> HIDE DEF policy
<1>4. \A e : e \in entries <=>
        \/ /\ VerifiedIdentity # None /\ VerifiedIdentity \in DOMAIN document.verified_agents
           /\ e = [rank |-> 3, rule |-> document.verified_agents[VerifiedIdentity]]
        \/ /\ AgentName # None /\ AgentName \in DOMAIN document.agents
           /\ e = [rank |-> 2, rule |-> document.agents[AgentName]]
        \/ /\ AgentName # None /\ "*" \in DOMAIN document.agents
           /\ e = [rank |-> 1, rule |-> document.agents["*"]]
        \/ e = [rank |-> 0, rule |-> document.default]
  BY DEF Entries
<1> HIDE DEF entries, Read
<1>5. ASSUME NEW top \in entries, \A e \in entries : e.rank <= top.rank
      PROVE  entry = top
  <2>1. \A e, f \in entries : e.rank \in Int /\ (e.rank = f.rank => e = f)
    BY <1>4
  <2>2. entry \in entries /\ \A f \in entries : f.rank <= entry.rank
    BY <1>5
  <2> QED
    BY <1>5, <2>1, <2>2
<1> HIDE DEF entry
<1>6. CASE VerifiedIdentity # None /\ VerifiedIdentity \in DOMAIN document.verified_agents
  <2>1. entry = [rank |-> 3, rule |-> document.verified_agents[VerifiedIdentity]]
    <3> DEFINE top == [rank |-> 3, rule |-> document.verified_agents[VerifiedIdentity]]
    <3>1. top \in entries /\ top.rank = 3
      BY <1>4, <1>6
    <3>2. \A e \in entries : e.rank <= 3
      BY <1>4, <1>6
    <3> HIDE DEF top
    <3>3. entry = top
      BY <1>5, <3>1, <3>2
    <3> QED
      BY <3>3 DEF top
  <2>2. RuleFor(policy, AgentName, VerifiedIdentity)
          = ParsedRule(document.verified_agents[VerifiedIdentity])
    BY <1>3, <1>6 DEF RuleFor
  <2>3. entry.rule = document.verified_agents[VerifiedIdentity]
    BY <2>1
  <2>4. RateOf(ParsedRule(document.verified_agents[VerifiedIdentity]))
          = Read(document.verified_agents[VerifiedIdentity])
    BY <1>1
  <2> QED
    BY <2>2, <2>3, <2>4
<1>7. CASE /\ ~(VerifiedIdentity # None /\ VerifiedIdentity \in DOMAIN document.verified_agents)
           /\ AgentName # None /\ AgentName \in DOMAIN document.agents
  <2>1. entry = [rank |-> 2, rule |-> document.agents[AgentName]]
    <3> DEFINE top == [rank |-> 2, rule |-> document.agents[AgentName]]
    <3>1. top \in entries /\ top.rank = 2
      BY <1>4, <1>7
    <3>2. \A e \in entries : e.rank <= 2
      BY <1>4, <1>7
    <3> HIDE DEF top
    <3>3. entry = top
      BY <1>5, <3>1, <3>2
    <3> QED
      BY <3>3 DEF top
  <2>2. RuleFor(policy, AgentName, VerifiedIdentity) = ParsedRule(document.agents[AgentName])
    BY <1>3, <1>7 DEF RuleFor
  <2>3. entry.rule = document.agents[AgentName]
    BY <2>1
  <2>4. RateOf(ParsedRule(document.agents[AgentName])) = Read(document.agents[AgentName])
    BY <1>1
  <2> QED
    BY <2>2, <2>3, <2>4
<1>8. CASE /\ ~(VerifiedIdentity # None /\ VerifiedIdentity \in DOMAIN document.verified_agents)
           /\ ~(AgentName # None /\ AgentName \in DOMAIN document.agents)
           /\ AgentName # None /\ "*" \in DOMAIN document.agents
  <2>1. entry = [rank |-> 1, rule |-> document.agents["*"]]
    <3> DEFINE top == [rank |-> 1, rule |-> document.agents["*"]]
    <3>1. top \in entries /\ top.rank = 1
      BY <1>4, <1>8
    <3>2. \A e \in entries : e.rank <= 1
      BY <1>4, <1>8
    <3> HIDE DEF top
    <3>3. entry = top
      BY <1>5, <3>1, <3>2
    <3> QED
      BY <3>3 DEF top
  <2>2. RuleFor(policy, AgentName, VerifiedIdentity) = ParsedRule(document.agents["*"])
    BY <1>3, <1>8 DEF RuleFor
  <2>3. entry.rule = document.agents["*"]
    BY <2>1
  <2>4. RateOf(ParsedRule(document.agents["*"])) = Read(document.agents["*"])
    BY <1>1
  <2> QED
    BY <2>2, <2>3, <2>4
<1>9. CASE /\ ~(VerifiedIdentity # None /\ VerifiedIdentity \in DOMAIN document.verified_agents)
           /\ ~(AgentName # None /\ AgentName \in DOMAIN document.agents)
           /\ ~(AgentName # None /\ "*" \in DOMAIN document.agents)
  <2>1. entry = [rank |-> 0, rule |-> document.default]
    <3> DEFINE top == [rank |-> 0, rule |-> document.default]
    <3>1. top \in entries /\ top.rank = 0
      BY <1>4, <1>9
    <3>2. \A e \in entries : e.rank <= 0
      BY <1>4, <1>9
    <3> HIDE DEF top
    <3>3. entry = top
      BY <1>5, <3>1, <3>2
    <3> QED
      BY <3>3 DEF top
  <2>2. RuleFor(policy, AgentName, VerifiedIdentity) = ParsedRule(document.default)
    BY <1>3, <1>9 DEF RuleFor
  <2>3. entry.rule = document.default
    BY <2>1
  <2>4. RateOf(ParsedRule(document.default)) = Read(document.default)
    BY <1>1
  <2> QED
    BY <2>2, <2>3, <2>4
<1> QED
  BY <1>6, <1>7, <1>8, <1>9

\* What the cache writes is read back as the policy that was written.
LEMMA RuleReadsBack ==
    ASSUME NEW obj PROVE ParsedRule(WireRule(ParsedRule(obj))) = ParsedRule(obj)
<1> DEFINE rule == ParsedRule(obj)
           wire == WireRule(rule)
<1>1. /\ rule = [rate |-> rule.rate, tier |-> rule.tier]
      /\ rule.tier \in ValidTiers \cup {None}
  BY DEF ParsedRule, ValidTiers, None, Get
<1> HIDE DEF rule
<1>2. /\ DOMAIN wire = {k \in {"rate", "tier"} : rule[k] # [rate |-> NoRate, tier |-> None][k]}
      /\ \A k \in DOMAIN wire : wire[k] = rule[k]
  BY <1>1 DEF WireRule, Present
<1> HIDE DEF wire
<1>3. Get(wire, "rate", NoRate) = rule.rate
  BY <1>2 DEF Get
<1>4. Get(wire, "tier", None) = rule.tier
  BY <1>2 DEF Get
<1>5. rule.tier \in ValidTiers => wire.tier = rule.tier
  BY <1>2 DEF ValidTiers, None
<1> QED
  BY <1>1, <1>3, <1>4, <1>5 DEF ParsedRule, rule, wire

LEMMA WindowReadsBack ==
    ASSUME NEW w PROVE ParsedWindow(WireWindow(ParsedWindow(w))) = ParsedWindow(w)
<1> DEFINE parsed == ParsedWindow(w)
           wire == WireWindow(parsed)
           fields == {"days", "hours", "start", "end", "multiplier"}
<1>1. /\ parsed = [days |-> parsed.days, hours |-> parsed.hours, start |-> parsed.start,
                   end |-> parsed.end, multiplier |-> parsed.multiplier]
      /\ parsed.days \subseteq DayNumbers
      /\ parsed.multiplier # OddMultiplier
  BY SitePolicyAssumption DEF ParsedWindow, OddMultiplier
<1> HIDE DEF parsed
<1>2. /\ DOMAIN wire = IF parsed.hours = "all" THEN fields \ {"hours"} ELSE fields
      /\ \A k \in DOMAIN wire : wire[k] = parsed[k]
  BY <1>1 DEF WireWindow
<1> HIDE DEF wire
<1>3. /\ Get(wire, "days", {}) = parsed.days /\ Get(wire, "hours", "all") = parsed.hours
      /\ Get(wire, "start", 0) = parsed.start /\ Get(wire, "end", 0) = parsed.end
      /\ Get(wire, "multiplier", OddMultiplier) = parsed.multiplier
  BY <1>2 DEF Get
<1>4. parsed.days \cap DayNumbers = parsed.days
  BY <1>1
<1> QED
  BY <1>1, <1>3, <1>4 DEF ParsedWindow, parsed, wire

LEMMA PolicyReadsBack ==
    ASSUME NEW document
    PROVE  Parsed(WireDocument(Parsed(document))) = Parsed(document)
<1> DEFINE policy == Parsed(document)
           wire == WireDocument(policy)
<1>1. ASSUME NEW rules
      PROVE  ParsedRules(WireRules(ParsedRules(rules))) = ParsedRules(rules)
  BY RuleReadsBack DEF ParsedRules, WireRules
<1>2. ASSUME NEW windows
      PROVE  {ParsedWindow(v) : v \in {WireWindow(u) : u \in {ParsedWindow(w) : w \in windows}}}
               = {ParsedWindow(w) : w \in windows}
  BY WindowReadsBack
<1>3. /\ policy.default = ParsedRule(document.default)
      /\ policy.agents = ParsedRules(document.agents)
      /\ policy.verified_agents = ParsedRules(document.verified_agents)
      /\ policy.crawl_windows = {ParsedWindow(w) : w \in document.crawl_windows}
  BY DEF Parsed
<1>4. /\ wire.default = WireRule(policy.default)
      /\ wire.agents = WireRules(policy.agents)
      /\ wire.verified_agents = WireRules(policy.verified_agents)
      /\ wire.crawl_windows = {WireWindow(w) : w \in policy.crawl_windows}
  BY DEF WireDocument
<1> HIDE DEF policy, wire
<1>5. /\ ParsedRule(wire.default) = ParsedRule(document.default)
      /\ ParsedRules(wire.agents) = ParsedRules(document.agents)
      /\ ParsedRules(wire.verified_agents) = ParsedRules(document.verified_agents)
      /\ {ParsedWindow(w) : w \in wire.crawl_windows}
           = {ParsedWindow(w) : w \in document.crawl_windows}
  BY <1>1, <1>2, <1>3, <1>4, RuleReadsBack
<1>6. Parsed(wire) = Parsed(document)
  BY <1>5 DEF Parsed
<1> QED
  BY <1>6 DEF policy, wire

\* Rates and multipliers are numbers from 0 up.
LEMMA RateIsNumber ==
    ASSUME NEW document, IsDocument(document)
    PROVE  DeclaredRate(document) \in Nat
<1>1. ASSUME NEW obj, IsRule(obj)
      PROVE  RateOf(ParsedRule(obj)) \in Nat
  BY <1>1, RegistryAssumption DEF IsRule, RateOf, ParsedRule, ValidTiers, None, Get
<1>2. \E obj : IsRule(obj) /\
          RuleFor(Parsed(document), AgentName, VerifiedIdentity) = ParsedRule(obj)
  BY DEF RuleFor, Parsed, ParsedRules, IsDocument
<1>3. RateOf(RuleFor(Parsed(document), AgentName, VerifiedIdentity)) \in Nat
  BY <1>1, <1>2
<1> QED
  BY <1>3, RateIsRead

LEMMA MultiplierIsNumber ==
    ASSUME NEW document, IsDocument(document), NEW moment
    PROVE  ActiveMultiplier(Parsed(document).crawl_windows, moment) \in Nat
<1> DEFINE windows == document.crawl_windows
           opened == {w \in windows : IsActive(ParsedWindow(w), moment)}
           active == {v.multiplier : v \in {u \in Parsed(document).crawl_windows :
                                               IsActive(u, moment)}}
           read == [w \in opened |-> ParsedWindow(w).multiplier]
<1>1. \A w \in windows : ParsedWindow(w).multiplier \in Nat
  BY SitePolicyAssumption DEF IsDocument, IsWindow, ParsedWindow
<1>2. active = {ParsedWindow(w).multiplier : w \in opened}
  BY DEF Parsed
<1>3. active \in SUBSET Nat
  BY <1>1, <1>2
<1>4. IsFiniteSet(opened)
  BY FS_Subset DEF IsDocument
<1>5. read \in Surjection(opened, active)
  <2>1. \A w \in opened : read[w] \in active
    BY <1>2
  <2>2. \A m \in active : \E w \in opened : read[w] = m
    BY <1>2
  <2> HIDE DEF active, opened
  <2> QED
    BY <2>1, <2>2 DEF Surjection
<1> HIDE DEF active, read
<1>6. IsFiniteSet(active)
  BY <1>4, <1>5, FS_Surjection
<1>7. active # {} => \E m \in active : \A n \in active : n <= m
  BY <1>3, <1>6, LargestMember
<1>8. ActiveMultiplier(Parsed(document).crawl_windows, moment)
        = IF active = {} THEN MultiplierUnit ELSE CHOOSE m \in active : \A n \in active : n <= m
  BY DEF ActiveMultiplier, active
<1> QED
  BY <1>3, <1>7, <1>8, SitePolicyAssumption

-----------------------------------------------------------------------------
(* DomainStates *)

\* What a DomainState with a policy has of the document of its host
IsRuled(h, d) ==
    d.hard_ceiling => Documents[h] # Nothing /\ d.base_ceiling = DeclaredRate(Documents[h])

LEMMA HostDocument ==
    ASSUME NEW h \in Hosts, Documents[h] # Nothing
    PROVE  /\ Documents[h] \in SampleDocuments /\ IsDocument(Documents[h])
           /\ HostPolicy[h] = Parsed(Documents[h])
BY RegistryAssumption DEF HostPolicy

LEMMA NewDomainStateTyped ==
    /\ NewDomainState \in DomainStates
    /\ NewDomainState.hard_ceiling = FALSE /\ NewDomainState.fetched = FALSE
    /\ NewDomainState.floor = 0
<1>1. /\ TierCeilings[DefaultTier] \in Nat /\ TierRates[DefaultTier] \in Nat
      /\ InitialBurst \in Nat
  BY RegistryAssumption
<1>2. InitController(TierRates[DefaultTier], InitialBurst) \in ControllerRecords
  BY <1>1, InitControllerRuns
<1>3. [InitController(TierRates[DefaultTier], InitialBurst) EXCEPT !.baseline = TRUE]
        \in ControllerRecords
  BY <1>2 DEF ControllerRecords
<1>4. CeilingSet([InitController(TierRates[DefaultTier], InitialBurst) EXCEPT !.baseline = TRUE],
                 TierCeilings[DefaultTier]) \in ControllerRecords
  BY <1>1, <1>3, ControllerTyped
<1> QED
  BY <1>1, <1>4 DEF NewDomainState, DomainStates

LEMMA CeilingIsNumber ==
    ASSUME NEW h \in Hosts, NEW d \in DomainStates, d.hard_ceiling => Documents[h] # Nothing,
           NEW moment
    PROVE  CeilingAt(h, d, moment) \in Nat
<1>1. d.base_ceiling \in Nat
  BY DEF DomainStates
<1>2. CASE d.hard_ceiling
  <2> DEFINE multiplier == ActiveMultiplier(HostPolicy[h].crawl_windows, moment)
  <2>1. multiplier \in Nat
    BY <1>2, HostDocument, MultiplierIsNumber
  <2> HIDE DEF multiplier
  <2>2. d.base_ceiling * multiplier \in Nat
    BY <1>1, <2>1, BucketArithmetic
  <2>3. (d.base_ceiling * multiplier) \div MultiplierUnit \in Nat
    BY <2>2, SitePolicyAssumption, BucketArithmetic
  <2> QED
    BY <1>2, <2>3 DEF CeilingAt, multiplier
<1>3. CASE ~d.hard_ceiling
  BY <1>1, <1>3 DEF CeilingAt
<1> QED
  BY <1>2, <1>3

\* The ceiling of a policy is the one that is declared.
LEMMA CeilingIsDeclared ==
    ASSUME NEW h \in Hosts, NEW d, d.hard_ceiling, IsRuled(h, d), NEW moment \in Moments,
           \A document \in SampleDocuments : WellSpelled(document)
    PROVE  CeilingAt(h, d, moment) = Declared(h, moment)
BY HostDocument, MultiplierIsRead DEF IsRuled, CeilingAt, Declared

LEMMA DeclaredIsNumber ==
    ASSUME NEW h \in Hosts, IsDocument(Documents[h]), NEW moment \in Moments
    PROVE  Declared(h, moment) \in Int
<1> DEFINE document == Documents[h]
           opened == {w \in document.crawl_windows : OpenAt(w, moment)}
           factors == {Get(w, "multiplier", MultiplierUnit) : w \in opened}
<1>1. \A w \in opened : Get(w, "multiplier", MultiplierUnit) \in Int
  BY SitePolicyAssumption DEF IsDocument, IsWindow, Get, OddMultiplier
<1>2. IsFiniteSet(opened)
  BY FS_Subset DEF IsDocument
<1>3. factors \in SUBSET Int
  BY <1>1
<1>4. IsFiniteSet(factors)
  <2> DEFINE given == [w \in opened |-> Get(w, "multiplier", MultiplierUnit)]
  <2> HIDE DEF opened
  <2>1. given \in Surjection(opened, factors)
    BY DEF Surjection
  <2> HIDE DEF factors, given
  <2> QED
    BY <1>2, <2>1, FS_Surjection
<1>5. DeclaredMultiplier(document, moment)
        = IF factors = {} THEN MultiplierUnit
          ELSE CHOOSE m \in factors : \A n \in factors : n <= m
  BY DEF DeclaredMultiplier
<1> HIDE DEF factors
<1>6. DeclaredMultiplier(document, moment) \in Int
  <2>1. factors # {} => \E m \in factors : \A n \in factors : n <= m
    BY <1>3, <1>4, LargestMember
  <2>2. CASE factors = {}
    BY <1>5, <2>2, SitePolicyAssumption
  <2>3. CASE factors # {}
    <3>1. (CHOOSE m \in factors : \A n \in factors : n <= m) \in factors
      BY <2>1, <2>3
    <3> QED
      BY <1>3, <1>5, <2>3, <3>1
  <2> QED
    BY <2>2, <2>3
<1>7. DeclaredRate(document) \in Int
  BY RateIsNumber
<1>8. DeclaredRate(document) * DeclaredMultiplier(document, moment) \in Int
  BY <1>6, <1>7
<1> QED
  BY <1>8, SitePolicyAssumption DEF Declared

LEMMA RefreshTyped ==
    ASSUME NEW h \in Hosts, NEW d \in DomainStates, d.hard_ceiling => Documents[h] # Nothing,
           NEW moment
    PROVE  LET e == Refreshed(h, d, moment)
           IN  /\ e \in DomainStates /\ e.controller.rate <= CeilingAt(h, d, moment)
               /\ e.hard_ceiling = d.hard_ceiling /\ e.base_ceiling = d.base_ceiling
               /\ e.floor = d.floor
<1> DEFINE k == CeilingSet(d.controller, CeilingAt(h, d, moment))
<1>1. d.controller \in ControllerRecords
  BY DEF DomainStates
<1>2. k \in ControllerRecords /\ k.rate <= CeilingAt(h, d, moment)
  BY <1>1, CeilingIsNumber, ControllerTyped
<1>3. Refreshed(h, d, moment) = [d EXCEPT !.controller = k]
  BY DEF Refreshed
<1> HIDE DEF k
<1> QED
  BY <1>2, <1>3 DEF DomainStates

LEMMA PolicyTyped ==
    ASSUME NEW h \in Hosts, NEW d \in DomainStates, Documents[h] # Nothing, NEW moment
    PROVE  LET e == PolicyApplied(h, d, moment)
           IN  /\ e \in DomainStates /\ IsRuled(h, e) /\ e.floor = d.floor
               /\ CeilingAt(h, e, moment) \in Nat
<1> DEFINE rate == RateOf(RuleFor(HostPolicy[h], AgentName, VerifiedIdentity))
           given == [d EXCEPT !.fetched = TRUE, !.hard_ceiling = TRUE, !.base_ceiling = rate,
                              !.controller.rate = IF d.calibrated THEN Least(@, rate) ELSE rate]
<1>1. rate = DeclaredRate(Documents[h]) /\ rate \in Nat
  BY HostDocument, RateIsRead, RateIsNumber
<1>2. PolicyApplied(h, d, moment) = Refreshed(h, given, moment)
  BY DEF PolicyApplied
<1> HIDE DEF rate
<1>3. /\ given \in DomainStates /\ given.hard_ceiling /\ given.base_ceiling = rate
      /\ given.floor = d.floor
  BY <1>1 DEF DomainStates, ControllerRecords, Least
<1> HIDE DEF given
<1>4. /\ Refreshed(h, given, moment) \in DomainStates
      /\ Refreshed(h, given, moment).hard_ceiling = given.hard_ceiling
      /\ Refreshed(h, given, moment).base_ceiling = given.base_ceiling
      /\ Refreshed(h, given, moment).floor = given.floor
  BY <1>3, RefreshTyped
<1>5. CeilingAt(h, Refreshed(h, given, moment), moment) \in Nat
  BY <1>4, CeilingIsNumber
<1> QED
  BY <1>1, <1>2, <1>3, <1>4, <1>5 DEF IsRuled

LEMMA InferenceTyped ==
    ASSUME NEW h \in Hosts, NEW d \in DomainStates, IsRuled(h, d), NEW tier \in ValidTiers,
           NEW moment
    PROVE  LET e == Inferred(h, d, tier, moment)
           IN  e \in DomainStates /\ IsRuled(h, e) /\ e.floor = d.floor
<1>1. TierCeilings[tier] \in Nat /\ TierRates[tier] \in Nat
  BY RegistryAssumption
<1>2. CASE d.hard_ceiling
  BY <1>2 DEF Inferred, DomainStates, IsRuled
<1>3. CASE ~d.hard_ceiling
  <2> DEFINE base == [d EXCEPT !.calibrated = TRUE, !.base_ceiling = TierCeilings[tier]]
             capped == Refreshed(h, base, moment)
  <2>1. base \in DomainStates /\ ~base.hard_ceiling /\ base.floor = d.floor
    BY <1>1, <1>3 DEF DomainStates
  <2> HIDE DEF base
  <2>2. capped \in DomainStates /\ ~capped.hard_ceiling /\ capped.floor = d.floor
    BY <2>1, RefreshTyped
  <2>3. Inferred(h, d, tier, moment)
          = [capped EXCEPT !.controller.rate = (@ + TierRates[tier]) \div 2]
    BY <1>3 DEF Inferred, base
  <2> HIDE DEF capped
  <2>4. (capped.controller.rate + TierRates[tier]) \div 2 \in Nat
    BY <1>1, <2>2, BucketArithmetic DEF DomainStates, ControllerRecords
  <2> QED
    BY <2>2, <2>3, <2>4 DEF DomainStates, ControllerRecords, IsRuled
<1> QED
  BY <1>2, <1>3

-----------------------------------------------------------------------------
(* The table *)

Tabled == domains \in Seq(Hosts) /\ Len(domains) <= MaxTracked

\* No host is in the table twice.
Once == \A i, j \in DOMAIN domains : domains[i] = domains[j] => i = j

\* The others are where they were, one after the other.
LEMMA OthersInOrder ==
    ASSUME Tabled, Once, NEW h \in Hosts
    PROVE  LET o == Others(h)
           IN  /\ o \in Seq(Hosts)
               /\ \E from \in [1..Len(o) -> 1..Len(domains)] :
                     /\ \A k \in 1..Len(o) : o[k] = domains[from[k]] /\ o[k] # h
                     /\ \A k, l \in 1..Len(o) : k < l => from[k] < from[l]
                     /\ \A n \in 1..Len(domains) :
                            domains[n] # h => \E k \in 1..Len(o) : from[k] = n
               /\ Len(o) = IF h \in Tracked THEN Len(domains) - 1 ELSE Len(domains)
<1>1. DOMAIN domains = 1..Len(domains) /\ Len(domains) \in Nat
  BY DEF Tabled
<1>2. \A k \in 1..Len(domains) : domains[k] \in Hosts
  BY ElementOfSeq DEF Tabled
<1>3. CASE h \notin Tracked
  <2>1. Others(h) = domains /\ domains \in Seq(Hosts)
    BY <1>3 DEF Others, Tabled
  <2> DEFINE from == [k \in 1..Len(domains) |-> k]
  <2>2. /\ from \in [1..Len(domains) -> 1..Len(domains)]
        /\ \A k \in 1..Len(domains) : from[k] = k
    OBVIOUS
  <2>3. \A k \in 1..Len(domains) : domains[k] # h
    BY <1>1, <1>3 DEF Tracked, Elements
  <2> HIDE DEF from
  <2> QED
    BY <1>1, <1>3, <2>1, <2>2, <2>3
<1>4. CASE h \in Tracked
  <2> DEFINE i == CHOOSE j \in DOMAIN domains : domains[j] = h
             a == SubSeq(domains, 1, i - 1)
             b == SubSeq(domains, i + 1, Len(domains))
  <2>1. i \in 1..Len(domains) /\ domains[i] = h
    BY <1>1, <1>4 DEF Tracked, Elements
  <2>2. Others(h) = a \o b
    BY <1>4 DEF Others
  <2> HIDE DEF i
  <2>3. /\ a \in Seq(Hosts) /\ Len(a) = i - 1
        /\ \A k \in 1..(i - 1) : a[k] = domains[k]
    <3>1. \A k \in 1..(i - 1) : domains[k] \in Hosts
      BY <1>1, <1>2, <2>1
    <3>2. 1 \in Int /\ i - 1 \in Int
      BY <2>1
    <3>3. /\ a \in Seq(Hosts) /\ Len(a) = IF 1 <= i - 1 THEN (i - 1) - 1 + 1 ELSE 0
          /\ \A k \in 1..((i - 1) - 1 + 1) : a[k] = domains[1 + k - 1]
      BY <3>1, <3>2, SubSeqProperties
    <3> HIDE DEF a
    <3> QED
      BY <2>1, <3>3
  <2>4. /\ b \in Seq(Hosts) /\ Len(b) = Len(domains) - i
        /\ \A k \in 1..(Len(domains) - i) : b[k] = domains[i + k]
    <3>1. \A k \in (i + 1)..Len(domains) : domains[k] \in Hosts
      BY <1>1, <1>2, <2>1
    <3>2. i + 1 \in Int /\ Len(domains) \in Int
      BY <1>1, <2>1
    <3>3. /\ b \in Seq(Hosts)
          /\ Len(b) = IF i + 1 <= Len(domains) THEN Len(domains) - (i + 1) + 1 ELSE 0
          /\ \A k \in 1..(Len(domains) - (i + 1) + 1) : b[k] = domains[i + 1 + k - 1]
      BY <3>1, <3>2, SubSeqProperties
    <3> HIDE DEF b
    <3>4. \A k \in 1..(Len(domains) - i) : i + 1 + k - 1 = i + k
      BY <1>1, <2>1
    <3>5. Len(domains) - (i + 1) + 1 = Len(domains) - i
      BY <1>1, <2>1
    <3>6. \A k \in 1..(Len(domains) - i) : b[k] = domains[i + 1 + k - 1]
      BY <3>3, <3>5
    <3>7. Len(b) = Len(domains) - i
      <4>1. Len(b) = IF i + 1 <= Len(domains) THEN Len(domains) - (i + 1) + 1 ELSE 0
        BY <3>3
      <4>2. i \in 1..Len(domains) /\ Len(domains) \in Nat
        BY <1>1, <2>1
      <4> QED
        BY <4>1, <4>2
    <3> QED
      BY <3>3, <3>4, <3>6, <3>7
  <2> HIDE DEF a, b
  <2> DEFINE o == a \o b
  <2>5. /\ o \in Seq(Hosts) /\ Len(o) = Len(domains) - 1
        /\ \A k \in 1..(Len(domains) - 1) : o[k] = IF k <= i - 1 THEN a[k] ELSE b[k - (i - 1)]
    <3>1. Len(a) + Len(b) = Len(domains) - 1
      BY <1>1, <2>1, <2>3, <2>4
    <3> QED
      BY <2>3, <2>4, <3>1, ConcatProperties
  <2> HIDE DEF o
  <2> DEFINE from == [k \in 1..Len(o) |-> IF k <= i - 1 THEN k ELSE k + 1]
  <2>6. \A k \in 1..Len(o) :
            from[k] \in 1..Len(domains) /\ from[k] = (IF k <= i - 1 THEN k ELSE k + 1)
    BY <1>1, <2>1, <2>5
  <2>7. from \in [1..Len(o) -> 1..Len(domains)]
    BY <2>6
  <2> HIDE DEF from
  <2>8. \A k \in 1..Len(o) : o[k] = domains[from[k]]
    <3> SUFFICES ASSUME NEW k \in 1..Len(o)
                 PROVE  o[k] = domains[from[k]]
      OBVIOUS
    <3>1. CASE k <= i - 1
      BY <1>1, <2>1, <2>3, <2>5, <2>6, <3>1
    <3>2. CASE ~(k <= i - 1)
      <4>1. k - (i - 1) \in 1..(Len(domains) - i) /\ i + (k - (i - 1)) = k + 1
        BY <1>1, <2>1, <2>5, <3>2
      <4> QED
        BY <2>4, <2>5, <2>6, <3>2, <4>1
    <3> QED
      BY <3>1, <3>2
  <2>9. \A k \in 1..Len(o) : from[k] # i
    BY <1>1, <2>1, <2>5, <2>6
  <2>10. \A k \in 1..Len(o) : o[k] # h
    BY <1>1, <2>1, <2>6, <2>8, <2>9 DEF Once
  <2>11. \A k, l \in 1..Len(o) : k < l => from[k] < from[l]
    BY <1>1, <2>1, <2>5, <2>6
  <2>12. ASSUME NEW n \in 1..Len(domains), domains[n] # h
         PROVE  \E k \in 1..Len(o) : from[k] = n
    <3>1. n # i
      BY <2>1, <2>12
    <3>2. CASE n < i
      <4>1. n \in 1..Len(o) /\ from[n] = n
        BY <1>1, <2>1, <2>5, <2>6, <3>2
      <4> QED
        BY <4>1
    <3>3. CASE n > i
      <4>1. n - 1 \in 1..Len(o) /\ from[n - 1] = n
        BY <1>1, <2>1, <2>5, <2>6, <3>3
      <4> QED
        BY <4>1
    <3> QED
      BY <1>1, <2>1, <3>1, <3>2, <3>3
  <2>13. Others(h) = o
    BY <2>2 DEF o
  <2> QED
    BY <1>4, <2>5, <2>7, <2>8, <2>10, <2>11, <2>12, <2>13
<1> QED
  BY <1>3, <1>4

\* The host that is asked for is the hottest.  The others keep their order, and all but the
\* coldest of a full table stay.
LEMMA TouchedInOrder ==
    ASSUME Tabled, Once, NEW h \in Hosts
    PROVE  LET t == Touched(h)
           IN  /\ t \in Seq(Hosts) /\ Len(t) \in 1..MaxTracked /\ DOMAIN t = 1..Len(t)
               /\ \A i, j \in 1..Len(t) : t[i] = t[j] => i = j
               /\ h \in Elements(t) /\ Elements(t) \subseteq Tracked \cup {h}
               /\ \A i, j \in 1..Len(t) : i < j =>
                     /\ t[i] # h
                     /\ \/ t[j] = h
                        \/ \E m, n \in 1..Len(domains) :
                              m < n /\ domains[m] = t[i] /\ domains[n] = t[j]
               /\ \A g \in Tracked \ Elements(t) :
                     /\ Len(t) = MaxTracked /\ g # h
                     /\ \A j \in 1..Len(t) :
                           \/ t[j] = h
                           \/ \E m, n \in 1..Len(domains) :
                                 m < n /\ domains[m] = g /\ domains[n] = t[j]
<1> DEFINE o == Others(h)
           hotter == Append(o, h)
           t == Touched(h)
<1>1. Len(domains) \in Nat /\ Len(domains) <= MaxTracked /\ MaxTracked \in Nat \ {0}
  BY RegistryAssumption DEF Tabled
<1>1a. DOMAIN domains = 1..Len(domains)
  BY DEF Tabled
<1>2. o \in Seq(Hosts)
  BY OthersInOrder
<1>2a. Len(o) = IF h \in Tracked THEN Len(domains) - 1 ELSE Len(domains)
  BY OthersInOrder
<1>3. PICK from \in [1..Len(o) -> 1..Len(domains)] :
               /\ \A k \in 1..Len(o) : o[k] = domains[from[k]] /\ o[k] # h
               /\ \A k, l \in 1..Len(o) : k < l => from[k] < from[l]
               /\ \A n \in 1..Len(domains) :
                      domains[n] # h => \E k \in 1..Len(o) : from[k] = n
  BY OthersInOrder
<1>4. t = IF Len(hotter) > MaxTracked THEN Tail(hotter) ELSE hotter
  BY DEF Touched
<1> HIDE DEF o, t
<1>5. Len(o) \in Nat /\ DOMAIN o = 1..Len(o)
  BY <1>2
<1>6. /\ hotter \in Seq(Hosts) /\ Len(hotter) = Len(o) + 1 /\ hotter # <<>>
      /\ \A i \in 1..Len(o) : hotter[i] = o[i]
      /\ hotter[Len(o) + 1] = h
  BY <1>2, AppendProperties
<1> HIDE DEF hotter
<1> DEFINE full == Len(o) + 1 > MaxTracked
           cut == IF full THEN 1 ELSE 0
<1>8. full => Len(o) = MaxTracked /\ Len(o) = Len(domains) /\ h \notin Tracked
  <2>1. CASE h \in Tracked
    BY <1>1, <1>2a, <2>1
  <2>2. CASE h \notin Tracked
    BY <1>1, <1>2a, <2>2
  <2> QED
    BY <2>1, <2>2
<1>9. /\ t \in Seq(Hosts) /\ Len(t) = Len(o) + 1 - cut /\ DOMAIN t = 1..Len(t)
      /\ \A i \in 1..Len(t) : t[i] = hotter[i + cut]
  <2>1. CASE full
    <3>1. t = Tail(hotter)
      BY <1>4, <1>6, <2>1
    <3> QED
      BY <1>5, <1>6, <2>1, <3>1, HeadTailProperties
  <2>2. CASE ~full
    <3>1. t = hotter
      BY <1>4, <1>6, <2>2
    <3>2. \A i \in 1..Len(t) : i + cut = i
      BY <2>2
    <3> QED
      BY <1>5, <1>6, <2>2, <3>1, <3>2
  <2> QED
    BY <2>1, <2>2
<1>10. cut \in {0, 1} /\ (cut = 1 <=> full)
  OBVIOUS
<1> HIDE DEF cut, full
<1>11. Len(t) \in 1..MaxTracked /\ (full => Len(t) = MaxTracked)
  <2>1. Len(t) = Len(o) + 1 - cut
    BY <1>9
  <2>2. ~full => Len(o) + 1 <= MaxTracked
    BY <1>1, <1>5 DEF full
  <2>3. MaxTracked \in Nat \ {0} /\ Len(o) \in Nat
    BY <1>1, <1>5
  <2> QED
    BY <1>8, <1>10, <2>1, <2>2, <2>3
<1>12. ASSUME NEW i \in 1..Len(t)
       PROVE  IF i = Len(t) THEN t[i] = h
              ELSE i + cut \in 1..Len(o) /\ t[i] = o[i + cut] /\ t[i] # h
                   /\ from[i + cut] \in 1..Len(domains) /\ t[i] = domains[from[i + cut]]
  <2>1. CASE i = Len(t)
    <3>1. i + cut = Len(o) + 1
      BY <1>5, <1>9, <1>10, <2>1
    <3> QED
      BY <1>6, <1>9, <2>1, <3>1
  <2>2. CASE i # Len(t)
    <3>1. i + cut \in 1..Len(o)
      BY <1>5, <1>9, <1>10, <2>2
    <3> QED
      BY <1>3, <1>6, <1>9, <2>2, <3>1
  <2> QED
    BY <2>1, <2>2
<1>13. ASSUME NEW i \in 1..Len(t), NEW j \in 1..Len(t), i < j
       PROVE  /\ t[i] # h
              /\ \/ t[j] = h
                 \/ \E m, n \in 1..Len(domains) :
                       m < n /\ domains[m] = t[i] /\ domains[n] = t[j]
  <2>1. i # Len(t)
    <3>1. Len(t) \in Nat
      BY <1>1, <1>11
    <3> QED
      BY <1>13, <3>1
  <2>2. CASE j = Len(t)
    BY <1>12, <2>1, <2>2
  <2>3. CASE j # Len(t)
    <3>1. i + cut < j + cut
      BY <1>10, <1>13
    <3>2. from[i + cut] < from[j + cut]
      BY <1>3, <1>12, <2>1, <2>3, <3>1
    <3> QED
      BY <1>12, <2>1, <2>3, <3>2
  <2> QED
    BY <2>2, <2>3
<1>14. ASSUME NEW i \in 1..Len(t), NEW j \in 1..Len(t), t[i] = t[j]
       PROVE  i = j
  <2>1. ASSUME NEW m \in 1..Len(t), NEW n \in 1..Len(t), m < n
        PROVE  t[m] # t[n]
    <3>1. CASE t[n] = h
      BY <1>13, <2>1, <3>1
    <3>2. CASE t[n] # h
      <4>1. PICK k, l \in 1..Len(domains) : k < l /\ domains[k] = t[m] /\ domains[l] = t[n]
        BY <1>13, <2>1, <3>2
      <4> QED
        BY <1>1, <1>1a, <4>1 DEF Once
    <3> QED
      BY <3>1, <3>2
  <2>2. i \in Nat /\ j \in Nat
    BY <1>1, <1>11
  <2> QED
    BY <1>14, <2>1, <2>2
<1>15. h \in Elements(t)
  <2>1. Len(t) \in 1..Len(t)
    BY <1>1, <1>11
  <2>2. t[Len(t)] = h
    BY <1>12, <2>1
  <2> QED
    BY <1>9, <2>1, <2>2 DEF Elements
<1>16. Elements(t) \subseteq Tracked \cup {h}
  BY <1>9, <1>12, <1>1a DEF Elements, Tracked
<1>17. ASSUME NEW g \in Tracked \ Elements(t)
       PROVE  /\ Len(t) = MaxTracked /\ g # h
              /\ \A j \in 1..Len(t) :
                    \/ t[j] = h
                    \/ \E m, n \in 1..Len(domains) :
                          m < n /\ domains[m] = g /\ domains[n] = t[j]
  <2>1. g # h
    BY <1>15, <1>17
  <2>2. PICK k \in 1..Len(o) : domains[from[k]] = g
    BY <1>3, <1>1a, <2>1 DEF Tracked, Elements
  <2>3. \A i \in 1..Len(t) : t[i] # g
    BY <1>9, <1>17 DEF Elements
  <2>4. k - cut \notin 1..Len(t)
    <3>1. ASSUME k - cut \in 1..Len(t)
          PROVE  FALSE
      <4>1. (k - cut) + cut = k /\ k - cut # Len(t)
        BY <1>5, <1>9, <1>10
      <4>2. t[k - cut] = domains[from[k]]
        BY <1>12, <3>1, <4>1
      <4> QED
        BY <2>2, <2>3, <3>1, <4>2
    <3> QED
      BY <3>1
  <2>5. full /\ k = 1
    BY <1>5, <1>9, <1>10, <2>4
  <2>6. ASSUME NEW j \in 1..Len(t), t[j] # h
        PROVE  \E m, n \in 1..Len(domains) : m < n /\ domains[m] = g /\ domains[n] = t[j]
    <3>1. j + cut \in 1..Len(o) /\ t[j] = domains[from[j + cut]]
      BY <1>12, <2>6
    <3>2. k < j + cut
      BY <1>10, <1>11, <2>5
    <3>3. from[k] < from[j + cut]
      BY <1>3, <3>1, <3>2
    <3> QED
      BY <1>3, <2>2, <3>1, <3>3
  <2> QED
    BY <1>11, <2>1, <2>5, <2>6
<1> QED
  BY <1>9, <1>11, <1>13, <1>14, <1>15, <1>16, <1>17 DEF t

-----------------------------------------------------------------------------
(* The invariant *)

\* The others have asked for the hotter ones since.
Ordered == \A i, j \in DOMAIN domains : i < j => domains[j] \in others[domains[i]]

\* A request has a DomainState unless it is idle; a DomainState is there that is tracked or held.
Busy == \A r \in Requests : pc[r] = "idle" <=> object[r] = Nothing
Alive ==
    \A o \in Objects : state[o] # Nothing <=>
        (IsTracked(o) /\ HostOf(o) \in Tracked) \/ \E r \in Requests : object[r] = o

\* A request that holds the DomainState of a host which is tracked holds that of the table.
Shared == \A r \in Holding : IsTracked(object[r]) => HostOf(object[r]) \in Tracked

\* A Retry-After that is not lost is in the table, and who sleeps has looked at it there.
FloorsKept ==
    \A h \in Hosts :
        asked[h] > 0 /\ h \notin lost => h \in Tracked /\ state[<<h, 0>>].floor >= asked[h]
SleepersKnow ==
    \A r \in Holding :
        pc[r] = "asleep" /\ IsTracked(object[r]) /\ r \notin caught
            /\ HostOf(object[r]) \notin lost => left[r] >= asked[HostOf(object[r])]

\* A DomainState with a policy has the rate of its document.
RuledByDocument == \A o \in Objects : state[o] # Nothing => IsRuled(HostOf(o), state[o])

IInv ==
    /\ TypeOK /\ Once /\ Ordered /\ Busy /\ Alive /\ Shared
    /\ FloorsKept /\ SleepersKnow /\ RuledByDocument

LEMMA TableTyped == ASSUME TypeOK PROVE Tabled /\ Tracked \subseteq Hosts
<1>1. Tabled
  BY DEF TypeOK, Tabled
<1>2. \A k \in DOMAIN domains : domains[k] \in Hosts
  BY ElementOfSeq DEF TypeOK
<1> QED
  BY <1>1, <1>2 DEF Tracked, Elements

LEMMA ObjectsArePairs ==
    /\ \A o \in Objects : HostOf(o) \in Hosts /\ (IsTracked(o) => o = <<HostOf(o), 0>>)
    /\ \A h \in Hosts : <<h, 0>> \in Objects /\ HostOf(<<h, 0>>) = h /\ IsTracked(<<h, 0>>)
    /\ \A h \in Hosts, n \in 1..Cardinality(Requests) :
          <<h, n>> \in Objects /\ HostOf(<<h, n>>) = h /\ ~IsTracked(<<h, n>>)
<1>1. Cardinality(Requests) \in Nat
  BY RegistryAssumption, FS_CardinalityType
<1> QED
  BY <1>1 DEF Objects, HostOf, IsTracked

\* Who has a DomainState has one that is there.
LEMMA HeldIsThere ==
    ASSUME IInv
    PROVE  /\ \A r \in Holding :
                 /\ r \in Requests /\ object[r] \in Objects /\ HostOf(object[r]) \in Hosts
                 /\ state[object[r]] \in DomainStates
                 /\ IsRuled(HostOf(object[r]), state[object[r]])
           /\ \A h \in Tracked :
                 h \in Hosts /\ state[<<h, 0>>] \in DomainStates /\ IsRuled(h, state[<<h, 0>>])
<1>1. ASSUME NEW o \in Objects, state[o] # Nothing
      PROVE  state[o] \in DomainStates /\ IsRuled(HostOf(o), state[o])
  BY <1>1 DEF IInv, TypeOK, RuledByDocument
<1>2. ASSUME NEW r \in Holding
      PROVE  r \in Requests /\ object[r] \in Objects /\ state[object[r]] # Nothing
  BY DEF Holding, IInv, TypeOK, Alive
<1>3. ASSUME NEW h \in Tracked
      PROVE  /\ h \in Hosts /\ <<h, 0>> \in Objects /\ HostOf(<<h, 0>>) = h
             /\ state[<<h, 0>>] # Nothing
  <2>1. h \in Hosts
    BY TableTyped DEF IInv
  <2> QED
    BY <2>1, ObjectsArePairs DEF IInv, Alive
<1> QED
  BY <1>1, <1>2, <1>3, ObjectsArePairs

\* As long as a request is idle there is a name for the DomainState of an evicted host.
LEMMA EvictedIsFree ==
    ASSUME NEW r \in Requests, object[r] = Nothing, NEW h \in Hosts
    PROVE  /\ Evicted(h) \in Objects /\ HostOf(Evicted(h)) = h /\ ~IsTracked(Evicted(h))
           /\ \A q \in Requests : object[q] # Evicted(h)
<1> DEFINE C == Cardinality(Requests)
           vacant == {n \in 1..C : IsVacant(h, n)}
<1>1. IsFiniteSet(Requests) /\ C \in Nat
  BY RegistryAssumption, FS_CardinalityType
<1>2. vacant # {}
  <2> SUFFICES ASSUME \A n \in 1..C : ~IsVacant(h, n)
               PROVE  FALSE
    OBVIOUS
  <2> DEFINE user == [n \in 1..C |-> CHOOSE q \in Requests : object[q] = <<h, n>>]
  <2>1. \A n \in 1..C : user[n] \in Requests /\ object[user[n]] = <<h, n>>
    BY DEF IsVacant
  <2>2. \A n \in 1..C : user[n] # r
    <3>1. \A n \in 1..C : <<h, n>> \in Objects
      BY ObjectsArePairs
    <3> QED
      BY <2>1, <3>1, NothingAssumption
  <2>3. user \in [1..C -> Requests \ {r}]
    <3>1. user = [n \in 1..C |-> user[n]]
      OBVIOUS
    <3> HIDE DEF user
    <3> QED
      BY <2>1, <2>2, <3>1
  <2> HIDE DEF user
  <2>4. IsFiniteSet(Requests \ {r}) /\ Cardinality(Requests \ {r}) = C - 1
    BY <1>1, FS_RemoveElement
  <2>5. IsFiniteSet(1..C) /\ Cardinality(1..C) = C
    BY <1>1, FS_Interval
  <2>6. Cardinality(Requests \ {r}) < Cardinality(1..C)
    BY <1>1, <2>4, <2>5
  <2>7. \E x, y \in 1..C : x # y /\ user[x] = user[y]
    <3> DEFINE names == 1..C
               rest == Requests \ {r}
    <3>1. /\ IsFiniteSet(names) /\ IsFiniteSet(rest) /\ Cardinality(rest) < Cardinality(names)
          /\ user \in [names -> rest]
      BY <2>3, <2>4, <2>5, <2>6
    <3> HIDE DEF names, rest
    <3>2. \E x, y \in names : x # y /\ user[x] = user[y]
      BY <3>1, FS_PigeonHole
    <3> QED
      BY <3>2 DEF names
  <2> QED
    BY <2>1, <2>7
<1>3. vacant \in SUBSET Nat
  OBVIOUS
<1>4. PICK n \in vacant : \A m \in vacant : n <= m
  <2> HIDE DEF vacant
  <2> QED
    BY <1>2, <1>3, LeastMember
<1>5. /\ n \in 1..C /\ IsVacant(h, n)
      /\ \A m \in 1..(n - 1) : ~IsVacant(h, m)
  <2>1. \A m \in 1..(n - 1) : m \in 1..C /\ ~(n <= m)
    BY <1>1
  <2> QED
    BY <1>4, <2>1
<1>6. PICK k \in 1..C : Evicted(h) = <<h, k>> /\ IsVacant(h, k)
  BY <1>5 DEF Evicted
<1> QED
  BY <1>6, ObjectsArePairs DEF IsVacant

-----------------------------------------------------------------------------
(* GetDomain *)

\* What _get_domain finds or makes for the host
Found(h) == IF h \in Tracked THEN state[<<h, 0>>] ELSE NewDomainState

LEMMA FoundIsRuled ==
    ASSUME IInv, NEW h \in Hosts
    PROVE  /\ Found(h) \in DomainStates /\ Found(h) # Nothing /\ IsRuled(h, Found(h))
           /\ h \in Tracked => Found(h) = state[<<h, 0>>]
BY HeldIsThere, NewDomainStateTyped, NothingAssumption DEF Found, IsRuled

\* Who holds a DomainState keeps it, under another name if it is evicted; a host that stays in
\* the table keeps its own; and every DomainState that is there afterwards was there before or
\* is new.
LEMMA GetDomainKeepsStates ==
    ASSUME IInv, NEW r \in Requests, NEW h \in Hosts, GetDomain(r, h)
    PROVE  /\ Tracked' = Elements(Touched(h))
           /\ object' \in [Requests -> Objects \cup {Nothing}]
           /\ object'[r] = <<h, 0>> /\ h \in Tracked' /\ state'[<<h, 0>>] = Found(h)
           /\ \A g \in Tracked' : g # h => g \in Tracked /\ state'[<<g, 0>>] = state[<<g, 0>>]
           /\ \A q \in Requests \ {r} :
                 /\ object'[q] = Nothing <=> object[q] = Nothing
                 /\ object[q] # Nothing =>
                       /\ HostOf(object'[q]) = HostOf(object[q])
                       /\ state'[object'[q]] = state[object[q]]
                       /\ IsTracked(object'[q]) =>
                             object'[q] = object[q] /\ HostOf(object[q]) \in Tracked'
           /\ \A p, q \in Requests \ {r} :
                 object[p] # Nothing /\ object'[p] = object'[q] => object[p] = object[q]
           /\ state' \in [Objects -> DomainStates \cup {Nothing}]
           /\ \A o \in Objects :
                 /\ state'[o] # Nothing => IsRuled(HostOf(o), state'[o])
                 /\ state'[o] # Nothing <=> (IsTracked(o) /\ HostOf(o) \in Tracked')
                                             \/ \E q \in Requests : object'[q] = o
<1> DEFINE t == Touched(h)
           evicted == Tracked \ Elements(t)
           kept == [o \in Objects |-> IF \E g \in evicted : o = Evicted(g)
                                      THEN state[<<HostOf(o), 0>>] ELSE state[o]]
           put == [kept EXCEPT ![<<h, 0>>] = Found(h)]
<1>1. /\ domains' = t
      /\ object' = [q \in Requests |-> IF q = r THEN <<h, 0>> ELSE Kept(object[q], evicted)]
      /\ state' = Collected(put, Elements(t), object')
  BY DEF GetDomain, Found
<1>2. Tracked' = Elements(t)
  BY <1>1 DEF Tracked, Elements
<1>3. object[r] = Nothing
  BY DEF GetDomain, IInv, Busy
<1>4. /\ h \in Elements(t) /\ Elements(t) \subseteq Tracked \cup {h}
      /\ Tracked \subseteq Hosts /\ \A g \in evicted : g \in Hosts /\ g # h
  BY TableTyped, TouchedInOrder DEF IInv
<1> HIDE DEF t, kept, put
<1>5. \A g \in evicted :
          /\ Evicted(g) \in Objects /\ HostOf(Evicted(g)) = g /\ ~IsTracked(Evicted(g))
          /\ \A q \in Requests : object[q] # Evicted(g)
  BY <1>3, <1>4, EvictedIsFree
<1>6. \A q \in Requests : object[q] # Nothing => object[q] \in Objects
  BY DEF IInv, TypeOK
<1>7. <<h, 0>> \in Objects /\ <<h, 0>> # Nothing /\ HostOf(<<h, 0>>) = h /\ IsTracked(<<h, 0>>)
  BY ObjectsArePairs, NothingAssumption
<1>8. /\ \A o \in Objects :
            put[o] = IF o = <<h, 0>> THEN Found(h)
                     ELSE IF \E g \in evicted : o = Evicted(g) THEN state[<<HostOf(o), 0>>]
                     ELSE state[o]
      /\ DOMAIN put = Objects
  BY <1>7 DEF put, kept
<1>9. /\ object'[r] = <<h, 0>>
      /\ \A q \in Requests \ {r} :
            object'[q] = IF object[q] # Nothing /\ HostOf(object[q]) \in evicted
                            /\ IsTracked(object[q])
                         THEN Evicted(HostOf(object[q])) ELSE object[q]
  BY <1>1 DEF Kept
<1> HIDE DEF evicted
<1>10. \A g \in Tracked : g \notin evicted <=> g \in Elements(t)
  BY DEF evicted
<1>11. \A q \in Requests \ {r} :
          /\ object'[q] \in Objects \cup {Nothing}
          /\ object'[q] = Nothing <=> object[q] = Nothing
          /\ object[q] # Nothing =>
                /\ HostOf(object'[q]) = HostOf(object[q])
                /\ IsTracked(object'[q]) =>
                      object'[q] = object[q] /\ HostOf(object[q]) \in Elements(t)
  <2> SUFFICES ASSUME NEW q \in Requests \ {r}, object[q] # Nothing
               PROVE  /\ object'[q] \in Objects
                      /\ HostOf(object'[q]) = HostOf(object[q])
                      /\ IsTracked(object'[q]) =>
                            object'[q] = object[q] /\ HostOf(object[q]) \in Elements(t)
    BY <1>9, NothingAssumption
  <2>1. CASE HostOf(object[q]) \in evicted /\ IsTracked(object[q])
    BY <1>5, <1>9, <2>1
  <2>2. CASE ~(HostOf(object[q]) \in evicted /\ IsTracked(object[q]))
    <3>1. object'[q] = object[q]
      BY <1>9, <2>2
    <3>2. IsTracked(object[q]) => HostOf(object[q]) \in Tracked
      BY DEF IInv, Shared, Holding
    <3> QED
      BY <1>6, <1>10, <2>2, <3>1, <3>2
  <2> QED
    BY <2>1, <2>2
<1>12. object' \in [Requests -> Objects \cup {Nothing}]
  <2>1. \A q \in Requests : object'[q] \in Objects \cup {Nothing}
    BY <1>7, <1>9, <1>11
  <2>2. object' = [q \in Requests |-> object'[q]]
    BY <1>1
  <2> QED
    BY <2>1, <2>2
<1>13. \A o \in Objects :
          state'[o] = IF (IsTracked(o) /\ HostOf(o) \in Elements(t))
                         \/ \E q \in Requests : object'[q] = o
                      THEN put[o] ELSE Nothing
  BY <1>1 DEF Collected
<1>14. ASSUME NEW p \in Requests \ {r}, NEW q \in Requests \ {r},
              object[p] # Nothing, object'[p] = object'[q]
       PROVE  object[p] = object[q]
  <2>1. object[q] # Nothing
    BY <1>11, <1>14
  <2>2. object[p] \in Objects /\ object[q] \in Objects
    BY <1>6, <1>14, <2>1
  <2>3. CASE HostOf(object[p]) \in evicted /\ IsTracked(object[p])
    <3>1. object'[p] = Evicted(HostOf(object[p]))
      BY <1>9, <1>14, <2>3
    <3>2. HostOf(object[q]) \in evicted /\ IsTracked(object[q])
      BY <1>5, <1>9, <1>14, <2>3, <3>1
    <3>3. object'[q] = Evicted(HostOf(object[q]))
      BY <1>9, <2>1, <3>2
    <3>4. HostOf(object[p]) = HostOf(object[q])
      BY <1>5, <1>14, <2>3, <3>1, <3>2, <3>3
    <3> QED
      BY <2>2, <2>3, <3>2, <3>4, ObjectsArePairs
  <2>4. CASE ~(HostOf(object[p]) \in evicted /\ IsTracked(object[p]))
    <3>1. object'[p] = object[p]
      BY <1>9, <2>4
    <3>2. ~(HostOf(object[q]) \in evicted /\ IsTracked(object[q]))
      BY <1>5, <1>9, <1>14, <2>1, <3>1
    <3> QED
      BY <1>9, <1>14, <3>1, <3>2
  <2> QED
    BY <2>3, <2>4
<1>15. state'[<<h, 0>>] = Found(h)
  BY <1>4, <1>7, <1>8, <1>13
<1>16. ASSUME NEW g \in Elements(t), g # h
       PROVE  g \in Tracked /\ state'[<<g, 0>>] = state[<<g, 0>>]
  <2>1. g \in Tracked /\ g \in Hosts
    BY <1>4, <1>16
  <2>2. <<g, 0>> \in Objects /\ HostOf(<<g, 0>>) = g /\ IsTracked(<<g, 0>>)
    BY <2>1, ObjectsArePairs
  <2>3. <<g, 0>> # <<h, 0>> /\ \A f \in evicted : <<g, 0>> # Evicted(f)
    BY <1>5, <1>16, <2>2
  <2>4. state'[<<g, 0>>] = put[<<g, 0>>]
    BY <1>13, <2>2
  <2>5. put[<<g, 0>>] = state[<<g, 0>>]
    BY <1>8, <2>2, <2>3
  <2> QED
    BY <2>1, <2>4, <2>5
<1>17. ASSUME NEW q \in Requests \ {r}, object[q] # Nothing
       PROVE  state'[object'[q]] = state[object[q]]
  <2>1. object[q] \in Objects /\ object'[q] \in Objects
    BY <1>6, <1>11, <1>17
  <2>2. state'[object'[q]] = put[object'[q]]
    BY <1>13, <2>1
  <2>3. CASE HostOf(object[q]) \in evicted /\ IsTracked(object[q])
    <3>1. object'[q] = Evicted(HostOf(object[q]))
      BY <1>9, <1>17, <2>3
    <3>2. object'[q] # <<h, 0>> /\ HostOf(object'[q]) = HostOf(object[q])
      BY <1>5, <1>7, <2>3, <3>1
    <3>3. put[object'[q]] = state[<<HostOf(object[q]), 0>>]
      BY <1>8, <2>1, <2>3, <3>1, <3>2
    <3> QED
      BY <2>1, <2>2, <2>3, <3>3, ObjectsArePairs
  <2>4. CASE ~(HostOf(object[q]) \in evicted /\ IsTracked(object[q]))
    <3>1. object'[q] = object[q] /\ ~\E g \in evicted : object[q] = Evicted(g)
      BY <1>5, <1>9, <2>4
    <3>2. CASE object[q] = <<h, 0>>
      <4>1. h \in Tracked
        BY <1>7, <1>17, <3>2 DEF IInv, Shared, Holding
      <4> QED
        BY <1>7, <1>8, <2>2, <3>1, <3>2, <4>1 DEF Found
    <3>3. CASE object[q] # <<h, 0>>
      BY <1>8, <2>1, <2>2, <3>1, <3>3
    <3> QED
      BY <3>2, <3>3
  <2> QED
    BY <2>3, <2>4
<1>18. ASSUME NEW o \in Objects,
              \/ IsTracked(o) /\ HostOf(o) \in Elements(t)
              \/ \E q \in Requests : object'[q] = o
       PROVE  state'[o] \in DomainStates /\ IsRuled(HostOf(o), state'[o])
  <2>1. CASE o = <<h, 0>>
    BY <1>7, <1>15, <2>1, FoundIsRuled
  <2>2. CASE o # <<h, 0>> /\ IsTracked(o) /\ HostOf(o) \in Elements(t)
    <3>1. o = <<HostOf(o), 0>> /\ HostOf(o) # h
      BY <2>2, ObjectsArePairs
    <3>2. HostOf(o) \in Tracked /\ state'[o] = state[<<HostOf(o), 0>>]
      BY <1>16, <2>2, <3>1
    <3> QED
      BY <3>2, HeldIsThere
  <2>3. CASE o # <<h, 0>> /\ \E q \in Requests : object'[q] = o
    <3>1. PICK q \in Requests : object'[q] = o
      BY <2>3
    <3>2. q # r /\ object[q] # Nothing
      BY <1>9, <1>11, <2>3, <3>1, NothingAssumption
    <3>3. q \in Holding
      BY <3>2 DEF Holding
    <3> QED
      BY <1>11, <1>17, <3>1, <3>2, <3>3, HeldIsThere
  <2> QED
    BY <1>18, <2>1, <2>2, <2>3
<1>19. state' \in [Objects -> DomainStates \cup {Nothing}]
  <2>1. \A o \in Objects : state'[o] \in DomainStates \cup {Nothing}
    BY <1>13, <1>18
  <2>2. state' = [o \in Objects |-> state'[o]]
    BY <1>1 DEF Collected
  <2> QED
    BY <2>1, <2>2
<1>20. \A o \in Objects :
          /\ state'[o] # Nothing => IsRuled(HostOf(o), state'[o])
          /\ state'[o] # Nothing <=> (IsTracked(o) /\ HostOf(o) \in Elements(t))
                                      \/ \E q \in Requests : object'[q] = o
  BY <1>13, <1>18, NothingAssumption
<1>21. /\ object'[r] = <<h, 0>> /\ h \in Elements(t)
       /\ \A q \in Requests \ {r} :
             /\ object'[q] = Nothing <=> object[q] = Nothing
             /\ object[q] # Nothing => HostOf(object'[q]) = HostOf(object[q])
  BY <1>4, <1>9, <1>11
<1> QED
  BY <1>2, <1>11, <1>12, <1>14, <1>15, <1>16, <1>17, <1>19, <1>20, <1>21 DEF t

\* The table stays in order, and who has not been asked for since stays the coldest.
LEMMA GetDomainKeepsOrder ==
    ASSUME IInv, NEW r \in Requests, NEW h \in Hosts, GetDomain(r, h)
    PROVE  Tabled' /\ Once' /\ Ordered'
<1> DEFINE t == Touched(h)
<1>1. domains' = t /\ others' = [g \in Hosts |-> IF g = h THEN {} ELSE others[g] \cup {h}]
  BY DEF GetDomain
<1>2. Tabled /\ Once /\ Ordered
  BY TableTyped DEF IInv
<1>3. /\ t \in Seq(Hosts) /\ Len(t) \in 1..MaxTracked
      /\ \A i, j \in 1..Len(t) : t[i] = t[j] => i = j
  BY <1>2, TouchedInOrder
<1>4. DOMAIN t = 1..Len(t)
  BY <1>2, TouchedInOrder
<1>5. \A i, j \in 1..Len(t) : i < j =>
         /\ t[i] # h
         /\ \/ t[j] = h
            \/ \E m, n \in 1..Len(domains) : m < n /\ domains[m] = t[i] /\ domains[n] = t[j]
  BY <1>2, TouchedInOrder
<1> HIDE DEF t
<1>6. Tabled'
  <2>1. Len(t) <= MaxTracked
    BY <1>3, RegistryAssumption
  <2> QED
    BY <1>1, <1>3, <2>1 DEF Tabled
<1>7. Once'
  BY <1>1, <1>3, <1>4 DEF Once
<1>8. ASSUME NEW i \in 1..Len(t), NEW j \in 1..Len(t), i < j
      PROVE  t[j] \in others'[t[i]]
  <2>1. t[i] \in Hosts /\ t[i] # h
    BY <1>3, <1>5, <1>8, ElementOfSeq
  <2>2. others'[t[i]] = others[t[i]] \cup {h}
    BY <1>1, <2>1
  <2>3. CASE t[j] # h
    <3>1. PICK m, n \in 1..Len(domains) : m < n /\ domains[m] = t[i] /\ domains[n] = t[j]
      BY <1>5, <1>8, <2>3
    <3>2. t[j] \in others[t[i]]
      BY <1>2, <3>1 DEF Ordered, Tabled
    <3> QED
      BY <2>2, <3>2
  <2> QED
    BY <2>2, <2>3
<1>9. Ordered'
  BY <1>1, <1>4, <1>8 DEF Ordered
<1> QED
  BY <1>6, <1>7, <1>9

LEMMA GetDomainKeepsInv ==
    ASSUME IInv, NEW r \in Requests, NEW h \in Hosts, GetDomain(r, h) PROVE IInv'
<1> DEFINE t == Touched(h)
           evicted == Tracked \ Elements(t)
<1>1. /\ UNCHANGED <<now, left, asked, caught>> /\ domains' = t
      /\ pc[r] = "idle"
      /\ pc' = [pc EXCEPT ![r] = IF Found(h).fetched THEN "refresh" ELSE "fetching"]
      /\ max_rate' = (IF h \in Tracked THEN max_rate ELSE TierCeilings[DefaultTier])
      /\ allowed' = [q \in Requests |-> IF object[q] = <<h, 0>> THEN Nothing ELSE allowed[q]]
      /\ lost' = lost \cup {g \in evicted : asked[g] > 0}
      /\ others' = [g \in Hosts |-> IF g = h THEN {} ELSE others[g] \cup {h}]
  BY DEF GetDomain, Found
<1>2. /\ Tracked' = Elements(t)
      /\ object' \in [Requests -> Objects \cup {Nothing}]
      /\ object'[r] = <<h, 0>> /\ h \in Tracked' /\ state'[<<h, 0>>] = Found(h)
  BY GetDomainKeepsStates
<1>3. \A g \in Tracked' : g # h => g \in Tracked /\ state'[<<g, 0>>] = state[<<g, 0>>]
  BY GetDomainKeepsStates
<1>4. \A q \in Requests \ {r} :
         /\ object'[q] = Nothing <=> object[q] = Nothing
         /\ object[q] # Nothing =>
               /\ HostOf(object'[q]) = HostOf(object[q])
               /\ IsTracked(object'[q]) =>
                     object'[q] = object[q] /\ HostOf(object[q]) \in Tracked'
  BY GetDomainKeepsStates
<1>5. /\ state' \in [Objects -> DomainStates \cup {Nothing}]
      /\ Alive' /\ RuledByDocument'
  BY GetDomainKeepsStates DEF Alive, RuledByDocument
<1>6. Tabled' /\ Once' /\ Ordered'
  BY GetDomainKeepsOrder
<1>7. <<h, 0>> # Nothing /\ HostOf(<<h, 0>>) = h
  BY ObjectsArePairs, NothingAssumption
<1> HIDE DEF t
<1>8. TypeOK'
  <2>1. now' \in Moments /\ domains' \in Seq(Hosts) /\ Len(domains)' <= MaxTracked
    BY <1>1, <1>6 DEF IInv, TypeOK, Tabled
  <2>2. max_rate' \in Nat
    BY <1>1, RegistryAssumption DEF IInv, TypeOK
  <2>3. pc' \in [Requests -> Steps]
    BY <1>1 DEF IInv, TypeOK, Steps
  <2>4. /\ left' \in [Requests -> Nat] /\ caught' \subseteq Requests
        /\ asked' \in [Hosts -> Nat] /\ \A g \in Hosts : asked'[g] <= LongestRetryAfter[g]
    BY <1>1 DEF IInv, TypeOK
  <2>5. allowed' \in [Requests -> Int \cup {Nothing}]
    BY <1>1 DEF IInv, TypeOK
  <2>6. lost' \subseteq Hosts
    BY <1>1, TableTyped DEF IInv, TypeOK
  <2>7. others' \in [Hosts -> SUBSET Hosts]
    BY <1>1 DEF IInv, TypeOK
  <2> QED
    BY <1>2, <1>5, <2>1, <2>2, <2>3, <2>4, <2>5, <2>6, <2>7 DEF TypeOK
<1>9. Busy'
  <2>1. ASSUME NEW q \in Requests
        PROVE  pc'[q] = "idle" <=> object'[q] = Nothing
    <3>1. CASE q = r
      BY <1>1, <1>2, <1>7, <3>1 DEF IInv, TypeOK
    <3>2. CASE q # r
      BY <1>1, <1>4, <3>2 DEF IInv, TypeOK, Busy
    <3> QED
      BY <3>1, <3>2
  <2> QED
    BY <2>1 DEF Busy
<1>10. Shared'
  <2>1. ASSUME NEW q \in Requests, object'[q] # Nothing, IsTracked(object'[q])
        PROVE  HostOf(object'[q]) \in Tracked'
    BY <1>2, <1>4, <1>7, <2>1
  <2> QED
    BY <2>1 DEF Shared, Holding
<1>11. FloorsKept'
  <2>1. ASSUME NEW g \in Hosts, asked[g] > 0, g \notin lost'
        PROVE  g \in Tracked' /\ state'[<<g, 0>>].floor >= asked[g]
    <3>1. g \in Tracked /\ state[<<g, 0>>].floor >= asked[g]
      BY <1>1, <2>1 DEF IInv, FloorsKept
    <3>2. g \in Tracked'
      BY <1>1, <1>2, <2>1, <3>1
    <3>3. state'[<<g, 0>>] = state[<<g, 0>>]
      BY <1>2, <1>3, <3>1, <3>2 DEF Found
    <3> QED
      BY <3>1, <3>2, <3>3
  <2> QED
    BY <1>1, <2>1 DEF FloorsKept
<1>12. SleepersKnow'
  <2>1. ASSUME NEW q \in Requests, object'[q] # Nothing, pc'[q] = "asleep",
               IsTracked(object'[q]), q \notin caught, HostOf(object'[q]) \notin lost'
        PROVE  left[q] >= asked[HostOf(object'[q])]
    <3>1. q # r
      BY <1>1, <2>1 DEF IInv, TypeOK
    <3>2. /\ object'[q] = object[q] /\ object[q] # Nothing /\ pc[q] = "asleep"
          /\ HostOf(object[q]) \notin lost
      BY <1>1, <1>4, <2>1, <3>1 DEF IInv, TypeOK
    <3> QED
      BY <2>1, <3>2 DEF IInv, SleepersKnow, Holding
  <2> QED
    BY <1>1, <2>1 DEF SleepersKnow, Holding
<1> QED
  BY <1>5, <1>6, <1>8, <1>9, <1>10, <1>11, <1>12 DEF IInv

-----------------------------------------------------------------------------
(* The other steps *)

\* A step that changes a DomainState in place, for a request that stays awake.
LEMMA UpdateKeepsInv ==
    ASSUME IInv, NEW r \in Holding,
           NEW d \in DomainStates, IsRuled(HostOf(object[r]), d),
           d.floor = state[object[r]].floor,
           state' = [state EXCEPT ![object[r]] = d],
           NEW to \in Steps \ {"idle", "asleep"}, pc' = [pc EXCEPT ![r] = to],
           max_rate' \in Nat, allowed' \in [Requests -> Int \cup {Nothing}],
           UNCHANGED <<now, domains, object, left, asked, caught, lost, others>>
    PROVE  IInv'
<1>1. /\ r \in Requests /\ object[r] \in Objects /\ object[r] # Nothing
      /\ state[object[r]] \in DomainStates
  BY HeldIsThere DEF Holding
<1>2. /\ state \in [Objects -> DomainStates \cup {Nothing}] /\ pc \in [Requests -> Steps]
      /\ \A o \in Objects : state[o] # Nothing => state[o] \in DomainStates
  BY DEF IInv, TypeOK
<1>3. \A o \in Objects : state'[o] = IF o = object[r] THEN d ELSE state[o]
  BY <1>1, <1>2
<1>4. d # Nothing /\ state[object[r]] # Nothing
  BY <1>1, NothingAssumption
<1>5. \A o \in Objects : state'[o] # Nothing <=> state[o] # Nothing
  BY <1>3, <1>4
<1>6. TypeOK'
  BY <1>1, <1>2 DEF IInv, TypeOK
<1>7. Once' /\ Ordered' /\ Shared'
  BY DEF IInv, Once, Ordered, Shared, Holding, Tracked, Elements
<1>8. Busy'
  BY <1>1, <1>2 DEF IInv, Busy
<1>9. Alive'
  BY <1>5 DEF IInv, Alive, Tracked, Elements
<1>10. RuledByDocument'
  BY <1>3, <1>5 DEF IInv, RuledByDocument
<1>11. FloorsKept'
  <2>1. ASSUME NEW h \in Hosts, asked[h] > 0, h \notin lost
        PROVE  h \in Tracked /\ state'[<<h, 0>>].floor >= asked[h]
    <3>1. h \in Tracked /\ state[<<h, 0>>].floor >= asked[h]
      BY <2>1 DEF IInv, FloorsKept
    <3>2. state'[<<h, 0>>].floor = state[<<h, 0>>].floor
      BY <1>3, ObjectsArePairs
    <3> QED
      BY <3>1, <3>2
  <2> QED
    BY <2>1 DEF FloorsKept, Tracked, Elements
<1>12. SleepersKnow'
  <2>1. \A q \in Requests : pc'[q] = "asleep" => pc[q] = "asleep"
    BY <1>1, <1>2
  <2> QED
    BY <2>1 DEF IInv, SleepersKnow, Holding
<1> QED
  BY <1>6, <1>7, <1>8, <1>9, <1>10, <1>11, <1>12 DEF IInv

LEMMA EnsurePolicyKeepsInv == ASSUME IInv, NEW r \in Requests, EnsurePolicy(r) PROVE IInv'
<1> DEFINE h == HostOf(object[r])
           d == PolicyApplied(h, state[object[r]], now)
<1>1. /\ pc[r] = "fetching" /\ Documents[h] # Nothing
      /\ state' = [state EXCEPT ![object[r]] = d]
      /\ max_rate' = CeilingAt(h, d, now)
      /\ pc' = [pc EXCEPT ![r] = "refresh"]
      /\ UNCHANGED <<now, domains, object, left, histories>>
  BY DEF EnsurePolicy
<1>2. r \in Holding
  BY <1>1 DEF IInv, Busy, Holding
<1>3. h \in Hosts /\ state[object[r]] \in DomainStates
  BY <1>2, HeldIsThere
<1>4. /\ d \in DomainStates /\ IsRuled(h, d) /\ d.floor = state[object[r]].floor
      /\ max_rate' \in Nat
  BY <1>1, <1>3, PolicyTyped
<1> HIDE DEF d
<1>5. allowed' \in [Requests -> Int \cup {Nothing}]
  BY <1>1 DEF histories, IInv, TypeOK
<1> QED
  BY <1>1, <1>2, <1>4, <1>5, UpdateKeepsInv DEF Steps, histories

LEMMA NoPolicyKeepsInv == ASSUME IInv, NEW r \in Requests, NoPolicy(r) PROVE IInv'
<1> DEFINE d == [state[object[r]] EXCEPT !.fetched = TRUE]
<1>1. /\ pc[r] = "fetching" /\ pc' = [pc EXCEPT ![r] = "refresh"]
      /\ state' = [state EXCEPT ![object[r]] = d]
      /\ UNCHANGED <<now, domains, max_rate, object, left, histories>>
  BY DEF NoPolicy
<1>2. r \in Holding
  BY <1>1 DEF IInv, Busy, Holding
<1>3. state[object[r]] \in DomainStates /\ IsRuled(HostOf(object[r]), state[object[r]])
  BY <1>2, HeldIsThere
<1>4. d \in DomainStates /\ IsRuled(HostOf(object[r]), d) /\ d.floor = state[object[r]].floor
  BY <1>3 DEF DomainStates, IsRuled
<1> HIDE DEF d
<1>5. allowed' \in [Requests -> Int \cup {Nothing}] /\ max_rate' \in Nat
  BY <1>1 DEF histories, IInv, TypeOK
<1> QED
  BY <1>1, <1>2, <1>4, <1>5, UpdateKeepsInv DEF Steps, histories

LEMMA RefreshKeepsInv == ASSUME IInv, NEW r \in Requests, Refresh(r) PROVE IInv'
<1> DEFINE h == HostOf(object[r])
           d == Refreshed(h, state[object[r]], now)
           shared == \E q \in Requests \ {r} : object[q] = object[r]
           rate == IF shared \/ ~d.hard_ceiling THEN Nothing ELSE Declared(h, now)
<1>1. /\ pc[r] = "refresh"
      /\ state' = [state EXCEPT ![object[r]] = d]
      /\ max_rate' = CeilingAt(h, d, now)
      /\ pc' = [pc EXCEPT ![r] = "pace"]
      /\ allowed' = [allowed EXCEPT ![r] = rate]
      /\ UNCHANGED <<now, domains, object, left, asked, caught, lost, others>>
  BY DEF Refresh
<1>2. r \in Holding
  BY <1>1 DEF IInv, Busy, Holding
<1>3. /\ h \in Hosts /\ state[object[r]] \in DomainStates /\ IsRuled(h, state[object[r]])
  BY <1>2, HeldIsThere
<1>4. /\ d \in DomainStates /\ d.hard_ceiling = state[object[r]].hard_ceiling
      /\ d.base_ceiling = state[object[r]].base_ceiling /\ d.floor = state[object[r]].floor
  BY <1>3, RefreshTyped DEF IsRuled
<1> HIDE DEF d
<1>5. IsRuled(h, d) /\ max_rate' \in Nat
  BY <1>1, <1>3, <1>4, CeilingIsNumber DEF IsRuled
<1>6. rate \in Int \cup {Nothing}
  BY <1>3, <1>5, HostDocument, DeclaredIsNumber DEF IsRuled, IInv, TypeOK
<1> HIDE DEF rate
<1>7. allowed' \in [Requests -> Int \cup {Nothing}]
  BY <1>1, <1>6 DEF IInv, TypeOK
<1> QED
  BY <1>1, <1>2, <1>4, <1>5, <1>7, UpdateKeepsInv DEF Steps

\* The sleep is as long as the floor wants.
LEMMA PaceKeepsInv == ASSUME IInv, NEW r \in Requests, Pace(r) PROVE IInv'
<1>1. /\ pc[r] = "pace" /\ pc' = [pc EXCEPT ![r] = "asleep"]
      /\ left' = [left EXCEPT ![r] = state[object[r]].floor]
      /\ allowed' = [allowed EXCEPT ![r] = Nothing]
      /\ UNCHANGED <<now, state, domains, max_rate, object, asked, caught, lost, others>>
  BY DEF Pace
<1>2. r \in Holding
  BY <1>1 DEF IInv, Busy, Holding
<1>3. object[r] \in Objects /\ state[object[r]].floor \in Nat
  BY <1>2, HeldIsThere DEF DomainStates
<1>4. TypeOK'
  BY <1>1, <1>3 DEF IInv, TypeOK, Steps
<1>5. Once' /\ Ordered' /\ Shared' /\ Alive' /\ RuledByDocument' /\ FloorsKept'
  BY <1>1 DEF IInv, Once, Ordered, Shared, Alive, RuledByDocument, FloorsKept,
              Holding, Tracked, Elements
<1>6. Busy'
  BY <1>1, <1>2 DEF IInv, TypeOK, Busy, Holding
<1>7. SleepersKnow'
  <2>1. ASSUME NEW q \in Holding, pc'[q] = "asleep", IsTracked(object[q]), q \notin caught,
               HostOf(object[q]) \notin lost
        PROVE  left'[q] >= asked[HostOf(object[q])]
    <3>1. CASE q = r
      <4>1. HostOf(object[r]) \in Hosts /\ object[r] = <<HostOf(object[r]), 0>>
        BY <1>3, <2>1, <3>1, ObjectsArePairs
      <4>2. asked[HostOf(object[r])] \in Nat
        BY <4>1 DEF IInv, TypeOK
      <4>3. asked[HostOf(object[r])] > 0 =>
                state[object[r]].floor >= asked[HostOf(object[r])]
        BY <2>1, <3>1, <4>1 DEF IInv, FloorsKept
      <4>4. left'[r] = state[object[r]].floor
        BY <1>1, <1>2 DEF IInv, TypeOK, Holding
      <4> QED
        BY <1>3, <3>1, <4>2, <4>3, <4>4
    <3>2. CASE q # r
      <4>1. pc[q] = "asleep" /\ left'[q] = left[q]
        BY <1>1, <2>1, <3>2 DEF IInv, TypeOK, Holding
      <4> QED
        BY <2>1, <4>1 DEF IInv, SleepersKnow
    <3> QED
      BY <3>1, <3>2
  <2> QED
    BY <1>1, <2>1 DEF SleepersKnow, Holding
<1> QED
  BY <1>4, <1>5, <1>6, <1>7 DEF IInv

LEMMA SendKeepsInv == ASSUME IInv, NEW r \in Requests, Send(r) PROVE IInv'
<1>1. /\ pc[r] = "asleep" /\ pc' = [pc EXCEPT ![r] = "sent"] /\ caught' = caught \ {r}
      /\ UNCHANGED <<now, state, domains, max_rate, object, left, allowed, asked, lost, others>>
  BY DEF Send
<1>2. TypeOK'
  BY <1>1 DEF IInv, TypeOK, Steps
<1>3. Once' /\ Ordered' /\ Shared' /\ Alive' /\ RuledByDocument' /\ FloorsKept'
  BY <1>1 DEF IInv, Once, Ordered, Shared, Alive, RuledByDocument, FloorsKept,
              Holding, Tracked, Elements
<1>4. Busy'
  BY <1>1 DEF IInv, TypeOK, Busy
<1>5. SleepersKnow'
  <2>1. \A q \in Requests : pc'[q] = "asleep" => pc[q] = "asleep" /\ q # r
    BY <1>1 DEF IInv, TypeOK
  <2> QED
    BY <1>1, <2>1 DEF IInv, SleepersKnow, Holding
<1> QED
  BY <1>2, <1>3, <1>4, <1>5 DEF IInv

\* The end of a request.  Its DomainState goes unless the table or another request has it.
LEMMA ReleaseKeepsStates ==
    ASSUME IInv, NEW r \in Holding, NEW d \in DomainStates, IsRuled(HostOf(object[r]), d),
           Releases(r, d), domains' = domains
    PROVE  /\ object' \in [Requests -> Objects \cup {Nothing}]
           /\ state' \in [Objects -> DomainStates \cup {Nothing}]
           /\ pc' \in [Requests -> Steps] /\ left' \in [Requests -> Nat]
           /\ allowed' \in [Requests -> Int \cup {Nothing}]
           /\ Busy' /\ Alive' /\ Shared' /\ RuledByDocument' /\ Tracked' = Tracked
           /\ object'[r] = Nothing
           /\ \A q \in Requests \ {r} :
                 /\ object'[q] = object[q] /\ pc'[q] = pc[q] /\ left'[q] = left[q]
                 /\ object[q] \notin {Nothing, object[r]} =>
                       state'[object[q]] = state[object[q]]
           /\ \A h \in Tracked :
                 /\ object[r] = <<h, 0>> => state'[<<h, 0>>] = d
                 /\ object[r] # <<h, 0>> => state'[<<h, 0>>] = state[<<h, 0>>]
<1> DEFINE put == [state EXCEPT ![object[r]] = d]
<1>1. /\ object' = [object EXCEPT ![r] = Nothing]
      /\ state' = Collected(put, Tracked, object')
      /\ pc' = [pc EXCEPT ![r] = "idle"]
      /\ left' = [left EXCEPT ![r] = 0]
      /\ allowed' = [allowed EXCEPT ![r] = Nothing]
  BY DEF Releases
<1>2. /\ r \in Requests /\ object[r] \in Objects /\ object[r] # Nothing
      /\ state[object[r]] \in DomainStates
  BY HeldIsThere DEF Holding
<1>3. /\ object \in [Requests -> Objects \cup {Nothing}] /\ pc \in [Requests -> Steps]
      /\ state \in [Objects -> DomainStates \cup {Nothing}]
  BY DEF IInv, TypeOK
<1>4. /\ object' \in [Requests -> Objects \cup {Nothing}] /\ pc' \in [Requests -> Steps]
      /\ object'[r] = Nothing /\ pc'[r] = "idle"
      /\ \A q \in Requests \ {r} : object'[q] = object[q] /\ pc'[q] = pc[q]
  BY <1>1, <1>2, <1>3 DEF Steps
<1>5. /\ left' \in [Requests -> Nat] /\ allowed' \in [Requests -> Int \cup {Nothing}]
      /\ \A q \in Requests \ {r} : left'[q] = left[q]
  BY <1>1, <1>2 DEF IInv, TypeOK
<1>6. \A o \in Objects : put[o] = IF o = object[r] THEN d ELSE state[o]
  BY <1>2, <1>3
<1> HIDE DEF put
<1>7. Tracked' = Tracked
  BY DEF Tracked, Elements
<1>8. \A o \in Objects :
         state'[o] = IF (IsTracked(o) /\ HostOf(o) \in Tracked)
                        \/ \E q \in Requests : object'[q] = o
                     THEN put[o] ELSE Nothing
  BY <1>1 DEF Collected
<1>9. ASSUME NEW o \in Objects,
             (IsTracked(o) /\ HostOf(o) \in Tracked) \/ \E q \in Requests : object'[q] = o
      PROVE  put[o] \in DomainStates /\ IsRuled(HostOf(o), put[o])
  <2>1. o # Nothing
    BY NothingAssumption
  <2>2. (IsTracked(o) /\ HostOf(o) \in Tracked) \/ \E q \in Requests : object[q] = o
    BY <1>4, <1>9, <2>1
  <2>3. state[o] # Nothing
    BY <2>2 DEF IInv, Alive
  <2>4. state[o] \in DomainStates /\ IsRuled(HostOf(o), state[o])
    BY <1>3, <2>3 DEF IInv, RuledByDocument
  <2> QED
    BY <1>6, <2>4
<1>10. /\ \A o \in Objects : state'[o] \in DomainStates \cup {Nothing}
       /\ \A o \in Objects : state'[o] # Nothing => IsRuled(HostOf(o), state'[o])
       /\ \A o \in Objects : state'[o] # Nothing <=>
             (IsTracked(o) /\ HostOf(o) \in Tracked) \/ \E q \in Requests : object'[q] = o
  BY <1>8, <1>9, NothingAssumption
<1>11. state' \in [Objects -> DomainStates \cup {Nothing}]
  <2>1. state' = [o \in Objects |-> state'[o]]
    BY <1>1 DEF Collected
  <2> QED
    BY <1>10, <2>1
<1>12. Busy'
  <2>1. \A q \in Requests : pc'[q] = "idle" <=> object'[q] = Nothing
    BY <1>4 DEF IInv, Busy
  <2> QED
    BY <2>1 DEF Busy
<1>13. Alive' /\ RuledByDocument'
  BY <1>7, <1>10 DEF Alive, RuledByDocument
<1>14. Shared'
  <2>1. \A q \in Requests : object'[q] # Nothing => q \in Holding /\ object'[q] = object[q]
    BY <1>4 DEF Holding
  <2> QED
    BY <1>7, <2>1 DEF IInv, Shared, Holding
<1>15. ASSUME NEW h \in Tracked
       PROVE  /\ object[r] = <<h, 0>> => state'[<<h, 0>>] = d
              /\ object[r] # <<h, 0>> => state'[<<h, 0>>] = state[<<h, 0>>]
  <2>1. <<h, 0>> \in Objects /\ IsTracked(<<h, 0>>) /\ HostOf(<<h, 0>>) = h
    BY HeldIsThere, ObjectsArePairs
  <2> QED
    BY <1>6, <1>8, <2>1
<1>16. ASSUME NEW q \in Requests \ {r}, object[q] \notin {Nothing, object[r]}
       PROVE  state'[object[q]] = state[object[q]]
  <2>1. object[q] \in Objects /\ object'[q] = object[q]
    BY <1>3, <1>4, <1>16
  <2> QED
    BY <1>6, <1>8, <1>16, <2>1
<1> QED
  BY <1>4, <1>5, <1>7, <1>11, <1>12, <1>13, <1>14, <1>15, <1>16

\* A request that ends without news of a Retry-After.
LEMMA QuietEndKeepsInv ==
    ASSUME IInv, NEW r \in Holding, NEW d \in DomainStates, IsRuled(HostOf(object[r]), d),
           d.floor = state[object[r]].floor, Releases(r, d), caught \ {r} \subseteq caught',
           caught' \subseteq caught, UNCHANGED <<now, domains, max_rate, asked, lost, others>>
    PROVE  IInv'
<1>1. /\ object' \in [Requests -> Objects \cup {Nothing}]
      /\ state' \in [Objects -> DomainStates \cup {Nothing}]
      /\ pc' \in [Requests -> Steps] /\ left' \in [Requests -> Nat]
      /\ allowed' \in [Requests -> Int \cup {Nothing}]
  BY ReleaseKeepsStates
<1>2. Busy' /\ Alive' /\ Shared' /\ RuledByDocument' /\ Tracked' = Tracked
  BY ReleaseKeepsStates
<1>3. /\ object'[r] = Nothing
      /\ \A q \in Requests \ {r} :
            object'[q] = object[q] /\ pc'[q] = pc[q] /\ left'[q] = left[q]
      /\ \A h \in Tracked :
            /\ object[r] = <<h, 0>> => state'[<<h, 0>>] = d
            /\ object[r] # <<h, 0>> => state'[<<h, 0>>] = state[<<h, 0>>]
  BY ReleaseKeepsStates
<1>4. TypeOK'
  BY <1>1 DEF IInv, TypeOK
<1>5. Once' /\ Ordered'
  BY DEF IInv, Once, Ordered
<1>6. FloorsKept'
  BY <1>2, <1>3 DEF IInv, FloorsKept
<1>7. SleepersKnow'
  <2>1. \A q \in Requests :
           object'[q] # Nothing =>
               /\ q \in Holding /\ q # r
               /\ object'[q] = object[q] /\ pc'[q] = pc[q] /\ left'[q] = left[q]
               /\ q \notin caught' => q \notin caught
    BY <1>3 DEF Holding
  <2> QED
    BY <2>1 DEF IInv, SleepersKnow, Holding
<1> QED
  BY <1>2, <1>4, <1>5, <1>6, <1>7 DEF IInv

LEMMA TransportFailureReleases ==
    ASSUME IInv, NEW r \in Requests, TransportFailure(r)
    PROVE  /\ r \in Holding /\ UNCHANGED <<now, domains, max_rate, asked, caught, lost, others>>
           /\ \E d \in DomainStates :
                 /\ Releases(r, d) /\ IsRuled(HostOf(object[r]), d)
                 /\ d.floor = state[object[r]].floor
<1> DEFINE found == state[object[r]]
           d == [found EXCEPT !.controller = ControllerFailure(@)]
<1>1. /\ pc[r] = "sent" /\ Releases(r, d)
      /\ UNCHANGED <<now, domains, max_rate, asked, caught, lost, others>>
  BY DEF TransportFailure
<1>2. r \in Holding
  BY <1>1 DEF IInv, Busy, Holding
<1>3. found \in DomainStates /\ IsRuled(HostOf(object[r]), found)
  BY <1>2, HeldIsThere
<1> HIDE DEF found
<1>4. ControllerFailure(found.controller) \in ControllerRecords
  BY <1>3, ControllerTyped DEF DomainStates
<1>5. d \in DomainStates /\ IsRuled(HostOf(object[r]), d) /\ d.floor = found.floor
  BY <1>3, <1>4 DEF DomainStates, IsRuled
<1> QED
  BY <1>1, <1>2, <1>5 DEF found

LEMMA TransportFailureKeepsInv ==
    ASSUME IInv, NEW r \in Requests, TransportFailure(r) PROVE IInv'
BY TransportFailureReleases, QuietEndKeepsInv

LEMMA LeaveKeepsInv == ASSUME IInv, NEW r \in Requests, Leave(r) PROVE IInv'
<1>1. /\ r \in Holding /\ Releases(r, state[object[r]]) /\ caught' = caught \ {r}
      /\ UNCHANGED <<now, domains, max_rate, asked, lost, others>>
  BY DEF Leave
<1> QED
  BY <1>1, HeldIsThere, QuietEndKeepsInv

\* A response leaves a DomainState whose floor is no lower than the Retry-After it brings.
LEMMA OutcomeReleases ==
    ASSUME IInv, NEW r \in Requests, NEW h \in Hosts, NEW what \in {"fine", "slow", "bad"},
           NEW tier \in ValidTiers, NEW retryAfter \in 0..LongestRetryAfter[h],
           Outcome(r, h, what, tier, retryAfter)
    PROVE  /\ r \in Holding /\ domains' = domains /\ max_rate' \in Nat
           /\ \E d \in DomainStates :
                 /\ Releases(r, d) /\ IsRuled(h, d)
                 /\ d.floor >= state[object[r]].floor /\ d.floor >= retryAfter
<1> DEFINE found == state[object[r]]
           inferred == IF found.calibrated THEN found ELSE Inferred(h, found, tier, now)
           ceiling == InferredMaxRate(found, tier)
           k == IF what = "bad" THEN ControllerFailure(inferred.controller)
                ELSE ControllerSuccess(inferred.controller, ceiling, what = "slow")
           f == Most(inferred.floor, retryAfter)
           d == [inferred EXCEPT
                    !.floor = Most(@, retryAfter),
                    !.controller = IF what = "bad" THEN ControllerFailure(@)
                                   ELSE ControllerSuccess(@, ceiling, what = "slow")]
<1>1. /\ pc[r] = "sent" /\ HostOf(object[r]) = h
      /\ max_rate' = ceiling /\ Releases(r, d) /\ domains' = domains
  BY DEF Outcome
<1>2. r \in Holding
  BY <1>1 DEF IInv, Busy, Holding
<1>3. found \in DomainStates /\ IsRuled(h, found)
  BY <1>1, <1>2, HeldIsThere
<1>4. retryAfter \in Nat
  BY RegistryAssumption
<1>5. ceiling \in Nat
  BY RegistryAssumption DEF InferredMaxRate, IInv, TypeOK
<1>6. inferred \in DomainStates /\ IsRuled(h, inferred) /\ inferred.floor = found.floor
  BY <1>3, InferenceTyped
<1> HIDE DEF inferred, ceiling, found
<1>7. k \in ControllerRecords
  BY <1>5, <1>6, ControllerTyped DEF DomainStates
<1>8. f \in Nat /\ f >= inferred.floor /\ f >= retryAfter
  BY <1>4, <1>6 DEF Most, DomainStates
<1>9. d = [inferred EXCEPT !.floor = f, !.controller = k]
  BY <1>6 DEF DomainStates
<1> HIDE DEF k, f, d
<1>10. d \in DomainStates /\ IsRuled(h, d) /\ d.floor >= found.floor /\ d.floor >= retryAfter
  BY <1>6, <1>7, <1>8, <1>9 DEF DomainStates, IsRuled
<1> QED
  BY <1>1, <1>2, <1>5, <1>10 DEF found

\* The Retry-After is remembered in the table, or it is lost; those that sleep are caught.
LEMMA OutcomeKeepsInv ==
    ASSUME IInv, NEW r \in Requests, NEW h \in Hosts, NEW what \in {"fine", "slow", "bad"},
           NEW tier \in ValidTiers, NEW retryAfter \in 0..LongestRetryAfter[h],
           Outcome(r, h, what, tier, retryAfter)
    PROVE  IInv'
<1> DEFINE found == state[object[r]]
           later == retryAfter > asked[h]
<1>1. /\ HostOf(object[r]) = h
      /\ asked' = [asked EXCEPT ![h] = Most(@, retryAfter)]
      /\ caught' = IF later
                   THEN caught \cup {q \in Holding : pc[q] = "asleep" /\ HostOf(object[q]) = h}
                   ELSE caught
      /\ lost' = IF ~later THEN lost
                 ELSE IF IsTracked(object[r]) THEN lost \ {h} ELSE lost \cup {h}
      /\ UNCHANGED <<now, domains, others>>
  BY DEF Outcome
<1>2. r \in Holding /\ max_rate' \in Nat
  BY OutcomeReleases
<1>3. found \in DomainStates
  BY <1>2, HeldIsThere
<1>4. /\ retryAfter \in Nat /\ retryAfter <= LongestRetryAfter[h]
      /\ LongestRetryAfter[h] \in Nat
      /\ asked \in [Hosts -> Nat] /\ \A g \in Hosts : asked[g] <= LongestRetryAfter[g]
  BY RegistryAssumption DEF IInv, TypeOK
<1> HIDE DEF found
<1>5. PICK d \in DomainStates :
               /\ Releases(r, d) /\ IsRuled(h, d) /\ d.floor >= found.floor
               /\ d.floor >= retryAfter
  BY OutcomeReleases DEF found
<1>6. /\ object' \in [Requests -> Objects \cup {Nothing}]
      /\ state' \in [Objects -> DomainStates \cup {Nothing}]
      /\ pc' \in [Requests -> Steps] /\ left' \in [Requests -> Nat]
      /\ allowed' \in [Requests -> Int \cup {Nothing}]
  BY <1>1, <1>2, <1>5, ReleaseKeepsStates
<1>7. Busy' /\ Alive' /\ Shared' /\ RuledByDocument' /\ Tracked' = Tracked
  BY <1>1, <1>2, <1>5, ReleaseKeepsStates
<1>8. /\ object'[r] = Nothing
      /\ \A q \in Requests \ {r} :
            object'[q] = object[q] /\ pc'[q] = pc[q] /\ left'[q] = left[q]
      /\ \A g \in Tracked :
            /\ object[r] = <<g, 0>> => state'[<<g, 0>>] = d
            /\ object[r] # <<g, 0>> => state'[<<g, 0>>] = state[<<g, 0>>]
  BY <1>1, <1>2, <1>5, ReleaseKeepsStates
<1>9. \A g \in Hosts : asked'[g] = IF g = h /\ later THEN retryAfter ELSE asked[g]
  BY <1>1, <1>4 DEF Most
<1>10. TypeOK'
  <2>1. \A g \in Hosts : asked'[g] \in Nat /\ asked'[g] <= LongestRetryAfter[g]
    BY <1>4, <1>9
  <2>2. asked' \in [Hosts -> Nat]
    BY <1>1, <1>4, <2>1
  <2>3. caught' \subseteq Requests /\ lost' \subseteq Hosts
    BY <1>1 DEF IInv, TypeOK, Holding
  <2> QED
    BY <1>1, <1>2, <1>6, <2>1, <2>2, <2>3 DEF IInv, TypeOK
<1>11. Once' /\ Ordered'
  BY <1>1 DEF IInv, Once, Ordered
<1>12. \A g \in Tracked : /\ g \in Hosts /\ state[<<g, 0>>].floor \in Nat
                          /\ state'[<<g, 0>>].floor \in Nat
                          /\ state'[<<g, 0>>].floor >= state[<<g, 0>>].floor
  <2>1. d.floor \in Nat /\ found.floor \in Nat
    BY <1>3, <1>5 DEF DomainStates
  <2>2. \A g \in Tracked : g \in Hosts /\ state[<<g, 0>>].floor \in Nat
    BY HeldIsThere DEF DomainStates
  <2>3. ASSUME NEW g \in Tracked
        PROVE  state'[<<g, 0>>].floor \in Nat /\ state'[<<g, 0>>].floor >= state[<<g, 0>>].floor
    <3>1. CASE object[r] = <<g, 0>>
      <4>1. state'[<<g, 0>>] = d /\ state[<<g, 0>>] = found
        BY <1>8, <3>1 DEF found
      <4> QED
        BY <1>5, <2>1, <4>1
    <3>2. CASE object[r] # <<g, 0>>
      <4>1. state'[<<g, 0>>] = state[<<g, 0>>]
        BY <1>8, <3>2
      <4> QED
        BY <2>2, <4>1
    <3> QED
      BY <3>1, <3>2
  <2> QED
    BY <2>2, <2>3
<1>13. FloorsKept'
  <2>1. ASSUME NEW g \in Hosts, asked'[g] > 0, g \notin lost'
        PROVE  g \in Tracked /\ state'[<<g, 0>>].floor >= asked'[g]
    <3>1. CASE g = h /\ later
      <4>1. IsTracked(object[r])
        BY <1>1, <2>1, <3>1
      <4>2. object[r] = <<h, 0>> /\ h \in Tracked
        BY <1>1, <1>2, <4>1, HeldIsThere, ObjectsArePairs DEF IInv, Shared
      <4> QED
        BY <1>5, <1>8, <1>9, <3>1, <4>2
    <3>2. CASE ~(g = h /\ later)
      <4>1. asked'[g] = asked[g] /\ g \notin lost
        BY <1>1, <1>9, <2>1, <3>2
      <4>2. g \in Tracked /\ state[<<g, 0>>].floor >= asked[g]
        BY <2>1, <4>1 DEF IInv, FloorsKept
      <4>3. asked[g] \in Nat
        BY <1>4
      <4> QED
        BY <1>12, <4>1, <4>2, <4>3
    <3> QED
      BY <3>1, <3>2
  <2> QED
    BY <1>7, <2>1 DEF FloorsKept
<1>14. SleepersKnow'
  <2>1. ASSUME NEW q \in Requests, object'[q] # Nothing, pc'[q] = "asleep",
               IsTracked(object'[q]), q \notin caught', HostOf(object'[q]) \notin lost'
        PROVE  left'[q] >= asked'[HostOf(object'[q])]
    <3>1. /\ q # r /\ object'[q] = object[q] /\ pc[q] = "asleep" /\ left'[q] = left[q]
          /\ q \in Holding
      BY <1>8, <2>1 DEF Holding
    <3>2. HostOf(object[q]) \in Hosts
      BY <3>1, HeldIsThere
    <3>3. ~(HostOf(object[q]) = h /\ later)
      BY <1>1, <2>1, <3>1
    <3>4. /\ asked'[HostOf(object[q])] = asked[HostOf(object[q])]
          /\ HostOf(object[q]) \notin lost /\ q \notin caught
      BY <1>1, <1>9, <2>1, <3>1, <3>2, <3>3
    <3> QED
      BY <2>1, <3>1, <3>4 DEF IInv, SleepersKnow
  <2> QED
    BY <2>1 DEF SleepersKnow, Holding
<1> QED
  BY <1>7, <1>10, <1>11, <1>13, <1>14 DEF IInv

LEMMA MinuteKeepsInv == ASSUME IInv, Minute PROVE IInv'
<1>1. /\ now' = NextMoment(now)
      /\ state' = [o \in Objects |-> IF state[o] = Nothing THEN Nothing
                                     ELSE [state[o] EXCEPT !.floor = Most(0, @ - 1)]]
      /\ left' = [r \in Requests |-> Most(0, left[r] - 1)]
      /\ asked' = [h \in Hosts |-> Most(0, asked[h] - 1)]
      /\ lost' = {h \in lost : asked[h] > 1}
      /\ UNCHANGED <<domains, max_rate, pc, object, allowed, caught, others>>
  BY DEF Minute
<1>2. /\ state \in [Objects -> DomainStates \cup {Nothing}] /\ left \in [Requests -> Nat]
      /\ asked \in [Hosts -> Nat] /\ now \in Moments
  BY DEF IInv, TypeOK
<1>3. Tracked' = Tracked
  BY <1>1 DEF Tracked, Elements
<1>4. \A o \in Objects :
         IF state[o] = Nothing THEN state'[o] = Nothing
         ELSE /\ state'[o] \in DomainStates
              /\ state'[o].hard_ceiling = state[o].hard_ceiling
              /\ state'[o].base_ceiling = state[o].base_ceiling
              /\ state'[o].controller = state[o].controller
              /\ state'[o].floor = Most(0, state[o].floor - 1) /\ state[o].floor \in Nat
  <2>1. ASSUME NEW d \in DomainStates
        PROVE  LET e == [d EXCEPT !.floor = Most(0, @ - 1)]
               IN  /\ e \in DomainStates /\ e.floor = Most(0, d.floor - 1) /\ d.floor \in Nat
                   /\ e.hard_ceiling = d.hard_ceiling /\ e.base_ceiling = d.base_ceiling
                   /\ e.controller = d.controller
    <3>1. d.floor \in Nat /\ Most(0, d.floor - 1) \in Nat
      BY DEF DomainStates, Most
    <3> QED
      BY <3>1 DEF DomainStates
  <2> QED
    BY <1>1, <1>2, <2>1
<1>5. TypeOK'
  <2>1. now' \in Moments
    BY <1>1, <1>2, SitePolicyAssumption DEF NextMoment, Moments, DayNumbers
  <2>2. state' \in [Objects -> DomainStates \cup {Nothing}]
    <3>1. \A o \in Objects : state'[o] \in DomainStates \cup {Nothing}
      BY <1>4
    <3>2. state' = [o \in Objects |-> state'[o]]
      BY <1>1
    <3> QED
      BY <3>1, <3>2
  <2>3. left' \in [Requests -> Nat]
    BY <1>1, <1>2 DEF Most
  <2>4. asked' \in [Hosts -> Nat] /\ \A h \in Hosts : asked'[h] <= LongestRetryAfter[h]
    BY <1>1, <1>2, RegistryAssumption DEF Most, IInv, TypeOK
  <2> QED
    BY <1>1, <2>1, <2>2, <2>3, <2>4 DEF IInv, TypeOK
<1>6. Once' /\ Ordered' /\ Busy' /\ Shared'
  BY <1>1, <1>3 DEF IInv, Once, Ordered, Busy, Shared, Holding
<1>7. Alive'
  BY <1>1, <1>3, <1>4, NothingAssumption DEF IInv, Alive
<1>8. RuledByDocument'
  BY <1>4 DEF IInv, RuledByDocument, IsRuled
<1>9. \A h \in Hosts : asked[h] \in Nat /\ asked'[h] = Most(0, asked[h] - 1)
  BY <1>1, <1>2
<1>10. \A h \in Hosts : asked'[h] > 0 /\ h \notin lost' => asked[h] > 1 /\ h \notin lost
  BY <1>1, <1>9 DEF Most
<1>11. FloorsKept'
  <2>1. ASSUME NEW h \in Hosts, asked'[h] > 0, h \notin lost'
        PROVE  h \in Tracked /\ state'[<<h, 0>>].floor >= asked'[h]
    <3>1. asked[h] > 1 /\ h \notin lost
      BY <1>10, <2>1
    <3>2. h \in Tracked /\ state[<<h, 0>>].floor >= asked[h]
      BY <1>9, <3>1 DEF IInv, FloorsKept
    <3>3. state[<<h, 0>>] # Nothing /\ <<h, 0>> \in Objects
      BY <3>2, HeldIsThere, NothingAssumption, ObjectsArePairs
    <3>4. /\ state'[<<h, 0>>].floor = Most(0, state[<<h, 0>>].floor - 1)
          /\ state[<<h, 0>>].floor \in Nat
      BY <1>4, <3>3
    <3> QED
      BY <1>9, <3>2, <3>4 DEF Most
  <2> QED
    BY <1>3, <2>1 DEF FloorsKept
<1>12. SleepersKnow'
  <2>1. ASSUME NEW r \in Holding, pc[r] = "asleep", IsTracked(object[r]), r \notin caught,
               HostOf(object[r]) \notin lost'
        PROVE  left'[r] >= asked'[HostOf(object[r])]
    <3>1. PICK h \in Hosts : h = HostOf(object[r]) /\ r \in Requests
      BY HeldIsThere DEF Holding
    <3>2. left[r] \in Nat /\ left'[r] = Most(0, left[r] - 1)
      BY <1>1, <1>2, <3>1
    <3>3. CASE asked'[h] > 0
      <4>1. h \notin lost
        BY <1>10, <2>1, <3>1, <3>3
      <4>2. left[r] >= asked[h]
        BY <2>1, <3>1, <4>1 DEF IInv, SleepersKnow
      <4> QED
        BY <1>9, <3>1, <3>2, <4>2 DEF Most
    <3>4. CASE ~(asked'[h] > 0)
      <4> QED
        BY <1>9, <3>1, <3>2, <3>4 DEF Most
    <3> QED
      BY <3>3, <3>4
  <2> QED
    BY <1>1, <2>1 DEF SleepersKnow, Holding
<1> QED
  BY <1>5, <1>6, <1>7, <1>8, <1>11, <1>12 DEF IInv

LEMMA InitIsInv == Init => IInv
<1> SUFFICES ASSUME Init
             PROVE  IInv
  OBVIOUS
<1>1. /\ domains = <<>> /\ DOMAIN domains = {} /\ Len(domains) = 0 /\ domains \in Seq(Hosts)
      /\ Tracked = {} /\ Holding = {}
  BY DEF Init, Tracked, Elements, Holding
<1>2. TypeOK
  BY <1>1, RegistryAssumption DEF Init, TypeOK, Steps
<1>3. Once /\ Ordered /\ Busy /\ Shared /\ SleepersKnow
  BY <1>1 DEF Init, Once, Ordered, Busy, Shared, SleepersKnow
<1>4. Alive /\ RuledByDocument /\ FloorsKept
  BY <1>1, NothingAssumption DEF Init, Alive, RuledByDocument, FloorsKept
<1> QED
  BY <1>2, <1>3, <1>4 DEF IInv

LEMMA StepKeepsInv == IInv /\ [Next]_vars => IInv'
<1> SUFFICES ASSUME IInv, [Next]_vars
             PROVE  IInv'
  OBVIOUS
<1>1. CASE Minute
  BY <1>1, MinuteKeepsInv
<1>2. CASE \E r \in Requests, h \in Hosts : GetDomain(r, h)
  BY <1>2, GetDomainKeepsInv
<1>3. CASE \E r \in Requests : EnsurePolicy(r) \/ NoPolicy(r) \/ Refresh(r) \/ Pace(r) \/ Send(r)
  BY <1>3, EnsurePolicyKeepsInv, NoPolicyKeepsInv, RefreshKeepsInv, PaceKeepsInv, SendKeepsInv
<1>4. CASE \E r \in Requests : Respond(r)
  <2>1. PICK r \in Requests : Respond(r)
    BY <1>4
  <2>2. CASE TransportFailure(r)
    BY <2>2, TransportFailureKeepsInv
  <2>3. CASE \E what \in {"fine", "slow", "bad"}, tier \in ValidTiers, h \in Hosts :
                \E retryAfter \in 0..LongestRetryAfter[h] : Outcome(r, h, what, tier, retryAfter)
    BY <2>3, OutcomeKeepsInv
  <2> QED
    BY <2>1, <2>2, <2>3 DEF Respond
<1>5. CASE \E r \in Requests : Leave(r)
  BY <1>5, LeaveKeepsInv
<1>6. CASE UNCHANGED vars
  BY <1>6 DEF vars, locals, histories, IInv, TypeOK, Once, Ordered, Busy, Alive, Shared,
              FloorsKept, SleepersKnow, RuledByDocument, Holding, Tracked, Elements
<1> QED
  BY <1>1, <1>2, <1>3, <1>4, <1>5, <1>6 DEF Next

LEMMA InvHolds == Spec => []IInv
BY InitIsInv, StepKeepsInv, PTL DEF Spec

-----------------------------------------------------------------------------
(* Theorems *)

(* The variables keep their types: the table of _get_domain never has more   *)
(* than max_tracked_domains hosts, and there is always a name for a          *)
(* DomainState that _touch_domain evicts while a request holds it.           *)
THEOREM TypeCorrect == Spec => []TypeOK
BY InvHolds, PTL DEF IInv

\* A request that does not look for its DomainState leaves the table alone.
LEMMA TableStays ==
    ASSUME [Next]_vars, \A r \in Requests, h \in Hosts : ~GetDomain(r, h)
    PROVE  domains' = domains
<1>1. CASE Minute \/ UNCHANGED vars
  BY <1>1 DEF Minute, vars
<1>2. CASE \E r \in Requests :
              EnsurePolicy(r) \/ NoPolicy(r) \/ Refresh(r) \/ Pace(r) \/ Send(r) \/ Leave(r)
  BY <1>2 DEF EnsurePolicy, NoPolicy, Refresh, Pace, Send, Leave
<1>3. CASE \E r \in Requests : Respond(r)
  <2>1. ASSUME NEW r \in Requests, NEW h, NEW what, NEW tier, NEW retryAfter,
               Outcome(r, h, what, tier, retryAfter)
        PROVE  domains' = domains
    BY <2>1 DEF Outcome
  <2>2. ASSUME NEW r \in Requests, TransportFailure(r)
        PROVE  domains' = domains
    BY <2>2 DEF TransportFailure
  <2> QED
    BY <1>3, <2>1, <2>2 DEF Respond
<1> QED
  BY <1>1, <1>2, <1>3 DEF Next

\* Requests for the hosts that stay have gone by since the last one for the host that leaves.
LEMMA EvictsWhenCold ==
    ASSUME IInv, [Next]_vars
    PROVE  \A g \in Tracked \ Tracked' : Cardinality(others'[g]) >= MaxTracked
<1> SUFFICES ASSUME NEW g \in Tracked, g \notin Tracked'
             PROVE  Cardinality(others'[g]) >= MaxTracked
  OBVIOUS
<1>1. domains' # domains
  BY DEF Tracked, Elements
<1>2. PICK r \in Requests, h \in Hosts : GetDomain(r, h)
  BY <1>1, TableStays
<1> DEFINE t == Touched(h)
           stay == Elements(t)
<1>3. g \in Hosts /\ g \in Tracked \ stay /\ Tabled /\ Once
  BY <1>2, TableTyped, GetDomainKeepsStates DEF IInv
<1>4. t \in Seq(Hosts) /\ DOMAIN t = 1..Len(t) /\ \A i, j \in 1..Len(t) : t[i] = t[j] => i = j
  BY <1>3, TouchedInOrder
<1>5. /\ Len(t) = MaxTracked /\ g # h
      /\ \A j \in 1..Len(t) :
            \/ t[j] = h
            \/ \E m, n \in 1..Len(domains) : m < n /\ domains[m] = g /\ domains[n] = t[j]
  BY <1>3, TouchedInOrder
<1>6. others'[g] = others[g] \cup {h} /\ others[g] \in SUBSET Hosts
  BY <1>2, <1>3, <1>5 DEF GetDomain, IInv, TypeOK
<1> HIDE DEF t
<1>7. stay \subseteq others'[g]
  <2>1. ASSUME NEW j \in 1..Len(t)
        PROVE  t[j] \in others'[g]
    <3>1. CASE t[j] # h
      <4>1. PICK m, n \in 1..Len(domains) : m < n /\ domains[m] = g /\ domains[n] = t[j]
        BY <1>5, <3>1
      <4> QED
        BY <1>3, <1>6, <4>1 DEF IInv, Ordered, Tabled
    <3> QED
      BY <1>6, <3>1
  <2> QED
    BY <1>4, <2>1 DEF Elements
<1>8. Cardinality(stay) = MaxTracked /\ IsFiniteSet(stay)
  <2> DEFINE places == 1..MaxTracked
             hosts == [i \in places |-> t[i]]
  <2>1. MaxTracked \in Nat /\ IsFiniteSet(places) /\ Cardinality(places) = MaxTracked
    <3>1. MaxTracked \in Nat \ {0}
      BY RegistryAssumption
    <3>2. /\ IsFiniteSet(places)
          /\ Cardinality(places) = IF 1 > MaxTracked THEN 0 ELSE MaxTracked - 1 + 1
      BY <3>1, FS_Interval
    <3> HIDE DEF places
    <3> QED
      BY <3>1, <3>2
  <2>2. hosts \in Bijection(places, stay)
    <3>1. places = 1..Len(t) /\ places = DOMAIN t
      BY <1>4, <1>5
    <3>2. /\ \A i \in places : hosts[i] = t[i] /\ t[i] \in stay
          /\ \A f \in stay : \E i \in places : t[i] = f
          /\ \A i, j \in places : t[i] = t[j] => i = j
      BY <1>4, <3>1 DEF Elements
    <3>3. hosts \in [places -> stay]
      BY <3>2
    <3> HIDE DEF places, hosts, stay
    <3>4. \A i, j \in places : hosts[i] = hosts[j] => i = j
      BY <3>2
    <3>5. \A f \in stay : \E i \in places : hosts[i] = f
      BY <3>2
    <3> QED
      BY <3>3, <3>4, <3>5 DEF Bijection, Injection, Surjection, IsInjective
  <2> HIDE DEF places, hosts, stay
  <2>3. ExistsBijection(places, stay)
    BY <2>2 DEF ExistsBijection
  <2> QED
    BY <2>1, <2>3, FS_Bijection
<1>9. IsFiniteSet(others'[g])
  <2>1. others'[g] \in SUBSET Hosts
    BY <1>6
  <2> QED
    BY <2>1, RegistryAssumption, FS_Subset
<1>10. Cardinality(stay) <= Cardinality(others'[g])
  <2> HIDE DEF stay
  <2>1. stay \in SUBSET others'[g]
    BY <1>7
  <2> QED
    BY <1>9, <2>1, FS_Subset
<1> QED
  BY <1>8, <1>9, <1>10, RegistryAssumption, FS_CardinalityType

(* A host that _touch_domain puts out of the table is cold: at least         *)
(* max_tracked_domains other hosts have been requested since it was.         *)
THEOREM OnlyColdEvicted == Spec => EvictsColdest
<1>1. IInv /\ [Next]_vars =>
          \A h \in Tracked \ Tracked' : Cardinality(others'[h]) >= MaxTracked
  BY EvictsWhenCold
<1> QED
  BY <1>1, InvHolds, PTL DEF Spec, EvictsColdest

\* The sleep before a request is over when nothing of it is left.
LEMMA SendsAfterSleep ==
    ASSUME IInv, [Next]_vars, NEW r \in Requests, pc[r] = "asleep", pc'[r] = "sent"
    PROVE  left[r] = 0
<1>1. pc \in [Requests -> Steps]
  BY DEF IInv, TypeOK
<1>2. CASE \E q \in Requests : Send(q)
  BY <1>1, <1>2 DEF Send
<1>3. CASE \E q \in Requests, h \in Hosts : GetDomain(q, h)
  BY <1>1, <1>3 DEF GetDomain
<1>4. CASE \E q \in Requests : EnsurePolicy(q) \/ NoPolicy(q) \/ Refresh(q) \/ Pace(q)
  BY <1>1, <1>4 DEF EnsurePolicy, NoPolicy, Refresh, Pace
<1>5. CASE \E q \in Requests : Respond(q) \/ Leave(q)
  <2>1. \E q \in Requests : pc' = [pc EXCEPT ![q] = "idle"]
    <3>1. ASSUME NEW q \in Requests, TransportFailure(q) \/ Leave(q)
          PROVE  pc' = [pc EXCEPT ![q] = "idle"]
      BY <3>1 DEF TransportFailure, Leave, Releases
    <3>2. ASSUME NEW q \in Requests, NEW h, NEW what, NEW tier, NEW retryAfter,
                 Outcome(q, h, what, tier, retryAfter)
          PROVE  pc' = [pc EXCEPT ![q] = "idle"]
      BY <3>2 DEF Outcome, Releases
    <3> QED
      BY <1>5, <3>1, <3>2 DEF Respond
  <2> QED
    BY <1>1, <2>1
<1>6. CASE Minute \/ UNCHANGED vars
  BY <1>6 DEF Minute, vars, locals
<1> QED
  BY <1>2, <1>3, <1>4, <1>5, <1>6 DEF Next

(* A Retry-After is forgotten only with its host: a request for a host that  *)
(* is tracked sleeps it out, whichever requests come and go meanwhile.       *)
THEOREM RemembersTracked == Spec => RemembersWhileTracked
<1>1. ASSUME IInv, [Next]_vars, NEW r \in Requests, pc[r] = "asleep", pc'[r] = "sent",
             asked[HostOf(object[r])] > 0
      PROVE  \/ r \in caught
             \/ ~IsTracked(object[r])
             \/ HostOf(object[r]) \in lost
  <2>1. left[r] = 0
    BY <1>1, SendsAfterSleep
  <2>2. r \in Holding
    BY <1>1 DEF IInv, Busy, Holding
  <2> QED
    BY <1>1, <2>1, <2>2, HeldIsThere DEF IInv, SleepersKnow, TypeOK
<1>2. IInv /\ [Next]_vars =>
          \A r \in Requests :
              pc[r] = "asleep" /\ pc'[r] = "sent" /\ asked[HostOf(object[r])] > 0
                  => \/ r \in caught
                     \/ ~IsTracked(object[r])
                     \/ HostOf(object[r]) \in lost
  BY <1>1
<1> QED
  BY <1>2, InvHolds, PTL DEF Spec, RemembersWhileTracked

(* At every moment the agent reads each document as it is meant, unless the  *)
(* document has a window whose days are all odd or whose multiplier is no    *)
(* number, which the code takes as one for every day or as 1.0.              *)
THEOREM DocumentsReadAsMeant ==
    ASSUME \A document \in SampleDocuments : WellSpelled(document)
    PROVE  Spec => []ReadsAsDeclared
<1>1. TypeOK => ReadsAsDeclared
  <2>1. ASSUME NEW document \in SampleDocuments, now \in Moments
        PROVE  /\ RateOf(RuleFor(Parsed(document), AgentName, VerifiedIdentity))
                    = DeclaredRate(document)
               /\ ActiveMultiplier(Parsed(document).crawl_windows, now)
                    = DeclaredMultiplier(document, now)
    BY <2>1, RateIsRead, MultiplierIsRead, RegistryAssumption
  <2> QED
    BY <2>1 DEF TypeOK, ReadsAsDeclared
<1> QED
  BY <1>1, TypeCorrect, PTL

(* policy_to_wire_dict() loses nothing: what the cache writes is parsed as   *)
(* the policy that was written, for any document.                            *)
THEOREM PoliciesReadBack == Spec => []CachedReadsBack
<1>1. CachedReadsBack
  BY PolicyReadsBack DEF CachedReadsBack
<1> QED
  BY <1>1, PTL

-----------------------------------------------------------------------------
(* The declared rate *)

\* Who is allowed a rate has the DomainState for itself, and that is no faster.
Alone ==
    \A r \in Requests : allowed[r] # Nothing =>
        /\ pc[r] = "pace"
        /\ \A q \in Requests \ {r} : object[q] # object[r]
        /\ state[object[r]].controller.rate <= allowed[r]

\* A step that leaves the allowed requests and their DomainStates as they are.
LEMMA OthersStayAlone ==
    ASSUME Alone,
           \A r \in Requests : allowed'[r] # Nothing =>
               /\ allowed'[r] = allowed[r] /\ pc'[r] = pc[r]
               /\ \A q \in Requests \ {r} :
                     object[q] # object[r] => object'[q] # object'[r]
               /\ pc[r] = "pace" /\ (\A q \in Requests \ {r} : object[q] # object[r])
                     => state'[object'[r]].controller = state[object[r]].controller
    PROVE  Alone'
<1>1. ASSUME NEW r \in Requests, allowed'[r] # Nothing
      PROVE  /\ pc'[r] = "pace"
             /\ \A q \in Requests \ {r} : object'[q] # object'[r]
             /\ state'[object'[r]].controller.rate <= allowed'[r]
  <2>1. /\ pc[r] = "pace" /\ \A q \in Requests \ {r} : object[q] # object[r]
        /\ state[object[r]].controller.rate <= allowed[r]
    BY <1>1 DEF Alone
  <2> QED
    BY <1>1, <2>1
<1> QED
  BY <1>1 DEF Alone

LEMMA GetDomainKeepsAlone ==
    ASSUME IInv, Alone, NEW r \in Requests, NEW h \in Hosts, GetDomain(r, h) PROVE Alone'
<1>1. /\ pc[r] = "idle" /\ object[r] = Nothing
      /\ allowed' = [q \in Requests |-> IF object[q] = <<h, 0>> THEN Nothing ELSE allowed[q]]
      /\ \A q \in Requests \ {r} : pc'[q] = pc[q]
  BY DEF GetDomain, IInv, TypeOK, Busy
<1>2. object'[r] = <<h, 0>> /\ IsTracked(<<h, 0>>)
  BY GetDomainKeepsStates, ObjectsArePairs
<1>3. \A q \in Requests \ {r} :
         object[q] # Nothing =>
             /\ state'[object'[q]] = state[object[q]]
             /\ IsTracked(object'[q]) => object'[q] = object[q]
  BY GetDomainKeepsStates
<1>4. \A p, q \in Requests \ {r} :
         object[p] # Nothing /\ object'[p] = object'[q] => object[p] = object[q]
  BY GetDomainKeepsStates
<1>5. ASSUME NEW q \in Requests, allowed'[q] # Nothing
      PROVE  /\ allowed'[q] = allowed[q] /\ pc'[q] = pc[q]
             /\ \A p \in Requests \ {q} : object[p] # object[q] => object'[p] # object'[q]
             /\ state'[object'[q]].controller = state[object[q]].controller
  <2>1. allowed'[q] = allowed[q] /\ object[q] # <<h, 0>>
    BY <1>1, <1>5
  <2>2. pc[q] = "pace" /\ q # r /\ object[q] # Nothing
    BY <1>1, <1>5, <2>1 DEF Alone, IInv, Busy
  <2>3. object'[q] # <<h, 0>>
    BY <1>2, <1>3, <2>1, <2>2
  <2>4. \A p \in Requests \ {q} : object[p] # object[q] => object'[p] # object'[q]
    BY <1>2, <1>4, <2>2, <2>3
  <2> QED
    BY <1>1, <1>3, <2>1, <2>2, <2>4
<1> QED
  BY <1>5, OthersStayAlone

\* A step of r in place, when r is allowed nothing.
LEMMA UpdateKeepsAlone ==
    ASSUME IInv, Alone, NEW r \in Holding, allowed[r] = Nothing \/ pc[r] # "pace",
           NEW d, state' = [state EXCEPT ![object[r]] = d],
           NEW to, pc' = [pc EXCEPT ![r] = to], UNCHANGED <<object, allowed>>
    PROVE  Alone'
<1>1. /\ r \in Requests /\ object[r] \in Objects
      /\ state \in [Objects -> DomainStates \cup {Nothing}] /\ pc \in [Requests -> Steps]
  BY HeldIsThere DEF IInv, TypeOK
<1>2. ASSUME NEW q \in Requests, allowed[q] # Nothing
      PROVE  pc'[q] = pc[q] /\ state'[object[q]] = state[object[q]]
  <2>1. q # r /\ object[q] # object[r]
    BY <1>1, <1>2 DEF Alone
  <2>2. object[q] \in Objects
    BY <1>2 DEF Alone, IInv, TypeOK, Busy
  <2> QED
    BY <1>1, <2>1, <2>2
<1> QED
  BY <1>2, OthersStayAlone

LEMMA RefreshKeepsAlone ==
    ASSUME IInv, Alone, NEW r \in Requests, Refresh(r),
           \A document \in SampleDocuments : WellSpelled(document)
    PROVE  Alone'
<1> DEFINE h == HostOf(object[r])
           d == Refreshed(h, state[object[r]], now)
           shared == \E q \in Requests \ {r} : object[q] = object[r]
           rate == IF shared \/ ~d.hard_ceiling THEN Nothing ELSE Declared(h, now)
<1>1. /\ pc[r] = "refresh" /\ UNCHANGED object
      /\ state' = [state EXCEPT ![object[r]] = d]
      /\ pc' = [pc EXCEPT ![r] = "pace"]
      /\ allowed' = [allowed EXCEPT ![r] = rate]
  BY DEF Refresh
<1>2. r \in Holding
  BY <1>1 DEF IInv, Busy, Holding
<1>3. /\ h \in Hosts /\ object[r] \in Objects
      /\ state[object[r]] \in DomainStates /\ IsRuled(h, state[object[r]])
  BY <1>2, HeldIsThere
<1>4. /\ d.hard_ceiling = state[object[r]].hard_ceiling
      /\ d.controller.rate <= CeilingAt(h, state[object[r]], now)
  BY <1>3, RefreshTyped DEF IsRuled
<1>5. d.hard_ceiling => CeilingAt(h, state[object[r]], now) = Declared(h, now)
  BY <1>3, <1>4, CeilingIsDeclared DEF IInv, TypeOK
<1> HIDE DEF d
<1>6. /\ state \in [Objects -> DomainStates \cup {Nothing}] /\ pc \in [Requests -> Steps]
      /\ allowed \in [Requests -> Int \cup {Nothing}]
  BY DEF IInv, TypeOK
<1>7. ASSUME NEW q \in Requests, allowed'[q] # Nothing
      PROVE  /\ pc'[q] = "pace"
             /\ \A p \in Requests \ {q} : object[p] # object[q]
             /\ state'[object[q]].controller.rate <= allowed'[q]
  <2>1. CASE q = r
    <3>1. /\ pc'[r] = "pace" /\ allowed'[r] = rate /\ state'[object[r]] = d
      BY <1>1, <1>3, <1>6
    <3>2. ~shared /\ d.hard_ceiling /\ rate = Declared(h, now)
      BY <1>7, <2>1, <3>1
    <3> QED
      BY <1>4, <1>5, <2>1, <3>1, <3>2
  <2>2. CASE q # r
    <3>1. allowed'[q] = allowed[q] /\ pc'[q] = pc[q]
      BY <1>1, <1>6, <2>2
    <3>2. /\ pc[q] = "pace" /\ \A p \in Requests \ {q} : object[p] # object[q]
          /\ state[object[q]].controller.rate <= allowed[q]
      BY <1>7, <3>1 DEF Alone
    <3>3. object[q] # object[r] /\ object[q] \in Objects
      BY <2>2, <3>2 DEF IInv, TypeOK, Busy
    <3>4. state'[object[q]] = state[object[q]]
      BY <1>1, <1>6, <3>3
    <3> QED
      BY <3>1, <3>2, <3>4
  <2> QED
    BY <2>1, <2>2
<1> QED
  BY <1>1, <1>7 DEF Alone

\* A request that ends takes its DomainState from nobody who is alone with another.
LEMMA ReleaseKeepsAlone ==
    ASSUME IInv, Alone, NEW r \in Holding, NEW d \in DomainStates,
           IsRuled(HostOf(object[r]), d), Releases(r, d), domains' = domains
    PROVE  Alone'
<1>1. object'[r] = Nothing /\ allowed' = [allowed EXCEPT ![r] = Nothing]
  BY ReleaseKeepsStates DEF Releases
<1>2. \A q \in Requests \ {r} :
         /\ object'[q] = object[q] /\ pc'[q] = pc[q]
         /\ object[q] \notin {Nothing, object[r]} => state'[object[q]] = state[object[q]]
  BY ReleaseKeepsStates
<1>3. ASSUME NEW q \in Requests, allowed'[q] # Nothing
      PROVE  /\ allowed'[q] = allowed[q] /\ pc'[q] = pc[q]
             /\ \A p \in Requests \ {q} : object[p] # object[q] => object'[p] # object'[q]
             /\ state'[object'[q]].controller = state[object[q]].controller
  <2>1. q # r /\ allowed'[q] = allowed[q]
    BY <1>1, <1>3 DEF Holding, IInv, TypeOK
  <2>2. /\ object[q] # Nothing /\ r \in Requests
        /\ \A p \in Requests \ {q} : object[p] # object[q]
    BY <1>3, <2>1 DEF Alone, IInv, Busy, Holding
  <2> QED
    BY <1>1, <1>2, <2>1, <2>2
<1> QED
  BY <1>3, OthersStayAlone

LEMMA RespondKeepsAlone == ASSUME IInv, Alone, NEW r \in Requests, Respond(r) PROVE Alone'
<1>1. ASSUME TransportFailure(r)
      PROVE  Alone'
  <2>1. \E d \in DomainStates :
            /\ IsRuled(HostOf(object[r]), d) /\ Releases(r, d)
            /\ r \in Holding /\ domains' = domains
    BY <1>1, TransportFailureReleases
  <2> QED
    BY <2>1, ReleaseKeepsAlone
<1>2. ASSUME NEW what \in {"fine", "slow", "bad"}, NEW tier \in ValidTiers, NEW h \in Hosts,
             NEW retryAfter \in 0..LongestRetryAfter[h], Outcome(r, h, what, tier, retryAfter)
      PROVE  Alone'
  <2>1. \E d \in DomainStates :
            /\ IsRuled(HostOf(object[r]), d) /\ Releases(r, d)
            /\ r \in Holding /\ domains' = domains
    <3>1. HostOf(object[r]) = h
      BY <1>2 DEF Outcome
    <3> QED
      BY <1>2, <3>1, OutcomeReleases
  <2> QED
    BY <2>1, ReleaseKeepsAlone
<1> QED
  BY <1>1, <1>2 DEF Respond

LEMMA StepKeepsAlone ==
    ASSUME \A document \in SampleDocuments : WellSpelled(document)
    PROVE  IInv /\ Alone /\ [Next]_vars => Alone'
<1> SUFFICES ASSUME IInv, Alone, [Next]_vars
             PROVE  Alone'
  OBVIOUS
<1>1. ASSUME NEW r \in Requests, NEW h \in Hosts, GetDomain(r, h)
      PROVE  Alone'
  BY <1>1, GetDomainKeepsAlone
<1>2. ASSUME NEW r \in Requests, EnsurePolicy(r) \/ NoPolicy(r)
      PROVE  Alone'
  <2>1. pc[r] = "fetching"
    BY <1>2 DEF EnsurePolicy, NoPolicy
  <2>2. r \in Holding
    BY <2>1 DEF IInv, Busy, Holding
  <2>3. /\ \E d : state' = [state EXCEPT ![object[r]] = d]
        /\ pc' = [pc EXCEPT ![r] = "refresh"] /\ UNCHANGED <<object, allowed>>
    BY <1>2 DEF EnsurePolicy, NoPolicy, histories
  <2> QED
    BY <2>1, <2>2, <2>3, UpdateKeepsAlone
<1>3. ASSUME NEW r \in Requests, Refresh(r)
      PROVE  Alone'
  BY <1>3, RefreshKeepsAlone
<1>4. ASSUME NEW r \in Requests, Pace(r) \/ Send(r)
      PROVE  Alone'
  <2>1. ASSUME NEW q \in Requests, allowed'[q] # Nothing
        PROVE  allowed'[q] = allowed[q] /\ pc'[q] = pc[q]
    <3>1. q # r /\ allowed'[q] = allowed[q]
      BY <1>4, <2>1 DEF Pace, Send, Alone, IInv, TypeOK
    <3> QED
      BY <1>4, <3>1 DEF Pace, Send, IInv, TypeOK
  <2>2. UNCHANGED <<object, state>>
    BY <1>4 DEF Pace, Send
  <2> QED
    BY <2>1, <2>2, OthersStayAlone
<1>5. ASSUME NEW r \in Requests, Respond(r)
      PROVE  Alone'
  BY <1>5, RespondKeepsAlone
<1>6. ASSUME NEW r \in Requests, Leave(r)
      PROVE  Alone'
  BY <1>6, HeldIsThere, ReleaseKeepsAlone DEF Leave
<1>7. CASE Minute
  <2>1. UNCHANGED <<object, allowed, pc>>
    BY <1>7 DEF Minute
  <2>2. ASSUME NEW q \in Requests, allowed[q] # Nothing
        PROVE  state'[object[q]].controller = state[object[q]].controller
    <3>1. q \in Holding
      BY <2>2 DEF Alone, IInv, Busy, Holding
    <3>2. object[q] \in Objects /\ state[object[q]] \in DomainStates
      BY <3>1, HeldIsThere
    <3>3. state'[object[q]] = [state[object[q]] EXCEPT !.floor = Most(0, @ - 1)]
      BY <1>7, <3>2, NothingAssumption DEF Minute
    <3> QED
      BY <3>2, <3>3 DEF DomainStates
  <2> QED
    BY <2>1, <2>2, OthersStayAlone
<1>8. CASE UNCHANGED vars
  BY <1>8 DEF vars, locals, histories, Alone
<1> QED
  BY <1>1, <1>2, <1>3, <1>4, <1>5, <1>6, <1>7, <1>8 DEF Next

(* A request that is alone with its DomainState is not paced faster than its *)
(* document declares for this agent and this minute, although set_ceiling()  *)
(* of another host may set the max_rate they share meanwhile.                *)
THEOREM StaysWithinDeclared ==
    ASSUME \A document \in SampleDocuments : WellSpelled(document)
    PROVE  Spec => AloneWithinDeclared
<1>1. Init => Alone
  BY DEF Init, Alone
<1>2. IInv /\ Alone /\ [Next]_vars => Alone'
  BY StepKeepsAlone
<1>3. Alone /\ [Next]_vars =>
          \A r \in Requests :
              pc[r] = "pace" /\ pc'[r] = "asleep" /\ allowed[r] # Nothing
                  => state[object[r]].controller.rate <= allowed[r]
  BY DEF Alone
<1> QED
  BY <1>1, <1>2, <1>3, InvHolds, PTL DEF Spec, AloneWithinDeclared

=============================================================================

--------------------------- MODULE DomainRegistry ---------------------------
(***************************************************************************)
(* The hosts of one client: the table of DomainStates that _get_domain     *)
(* keeps and _touch_domain bounds, and the ControllerConfig that they      *)
(* share.  A request is one hop of request(): _request_once(), to which a  *)
(* redirect comes back with the next host.                                 *)
(*                                                                         *)
(* A DomainState may be evicted while requests hold it; they go on with    *)
(* the object they have, and the next one makes another.  config.max_rate  *)
(* belongs to the one ControllerConfig of the client: the set_ceiling() of *)
(* any host sets it for all of them.                                       *)
(*                                                                         *)
(* Here the site's document decides the rate, at the moment of the request *)
(* (SitePolicy).  A policy is fetched once for a DomainState; its age is   *)
(* the matter of PolicyDiscovery.  The semaphore and the token bucket      *)
(* (RequestPipeline) are a wait of any length, a refusal of the breaker    *)
(* (CircuitBreaker) one of the ways to leave.                              *)
(***************************************************************************)
EXTENDS Aimd, SitePolicy

CONSTANTS
    Hosts,
    Requests,           \* the requests that run at once
    Nothing,            \* no DomainState, no document
    Documents,          \* [Hosts -> the document of the site, or Nothing]
    SampleDocuments,    \* documents that ReadsAsDeclared looks at
    AgentName,          \* identity.name
    VerifiedIdentity,   \* verified_identity, or None
    MaxTracked,         \* config.max_tracked_domains
    TierRates, TierCeilings, DefaultTier,   \* config
    InitialMaxRate,     \* config.controller.max_rate before any set_ceiling()
    InitialBurst,       \* 3 in the code
    LongestRetryAfter   \* [Hosts -> the longest Retry-After it sends, in minutes]

ASSUME RegistryAssumption ==
    /\ IsFiniteSet(Requests) /\ IsFiniteSet(Hosts)
    /\ Documents \in [Hosts -> SampleDocuments \cup {Nothing}] /\ Nothing \notin SampleDocuments
    /\ \A document \in SampleDocuments : IsDocument(document)
    /\ MaxTracked \in Nat \ {0}
    /\ TierRates \in [ValidTiers -> Nat \ {0}]
    /\ TierCeilings \in [ValidTiers -> Nat \ {0}]
    /\ DefaultTier \in ValidTiers /\ InitialMaxRate \in Nat
    /\ InitialBurst \in Nat \ {0} /\ LongestRetryAfter \in [Hosts -> Nat]

VARIABLES
    now,        \* the moment, UTC
    state,      \* the DomainState each object is
    domains,    \* _domains: the hosts that are tracked, the coldest first
    max_rate,   \* config.controller.max_rate
    pc,         \* where each request is
    object,     \* the DomainState it holds
    left,       \* minutes its sleep has left at least
    allowed,    \* history: the rate its site allows a request that has refreshed the
                \*   ceiling, while no other request touches the DomainState
    asked,      \* history: minutes left of the Retry-After that each host has sent
    caught,     \* history: requests that were asleep when it came
    lost,       \* history: hosts whose Retry-After went to a DomainState now evicted
    others      \* history: the other hosts requested since each host was

locals == <<pc, object, left>>
histories == <<allowed, asked, caught, lost, others>>
vars == <<now, state, domains, max_rate, locals, histories>>

Steps == {"idle", "fetching", "refresh", "pace", "asleep", "sent"}

-----------------------------------------------------------------------------
(* DomainStates.  <<h, 0>> is the one that is tracked for the host h.  One   *)
(* that is evicted while requests hold it goes on as <<h, n>>, n > 0.        *)

Objects == Hosts \X (0..Cardinality(Requests))
HostOf(o) == o[1]
IsTracked(o) == o[2] = 0

\* DomainState.__init__ with its set_ceiling().  A baseline is assumed from the start: the
\* first response, too, may be slow or not
NewDomainState ==
    [ fetched |-> FALSE, hard_ceiling |-> FALSE, calibrated |-> FALSE,
      base_ceiling |-> TierCeilings[DefaultTier], floor |-> 0,
      controller |->
          CeilingSet([InitController(TierRates[DefaultTier], InitialBurst) EXCEPT !.baseline = TRUE],
                     TierCeilings[DefaultTier]) ]

DomainStates ==
    [ fetched : BOOLEAN, hard_ceiling : BOOLEAN, calibrated : BOOLEAN,
      base_ceiling : Nat, floor : Nat, controller : ControllerRecords ]

ASSUME NothingAssumption ==
    Nothing \notin Int /\ Nothing \notin Objects /\ Nothing \notin DomainStates

HostPolicy == [h \in {g \in Hosts : Documents[g] # Nothing} |-> Parsed(Documents[h])]

\* The rate that apply_policy() takes from a rule
RateOf(rule) ==
    IF rule.rate # NoRate THEN rule.rate
    ELSE TierRates[IF rule.tier # None THEN rule.tier ELSE DefaultTier]

\* The ceiling that refresh_effective_ceiling() sets
CeilingAt(h, d, moment) ==
    IF d.hard_ceiling
    THEN (d.base_ceiling * ActiveMultiplier(HostPolicy[h].crawl_windows, moment))
             \div MultiplierUnit
    ELSE d.base_ceiling

\* Fault: the ceiling is for the increases to come, and the rate stays
RefreshedAhead(h, d, moment) == d

\* ... and what that does to the rate
Refreshed(h, d, moment) == [d EXCEPT !.controller = CeilingSet(@, CeilingAt(h, d, moment))]

\* Fault: a policy starts the DomainState anew
PolicyAppliedAfresh(h, d, moment) ==
    LET rate == RateOf(RuleFor(HostPolicy[h], AgentName, VerifiedIdentity))
    IN  Refreshed(h,
                  [NewDomainState EXCEPT !.fetched = TRUE, !.hard_ceiling = TRUE,
                                         !.base_ceiling = rate, !.controller.rate = rate],
                  moment)

\* apply_policy()
PolicyApplied(h, d, moment) ==
    LET rate == RateOf(RuleFor(HostPolicy[h], AgentName, VerifiedIdentity))
    IN  Refreshed(h,
                  [d EXCEPT !.fetched = TRUE, !.hard_ceiling = TRUE, !.base_ceiling = rate,
                            !.controller.rate = IF d.calibrated THEN Least(@, rate) ELSE rate],
                  moment)

\* apply_inference(), where the headers and the ttfb suggest the tier
Inferred(h, d, tier, moment) ==
    IF d.hard_ceiling
    THEN [d EXCEPT !.calibrated = TRUE]
    ELSE LET capped == Refreshed(h, [d EXCEPT !.calibrated = TRUE,
                                           !.base_ceiling = TierCeilings[tier]], moment)
         IN  [capped EXCEPT !.controller.rate = (@ + TierRates[tier]) \div 2]

\* The ceiling in config.max_rate after apply_inference()
InferredMaxRate(d, tier) ==
    IF d.calibrated \/ d.hard_ceiling THEN max_rate ELSE TierCeilings[tier]

-----------------------------------------------------------------------------
(* What a document says, put the way SPEC.md puts it: the rate of the most   *)
(* specific entry there is for the agent, times the largest multiplier of    *)
(* the windows that are open.  The code is above and in SitePolicy.          *)

Entries(document) ==
    {[rank |-> 3, rule |-> document.verified_agents[n]] :
            n \in DOMAIN document.verified_agents \cap ({VerifiedIdentity} \ {None})}
        \cup {[rank |-> 2, rule |-> document.agents[n]] :
                 n \in DOMAIN document.agents \cap ({AgentName} \ {None})}
        \cup {[rank |-> 1, rule |-> document.agents[n]] :
                 n \in DOMAIN document.agents \cap (IF AgentName = None THEN {} ELSE {"*"})}
        \cup {[rank |-> 0, rule |-> document.default]}

DeclaredRate(document) ==
    LET entry == CHOOSE e \in Entries(document) : \A f \in Entries(document) : f.rank <= e.rank
        rate == Get(entry.rule, "rate", NoRate)
        tier == IF Get(entry.rule, "tier", None) \in ValidTiers THEN entry.rule.tier ELSE DefaultTier
    IN  IF rate # NoRate THEN rate ELSE TierRates[tier]

\* The minutes from start on, around the clock, up to end
SpanMinutes(w) == {(w.start + k) % DayLength : k \in 0..((w.end - w.start) % DayLength) - 1}

OpenAt(w, moment) ==
    /\ Get(w, "days", {}) = {} \/ moment.day \in w.days
    /\ \/ Get(w, "hours", "all") = "all"
       \/ w.hours = "span" /\ moment.minute \in SpanMinutes(w)

DeclaredMultiplier(document, moment) ==
    LET factors == {Get(w, "multiplier", MultiplierUnit) :
                        w \in {v \in document.crawl_windows : OpenAt(v, moment)}}
    IN  IF factors = {} THEN MultiplierUnit
        ELSE CHOOSE m \in factors : \A n \in factors : n <= m

Declared(h, moment) ==
    (DeclaredRate(Documents[h]) * DeclaredMultiplier(Documents[h], moment)) \div MultiplierUnit

-----------------------------------------------------------------------------
(* The table *)

Elements(seq) == {seq[i] : i \in DOMAIN seq}
Holding == {r \in Requests : object[r] # Nothing}
Tracked == Elements(domains)

\* The others, in their order
Others(h) ==
    LET i == CHOOSE j \in DOMAIN domains : domains[j] = h
    IN  IF h \in Tracked THEN SubSeq(domains, 1, i - 1) \o SubSeq(domains, i + 1, Len(domains))
        ELSE domains

\* Fault: the table is left to grow
TouchedUnbounded(h) == Append(Others(h), h)

\* Fault: a host that is tracked stays in its place
TouchedInPlace(h) ==
    IF h \in Tracked THEN domains
    ELSE IF Len(domains) < MaxTracked THEN Append(domains, h)
         ELSE Append(Tail(domains), h)

\* _touch_domain: h becomes the hottest, and the coldest beyond MaxTracked leaves
Touched(h) ==
    LET hotter == Append(Others(h), h)
    IN  IF Len(hotter) > MaxTracked THEN Tail(hotter) ELSE hotter

\* A number that no evicted DomainState of h has
IsVacant(h, n) == \A r \in Requests : object[r] # <<h, n>>

\* The name of the DomainState of h when h is evicted
Evicted(h) ==
    <<h, CHOOSE n \in 1..Cardinality(Requests) :
             IsVacant(h, n) /\ \A m \in 1..(n - 1) : ~IsVacant(h, m)>>

\* What becomes of the DomainState o when these hosts are evicted
Kept(o, evicted) ==
    IF o # Nothing /\ HostOf(o) \in evicted /\ IsTracked(o) THEN Evicted(HostOf(o)) ELSE o

\* The DomainStates that somebody refers to
Collected(objects, tracked, held) ==
    [o \in Objects |->
        IF (IsTracked(o) /\ HostOf(o) \in tracked) \/ \E r \in Requests : held[r] = o
        THEN objects[o] ELSE Nothing]

TypeOK ==
    /\ now \in Moments
    /\ state \in [Objects -> DomainStates \cup {Nothing}]
    /\ domains \in Seq(Hosts) /\ Len(domains) <= MaxTracked
    /\ max_rate \in Nat
    /\ pc \in [Requests -> Steps]
    /\ object \in [Requests -> Objects \cup {Nothing}]
    /\ left \in [Requests -> Nat]
    /\ allowed \in [Requests -> Int \cup {Nothing}]
    /\ asked \in [Hosts -> Nat] /\ \A h \in Hosts : asked[h] <= LongestRetryAfter[h]
    /\ caught \subseteq Requests
    /\ lost \subseteq Hosts
    /\ others \in [Hosts -> SUBSET Hosts]

Init ==
    /\ now \in Moments
    /\ state = [o \in Objects |-> Nothing]
    /\ domains = <<>>
    /\ max_rate = InitialMaxRate
    /\ pc = [r \in Requests |-> "idle"]
    /\ object = [r \in Requests |-> Nothing]
    /\ left = [r \in Requests |-> 0]
    /\ allowed = [r \in Requests |-> Nothing]
    /\ asked = [h \in Hosts |-> 0]
    /\ caught = {}
    /\ lost = {}
    /\ others = [h \in Hosts |-> Hosts \ {h}]

-----------------------------------------------------------------------------
(* One request *)

(* _get_domain(), which makes a DomainState if the host is not tracked (any   *)
(* more), and the test of policy_is_fresh().  Other hosts may be evicted: who *)
(* holds their DomainStates keeps them.                                       *)
GetDomain(r, h) ==
    LET evicted == Tracked \ Elements(Touched(h))
        found == IF h \in Tracked THEN state[<<h, 0>>] ELSE NewDomainState
        kept == [o \in Objects |-> IF \E g \in evicted : o = Evicted(g)
                                   THEN state[<<HostOf(o), 0>>] ELSE state[o]]
    IN  /\ pc[r] = "idle"
        /\ domains' = Touched(h)
        /\ object' = [q \in Requests |-> IF q = r THEN <<h, 0>> ELSE Kept(object[q], evicted)]
        /\ state' = Collected([kept EXCEPT ![<<h, 0>>] = found], Elements(domains'), object')
        /\ max_rate' = IF h \in Tracked THEN max_rate ELSE TierCeilings[DefaultTier]
        /\ pc' = [pc EXCEPT ![r] = IF found.fetched THEN "refresh" ELSE "fetching"]
        /\ allowed' = [q \in Requests |-> IF object[q] = <<h, 0>> THEN Nothing ELSE allowed[q]]
        /\ lost' = lost \cup {g \in evicted : asked[g] > 0}
        /\ others' = [g \in Hosts |-> IF g = h THEN {} ELSE others[g] \cup {h}]
        /\ UNCHANGED <<now, left, asked, caught>>

\* The rest of _ensure_policy(), where the site has a document and the fetch finds it
EnsurePolicy(r) ==
    LET h == HostOf(object[r])
        d == PolicyApplied(h, state[object[r]], now)
    IN  /\ pc[r] = "fetching"
        /\ Documents[h] # Nothing
        /\ state' = [state EXCEPT ![object[r]] = d]
        /\ max_rate' = CeilingAt(h, d, now)
        /\ pc' = [pc EXCEPT ![r] = "refresh"]
        /\ UNCHANGED <<now, domains, object, left, histories>>

\* ... where it does not
NoPolicy(r) ==
    /\ pc[r] = "fetching"
    /\ state' = [state EXCEPT ![object[r]].fetched = TRUE]
    /\ pc' = [pc EXCEPT ![r] = "refresh"]
    /\ UNCHANGED <<now, domains, max_rate, object, left, histories>>

\* refresh_effective_ceiling(), before the breaker is asked
Refresh(r) ==
    LET h == HostOf(object[r])
        d == Refreshed(h, state[object[r]], now)
        shared == \E q \in Requests \ {r} : object[q] = object[r]
    IN  /\ pc[r] = "refresh"
        /\ state' = [state EXCEPT ![object[r]] = d]
        /\ max_rate' = CeilingAt(h, d, now)
        /\ pc' = [pc EXCEPT ![r] = "pace"]
        /\ allowed' = [allowed EXCEPT ![r] =
                          IF shared \/ ~d.hard_ceiling THEN Nothing ELSE Declared(h, now)]
        /\ UNCHANGED <<now, domains, object, left, asked, caught, lost, others>>

\* wait_time() and retry_wait_remaining(), and the sleep begins
Pace(r) ==
    /\ pc[r] = "pace"
    /\ left' = [left EXCEPT ![r] = state[object[r]].floor]
    /\ pc' = [pc EXCEPT ![r] = "asleep"]
    /\ allowed' = [allowed EXCEPT ![r] = Nothing]
    /\ UNCHANGED <<now, state, domains, max_rate, object, asked, caught, lost, others>>

\* The sleep is over, which may last as long as the token bucket wants
Send(r) ==
    /\ pc[r] = "asleep"
    /\ left[r] = 0
    /\ pc' = [pc EXCEPT ![r] = "sent"]
    /\ caught' = caught \ {r}
    /\ UNCHANGED <<now, state, domains, max_rate, object, left, allowed, asked, lost, others>>

\* r ends, and leaves its DomainState as d
Releases(r, d) ==
    /\ object' = [object EXCEPT ![r] = Nothing]
    /\ state' = Collected([state EXCEPT ![object[r]] = d], Tracked, object')
    /\ pc' = [pc EXCEPT ![r] = "idle"]
    /\ left' = [left EXCEPT ![r] = 0]
    /\ allowed' = [allowed EXCEPT ![r] = Nothing]

(* _record_outcome(): the headers and the latency of a first response        *)
(* suggest a tier; a 429 or 503 may carry a Retry-After; a slow response is  *)
(* one whose latency is over the baseline.                                   *)
Outcome(r, h, what, tier, retryAfter) ==
    LET found == state[object[r]]
        inferred == IF found.calibrated THEN found ELSE Inferred(h, found, tier, now)
        ceiling == InferredMaxRate(found, tier)
        reported == [inferred EXCEPT
            !.floor = Most(@, retryAfter),
            !.controller = IF what = "bad" THEN ControllerFailure(@)
                           ELSE ControllerSuccess(@, ceiling, what = "slow")]
        later == retryAfter > asked[h]
    IN  /\ pc[r] = "sent" /\ HostOf(object[r]) = h
        /\ retryAfter > 0 => what = "bad"
        /\ max_rate' = ceiling
        /\ Releases(r, reported)
        /\ asked' = [asked EXCEPT ![h] = Most(@, retryAfter)]
        /\ caught' = IF later
                     THEN caught \cup {q \in Holding : pc[q] = "asleep" /\ HostOf(object[q]) = h}
                     ELSE caught
        /\ lost' = IF ~later THEN lost
                   ELSE IF IsTracked(object[r]) THEN lost \ {h} ELSE lost \cup {h}
        /\ UNCHANGED <<now, domains, others>>

\* A timeout or a transport error
TransportFailure(r) ==
    /\ pc[r] = "sent"
    /\ Releases(r, [state[object[r]] EXCEPT !.controller = ControllerFailure(@)])
    /\ UNCHANGED <<now, domains, max_rate, asked, caught, lost, others>>

\* Disallowed, refused by the breaker, cancelled, or ended by another exception
Leave(r) ==
    /\ r \in Holding
    /\ Releases(r, state[object[r]])
    /\ caught' = caught \ {r}
    /\ UNCHANGED <<now, domains, max_rate, asked, lost, others>>

Minute ==
    /\ now' = NextMoment(now)
    /\ state' = [o \in Objects |->
                    IF state[o] = Nothing THEN Nothing
                    ELSE [state[o] EXCEPT !.floor = Most(0, @ - 1)]]
    /\ left' = [r \in Requests |-> Most(0, left[r] - 1)]
    /\ asked' = [h \in Hosts |-> Most(0, asked[h] - 1)]
    /\ lost' = {h \in lost : asked[h] > 1}
    /\ UNCHANGED <<domains, max_rate, pc, object, allowed, caught, others>>

Respond(r) ==
    \/ TransportFailure(r)
    \/ \E what \in {"fine", "slow", "bad"}, tier \in ValidTiers, h \in Hosts :
          \E retryAfter \in 0..LongestRetryAfter[h] : Outcome(r, h, what, tier, retryAfter)

Next ==
    \/ Minute
    \/ \E r \in Requests :
          \/ \E h \in Hosts : GetDomain(r, h)
          \/ EnsurePolicy(r) \/ NoPolicy(r) \/ Refresh(r) \/ Pace(r) \/ Send(r)
          \/ Respond(r) \/ Leave(r)

Spec == Init /\ [][Next]_vars

-----------------------------------------------------------------------------
(* A request that is the only one to use its DomainState from the time it    *)
(* refreshes the ceiling until it paces itself does not go faster than the   *)
(* document of its site says for that time and this agent, whatever requests *)
(* to other hosts do to the max_rate they share with it.                     *)
AloneWithinDeclared ==
    [][\A r \in Requests :
         pc[r] = "pace" /\ pc'[r] = "asleep" /\ allowed[r] # Nothing
             => state[object[r]].controller.rate <= allowed[r]]_vars

(* A host is forgotten only when it is cold: when at least MaxTracked other  *)
(* hosts have been requested since it was requested last.                    *)
EvictsColdest ==
    [][\A h \in Tracked \ Tracked' : Cardinality(others'[h]) >= MaxTracked]_vars

(* As long as a host is not forgotten its Retry-After holds: a request that  *)
(* goes out before it has passed was asleep when it came, or has a           *)
(* DomainState that is evicted, or the host has been evicted since.          *)
RemembersWhileTracked ==
    [][\A r \in Requests :
         pc[r] = "asleep" /\ pc'[r] = "sent" /\ asked[HostOf(object[r])] > 0
             => \/ r \in caught
                \/ ~IsTracked(object[r])
                \/ HostOf(object[r]) \in lost]_vars

(* The agent reads a document as it is meant: for each document there may    *)
(* be, at every moment, the rule it picks and the multiplier it finds are    *)
(* the declared ones, around midnight and where windows overlap.  The clock  *)
(* starts at every moment, so the look before the first request sees all.    *)
ReadsAsDeclared ==
    domains = <<>> =>
        \A document \in SampleDocuments :
            LET policy == Parsed(document)
            IN  /\ RateOf(RuleFor(policy, AgentName, VerifiedIdentity)) = DeclaredRate(document)
                /\ ActiveMultiplier(policy.crawl_windows, now) = DeclaredMultiplier(document, now)

(* A policy survives the disk: what the cache writes is read back, through   *)
(* the parser of the site's own file, as the policy that was written; a zero *)
(* or a missing field is neither lost nor made up on the way.                *)
CachedReadsBack ==
    domains = <<>> =>
        \A document \in SampleDocuments :
            LET policy == Parsed(document) IN Parsed(WireDocument(policy)) = policy

(* SPEC.md of requests_per_second: "Ceiling. An implementing agent's         *)
(* adaptive controller MUST NOT exceed this".  No controller ever runs       *)
(* faster than the rate its site declares, times the largest multiplier of   *)
(* its windows at any moment.                                                *)
NeverAboveDeclared ==
    \A h \in Tracked :
        state[<<h, 0>>].hard_ceiling =>
            \E moment \in Moments : state[<<h, 0>>].controller.rate <= Declared(h, moment)

=============================================================================

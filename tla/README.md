# considerate in TLA+

`considerate` is an HTTP client library that is polite to the hosts it requests from: it paces itself per
host, backs off when the host is in trouble, opens a circuit when the host fails, waits for `Retry-After`,
and obeys the policy a site publishes. This directory models the part of it that decides *whether and when a
request goes out*. The modules are checked by TLC on small instances; the theorems are proved by TLAPS for
all values of the constants.

Paths below are relative to the repository: `client.py` is `src/considerate/client.py`, and so on.

Contents: 1 Inventory · 2 Modules · 3 Runs · 4 Fairness · 5 Theorems · 6 Where code and documents disagree ·
7 Not modelled · 8 What could come next

## 1. Inventory

| component | state | operations | used by |
|---|---|---|---|
| circuit breaker (`breaker.py`) | state, streak, window of outcomes, time of the trip, cooldown; a lock | `check`, `report_success`, `report_failure`, `state` | `DomainState` |
| rate controller (`controller.py`) | rate, tokens, last refill, streak, latency baseline; a lock. The ceiling is in a `ControllerConfig` that *all* hosts of a client share | `wait_time`, `consume`, `report_success`, `report_failure`, `set_ceiling` | `DomainState` |
| domain state (`_domain.py`) | the two above, the policy and when it was fetched, the robots parser, calibration, base ceiling, limit, `retry_not_before`; no lock | `apply_policy`, `apply_inference`, `refresh_effective_ceiling`, `note_retry_after`, `retry_wait_remaining` | the clients, the browser pages |
| request pipeline (`client.py`, `requests_adapter.py`) | per host a semaphore and its limit; the locals of each request | `_request_once`, `_get_semaphore`, `_record_outcome` | the program, with threads (`ConsiderateClient`) or tasks (`AsyncConsiderateClient`) |
| domain registry (`client.py`) | the ordered table of `DomainState`s | `_get_domain`, `_touch_domain`, `snapshot` | the pipeline |
| policy discovery (`client.py`, `browser.py`) | in the `DomainState`: policy, its time, robots parser | `_ensure_policy` | the pipeline, first thing |
| persistent policy cache (`_cache.py`) | a row per host, on disk | `load_fresh`, `set` | policy discovery |
| site policy (`policy.py`) | none | `parse_well_known`, `rule_for`, `active_multiplier`, `parse_robots_crawl_delay` | discovery, domain state |
| redirects (`_redirects.py`) | count of hops | `next_hop` | `request()` |
| Playwright wrapper (`browser.py`) | a table of `DomainState`s | `goto`, `_ensure_policy` | the program |
| identity and structured fields (`identity.py`, `_structured_fields.py`) | none | `to_header`, `parse_header`, `parse_sf_dictionary` | every request's headers; a site that reads them |
| the rest: `_util.py`, configuration, events, metrics, CLI, MCP server | none that decides when a request goes out | | |

How they interact. A request asks `_get_domain` for the host's `DomainState`, calls `_ensure_policy` (fetches of
the well-known file and of `robots.txt`, or the disk), refreshes the ceiling, asks the breaker, waits for the
host's semaphore, sleeps for a token and for the `Retry-After` floor, takes the token, sends, and reports: tier,
floor, controller, breaker, in that order. A redirect is the same again with the next host.

What is hard, and what makes each component correct:

- **Breaker.** Its methods are atomic, their *order* is anybody's: a caller let through before a trip may report
  after it, in the open or half-open state. It must trip when it should, rest exactly as long as the backoff
  says, whatever is reported late, and get a recovered host its traffic back.
- **Controller.** `wait_time`, the sleep and `consume` are three steps and reserve nothing. The rate must stay
  between its bounds while windows move the ceiling, may not recover faster than AIMD allows whatever the order
  of reports, and must recover in the end.
- **Pipeline.** Everything a request reads before it waits may be stale afterwards: the breaker's answer, the
  floor, the semaphore. It may be cancelled wherever it waits. The limit, the floor and the open circuit must
  hold as far as the code can keep them, permits must not leak, and every request must end.
- **Discovery.** Concurrent discoveries end in any order, every fetch may fail, the site changes its files in
  between, and a restart keeps the row on disk only. A replaced policy must age out; `robots.txt` must be obeyed.
- **Registry.** A `DomainState` may be evicted while requests use it; all share one `max_rate`. Only cold hosts
  may be forgotten, and no host may be asked faster than its document says.
- **Identity.** The header is quoted in one file and unquoted in another. Whatever is in a field, it must come back as
  that field; a malformed header must be refused and not half read.
- **Site policy.** Windows wrap around midnight, overlap, and have missing or odd fields; what the cache writes
  must be read back as the same policy.

The list of hazards, each with its source line and the properties about it, is in `PROJECT.json`.

## 2. Modules

```
BackoffCircuit ◁ ─ implemented by ─ CircuitBreaker, RequestPipeline

Breaker ─── CircuitBreaker ──── CircuitBreakerProofs          SitePolicy ─┐
   │                                      │                   Aimd ───────┴─ DomainRegistry
   │                               MethodProofs ────────────────────────────────┴─ DomainRegistryProofs
   │                                      │
Domain ──── RequestPipeline ── RequestPipelineProofs
   │                                      │                   PolicyDiscovery ── PolicyDiscoveryProofs
Aimd ────── RateController ──── RateControllerProofs
                      StructuredFields ── AgentHeader ── AgentHeaderProofs ── HeaderGrammarProofs
```

`Breaker`, `Aimd`, `Domain`, `SitePolicy` and `StructuredFields` have no variables: a method is an operator on a record (all methods
of the first two run under the object's lock, so each is one step). The other modules own such records and
say who calls which method when. `MC*.tla` and `MC*.cfg` are the instances for TLC.

In every module an operator commented `Fault:` is *not* part of the specification: it is the definition after
it with a plausible mistake in it. With the mistake in place of the definition TLC refutes the property it is listed with in
`PROJECT.json` (`mutants`), which is how we know that the property says something about the code.

**Breaker / CircuitBreaker** (`breaker.py`). `Check` is `check()`, `ReadState` the property `state`, `ReportSuccess`,
`ReportFailure` the reports; `Leave` is a caller that ends without a report. `_opened_at` is kept as its age and
the streak stops counting at its threshold; neither changes an answer. Histories: seconds since the trip
(`rested`), times the circuit reopened since it was last closed (`failedProbes`), and who of those let through was so
before the last trip (`outdated`).

**BackoffCircuit** is what the breaker promises to those who ask it, without window, streak or classification of outcomes: it
trips when it likes, refuses for a cooldown, lets probes through, and a report closes it or opens it for a cooldown twice
as long. It knows who was let through since the trip (`fresh`) and who before it (`late`), and says *whose* report may do
that in two ways. `Documented` is what the documents say: a probe's, that is, one of `fresh`. `Spec` and its safety part
`Safety` are what the code does: the breaker cannot tell who reports, so the report of one of `late` that comes in the half-open
state decides too, as a step of its own (`LateSucceeds`, `LateFails`). In the open state no report of anybody does anything.
`CircuitBreaker` implements `Spec` with its liveness (`BacksOff`: the probe does come), `RequestPipeline` implements
`Safety`, on `domain.breaker`. That neither implements `Documented` is the run `late_report` (section 6). In both the abstract
`rested` is the age of the breaker's stamp, and `late` is `outdated`.

**Aimd / RateController** (`controller.py`, and what of `client.py` and `_domain.py` sets the rate). Senders do `WaitTime`, sleep,
`Consume`, then `Success`/`Failure`, or `Leave`. On the first response with a status `First` and `Infer` come before
the feedback, as in `_record_outcome` (`client.py:127`): `apply_inference()` sets the ceiling of some tier and pulls the rate
halfway to the tier's (`_domain.py:156`), unless a policy rules. `ApplyPolicy` is `apply_policy()`: the rate of the rule for
a host that is not calibrated, no more than that for one that is; burst and ceiling. `Refresh` is
`refresh_effective_ceiling()`, which may find another crawl window open. No tier or rule is assumed to have a
ceiling of `MinRate` or more, or a rate within its own ceiling, as nothing in the code asks for it.
Numbers are whole: `Unit` credits are a token, a rate adds that many credits a second, halving rounds
down, a wait is in full seconds (never shorter than the code's). The latency baseline is reduced to whether
there is one, since the first response is its own baseline.

**Domain** (`_domain.py`): a breaker, a controller, the floor as seconds to go, calibration, the limit and whether a
policy rules. `PolicyApplied` is `apply_policy()`: a rule without `max_concurrent` or `burst` (0 here) leaves those that
are there. Crawl windows are left out here and modelled in `DomainRegistry`.

**RequestPipeline** (`_request_once`, `_get_semaphore`, `_record_outcome`; `goto` of `browser.py`). `pc` names the steps:

| `pc` | code | action |
|---|---|---|
| idle | `refresh_effective_ceiling()` | `Begin` |
| check | `breaker.check()`, or `CircuitOpenError` | `Check` |
| gate, install, stamp, pick | the test, the two writes and the return of `_get_semaphore` | `Gate`, `Install`, `Stamp`, `Pick` |
| acquire | entering the semaphore | `Acquire` |
| pace | `max(wait_time(), retry_wait_remaining())` | `Pace` |
| asleep | the sleep; `consume()` at its end | `Send` |
| sent | the server's answer | `Receive`, `TransportFailure`, `NoResponse` |
| infer, tier | `apply_inference()` up to its test of `hard_ceiling`; the rest of it | `Infer`, `TakeTier` |
| noting | `retry_not_before` written | `Note` |
| feedback, report | controller, then breaker; the semaphore left | `Feedback`, `Report` |

`kind` says what the requests are. *Threads* may be interrupted between any two steps. *Coroutines* keep the event
loop (`running`) until they await: the semaphore when it has no permit, a sleep that is longer than 0, the
server. *Navigations* are coroutines without a semaphore that may end without a response and then report
nothing. `Cancel` takes a request out wherever it waits. `ApplyPolicy` is a policy that `_ensure_policy` of some request
has found, at any time: it changes the rate, the ceiling and the limit under requests in flight, and the next
`_get_semaphore` makes a new semaphore beside the old one, whose holders go on. A semaphore object is named after a
request that does not use it, so there are always names enough; `capacity` is the value it was made with.
Histories: `outdated` (let through before the circuit last tripped), `caught` (asleep when the floor was moved),
`before` (let through before the limit last changed).

**PolicyDiscovery** (`_ensure_policy` of both clients, the adapter and the browser pages; `_cache.py`). A policy is a
value. Each fetch may answer, answer with an error or fail; the process may be restarted, as another client; the
site may change either file at any time. `steady` counts the ticks since the last change or failed fetch. The
async client fetches the well-known file whatever it found on disk; browser pages have no disk cache.

**SitePolicy** (`policy.py`, `_cache.py`): parsing of the fields that decide the rate, `rule_for`, `is_active`,
`active_multiplier`, and the document `policy_to_wire_dict` makes of a policy.

**DomainRegistry** (`_get_domain`, `_touch_domain`, and `_request_once` once more, with several hosts and real
documents, but a wait of any length for semaphore and tokens). A tracked `DomainState` is `<<h, 0>>`; one that is
evicted while requests hold it goes on as `<<h, n>>`. `max_rate` is the shared `config.controller.max_rate`.
`DeclaredRate` and `DeclaredMultiplier` are the reference definitions, written from what the policy format
means (most specific entry; minutes around the clock) and not from the code.

**StructuredFields** (`_structured_fields.py`): a method of `_Parser` is an operator from the position where it begins to the
one where it ends, or 0 where it raises; the loops are recursive functions. A text is a sequence of characters,
each the one that counts for the parser. Characters are told apart by what `isalpha()`, `isalnum()`, `isdigit()` and `int()` say of
them: letters, decimals, superscripts (which `isdigit()` accepts and `int()` refuses), numerals (which only `isalnum()` accepts),
and which of these are not ASCII. What `int()`, `float()` and `b64decode()` compute is not there, only when they fail: `Converts`
has it that a number needs decimals only and that `int()` takes no more than `LongestInteger` digits (4300 in CPython, 2 in
the run), `Decodes` that `b64decode()` refuses text that is not ASCII and wrong padding, skips what is no base64, and takes the `+`.
The module was compared with the Python code on thousands of random texts, those characters among them.

**AgentHeader** (`identity.py` with the parser): a text is typed one character at a time and checked as a header that
arrives and as what an agent has in its fields. The grammar (`Readings`) is the reference definition. Each of its operators gives, for a kind of
part and a place in the text, the *set* of places where such a part may end: a word after any of its characters, a string at any
quote (for any choice of backslashes that escape something), parameters after any of them. Nothing in it decides which end is
meant; a text is in the grammar if some choice of ends leads from one member to the next up to the end of
the text. The parser takes one end each time, as it goes, and raises where that was not the right one. Numbers have a grammar
of their own (`NumberEnds`), so an error in the parser's is seen; `Decodes` alone is shared by the two, since `b64decode()`
is the library's and not the parser's. It
is the code's grammar, which is wider than RFC 8941's: blanks may come before an `=` or a `;`, keys may
have capitals, base64 skips what is not base64.

## 3. Runs

Runs that pass:

| run | instance | shows |
|---|---|---|
| `circuit` | 3 callers, window 3, streak 2, error rate 2/3, cooldowns 1, 2, 3 (the cap) | trips are neither missed (`NoMissedTrip`) nor mistimed (`RestBeforeProbe`, `NoOverstay`, `CooldownIsBackoff`, `StampedIffTripped`), the two memories of outcomes agree (`StreakMatchesWindow`), the circuit probes and recovers (`EventuallyProbes`, `Recovers`), and implements `BackoffCircuit` (`BacksOff`) |
| `rate` | 2 senders; tiers of rate 2 and ceiling 4, rate 4 and ceiling 3; a policy with rate 3, burst 2 and a window that makes the ceiling 1; `min_rate` 2; 2 clean responses for a step | `RateInRange`, `RecoveryEnvelope`, `Paced` (one lane of the bucket for each sender, one spare token), `Converges` |
| `async` | 2 coroutines or 2 navigations, limit 1 until a policy (rate 1, limit 2) comes, Retry-After up to 2 | `LimitKept`, `PermitsConserved`, `DeclaredStays`, `BacksOff`, `OnlyOutdatedLeak`, `OnlyCaughtIgnoreFloor`, `FloorHonouredInSeries`, `FloorOnlyLater`, `RequestsEnd`, `Recovers` |
| `threads` | the same with 2 threads, Retry-After 1 | `PermitsConserved`, `OnlyOutdatedLeak` |
| `discovery` | 2 requests, 2 policies, ttl 2, a discovery lasts at most 1 tick, all three kinds of client | `SupersededAgesOut` (two ttls and twice the lag), `RobotsObeyed` (one ttl) |
| `registry` | 3 hosts of which 2 are tracked, 2 requests, 2 days of 2 minutes, one document with a window | `ReadsAsDeclared`, `CachedReadsBack`, `AloneWithinDeclared`, `EvictsColdest`, `RemembersWhileTracked` |
| `agent_header` | 14 characters to type, 10 beginnings with more, 3 characters typed | `ReadsByGrammar`, `HeaderReadsBack` |

Each run checks one type invariant besides, except `threads`, whose type invariant is that of `async`, and
`agent_header`, where all there is to say of the type is that the text is one.

Why the bounds are enough to meet the interesting cases:

- `circuit`: the window is longer than the streak, so both ways to trip occur alone; the third caller lets one
  probe, one late success and one late failure be out at once; two doublings reach the cap.
- `rate`: halving meets the floor from 2 and 3 and lifts the rate over a ceiling of 1, a step meets the ceiling, the ceiling
  drops under the rate, one tier pulls the rate over its own ceiling, the first response comes after other
  requests have failed, a policy before and after it, and two senders sleep for the same token. Two lanes and one spare token are what two senders need; the numbers for
  any other count of senders are proved (section 5).
- `async`, `threads`: two requests make every race between a reader and a writer of the shared state; the streak
  is 2 so that one failure does not trip; Retry-After 1 and 2 make a shorter floor after a longer one; the policy
  makes the limit 2 so that requests overlap, and the semaphore is replaced while one of them holds it. Three
  requests do not fit TLC's time here; what two requests might not settle, `LimitKept`, `PermitsConserved`,
  `DeclaredStays`, `BacksOff`, `OnlyOutdatedLeak`, `OnlyCaughtIgnoreFloor`, `FloorHonouredInSeries` and `FloorOnlyLater`, is
  proved (section 5). Threads have Retry-After 1 only, for TLC's time; nothing is claimed about their floors (section 6).
- `discovery`: with a ttl of 2 a policy is fresh for one tick and stale after; two policies are an old and a new
  one; `SteadyBound` 5 is past both bounds the properties compare `steady` with. Both are proved for any ttl and lag.
- `registry`: three hosts and a table of two make evictions of held states; two days of two minutes have windows
  that open, close, wrap and coincide. `ReadsAsDeclared` and `CachedReadsBack` evaluate every sample document of
  `MCDomainRegistry` at every moment: all days, hours and multipliers 0, ½, 3/2 and 2, pairs of windows, all subsets of
  entries for the agent, missing and odd fields. All five properties are proved for any hosts, table and documents.
- `agent_header`: each typed character plays one part for the parser (a letter, a digit, each delimiter, a character
  that no key or token may hold, a line end; a superscript two, that `isdigit()` and not `int()` accepts). Three of them
  after `a=`, `a="`, `a=1`, `a=-` and `a=:a+` are every short item and what may follow it, an integer of one digit
  too many and base64 that is and is not full among them; after `é½;`, `a;a=`, `a=1,` and `a,a=` they do the same for
  parameters and a second member. Both properties are proved
  for texts of any length over any characters.

`SYMMETRY` is used in `discovery` and `registry`, which check safety only, over values the specification treats alike.
Counters are capped where the code does not tell larger values apart (`LongestCooldown`, `DoublingBound`,
`CleanBound`, `SteadyBound`, `MaxLag`; each is named in its module). Only `agent_header` has
`CHECK_DEADLOCK FALSE`, since a text ends; in the others time can always pass or somebody can go on.

The other five runs each violate one statement of the documents: section 6.

## 4. Fairness

`CircuitBreaker`: time passes, *some* caller keeps asking, a caller that was let through ends (every phase of an httpx
request has a timeout). `RateController`: time passes, a sleep ends, a response comes, senders keep sending.
`RequestPipeline`: time passes; *some* request begins again; and each request's next step is strongly fair, because
the event loop serves its ready coroutines in turn, the scheduler its threads, and semaphores are first come,
first served: a step that keeps becoming possible is taken. Weak fairness would not do: with one
permit `Acquire` of a waiting request is disabled whenever another holds it. No request is assumed to be cancelled, answered well or
repeated; `Recovers` and `Converges` state what they need (from some time on only good outcomes) in the property.
`PolicyDiscovery`, `DomainRegistry` and `AgentHeader` state no liveness.

## 5. Theorems

All proofs are TLAPS's; none assumes anything but the named `ASSUME`s of the constants, which say what the
configuration promises (rates and limits positive, thresholds not 0, and so on) and which TLC evaluates in each run.

**CircuitBreakerProofs.** The inductive invariant is `TypeOK /\ StampedIffTripped /\ AgeIsRested /\ NoMissedTrip`.
`AgeIsRested` is the strengthening: while not closed, the age of the breaker's own stamp is the time since the last trip,
as the history saw it. Without it nothing connects `_opened_at` with the trips, and a report that overwrote the
stamp would go unnoticed. From the invariant follow `TypeCorrect`, `StampFollowsState`, `NoTripIsMissed`, and then
`RestIsKept` (`RestBeforeProbe`: the open state is left only for half-open and after the whole cooldown) and
`RestIsNotProlonged` (`NoOverstay`), for any number of callers and any thresholds and cooldowns. `MethodProofs` has what each
method does to a breaker or a controller record, for all the proofs about modules that own one. `ImplementsBackoff` is
the refinement for any thresholds: a step of a caller is one of `BackoffCircuit`, by name a late one where the caller is
`outdated`, or changes nothing that can be seen (`MethodsBackOff` of `MethodProofs`). `CooldownBacksOff` (`CooldownIsBackoff`) adds `BInv`: a closed circuit has no failed probe
on its count, or a late failure would trip it with one. What the recursive function `Doublings` computes is proved by way of
least counterexamples (`DoublingExists`, `DoublingIsUnique`). `StreakIsTheRun`
(`StreakMatchesWindow`) has an invariant of its own, `RunKnown`: there is a run of failures at the end of the window
that is the streak, or fills the window. It names the run as a witness, which spares a proof that there is a *longest* one.

**RateControllerProofs.** `TypeOK /\ RateInRange` is inductive: `TypeCorrect`, `RateStaysInRange`. It is for all tiers, policies and
configurations, ceilings below `MinRate` included, and so says no more than what the code keeps there: with a policy the rate is at most
its ceiling or `MinRate`, whichever is more; without one also the rate of the tier that gave the ceiling; and never below all the rates
that are configured or declared.
`RecoveryIsSlow` (`RecoveryEnvelope`) adds `StepsKnown`: the clean responses since the last decrease are some number of
full streaks plus what the controller's streak has now, and each full one has given one step at most (`DecreaseBegins`,
`CleanCounts`). Where `apply_inference()` or `apply_policy()` gives the host a rate, the count begins again from that rate (`GivenRateBegins`):
neither of them looks at the timeouts there have been, and the envelope does not say they do.
`PacingIsKept` (`Paced`) has two hypotheses, `Cardinality(Senders) <= Lanes` and `Cardinality(Senders) <= Spare + 1`; with
three senders TLC finds `Paced` violated as soon as either fails by one. Its invariant `LInv` gives each sender a claim on the
allowance: the credit its sleep has earned so far, if it sleeps, or what is in the bucket up to a token, whichever is more,
since the next to ask may find that there. The claims of all senders together, and what is in the bucket beyond one token, never exceed the
allowance. A second raises each claim by one refill at most, which is a lane; a request that goes out takes a token off the
allowance and its claim with it. The sum over the senders is stated as partial sums in some order of them.

**RequestPipelineProofs.** The invariant (`InvariantHolds`) has the types that the breaker and the floor need and

- `LeaksAreOutdated`: while the circuit is open, whoever has been let through is `outdated`;
- `SleepersKnowFloor`: whoever sleeps and was not `caught` has at least the floor left to sleep;
- `NotesInRange`: a floor about to be written is one a server may ask for.

The properties speak of the moment a request goes out; the invariant says the same from the moment it is let
through, or falls asleep, which is what makes it inductive. Hence `OpenLeaksOnlyOutdated` (`OnlyOutdatedLeak`) and
`FloorIgnoredOnlyAsleep` (`OnlyCaughtIgnoreFloor`) for any number of requests, any limit and any policy: the first for requests of any
kind, the second for coroutines and navigations, whose floor is what the servers asked for (`FloorMovesLater`, below).
Together they say how much worse than the documents the code can be: section 6's first disagreement is confined to
the requests that were already waiting. `PipelineBacksOff` (`BacksOff`) is the refinement of `BackoffCircuit`'s `Safety` by the
breaker of a host; it needs besides that nobody is `outdated` before `check()` (`CheckersStayFresh`), so that who passes is `fresh`.

The second part of the module is about the semaphores and the policy that sets their limit. Its invariants, the others with
the first:

- `SInv`: the types; `Named`, which requests have a semaphore, by where they stand; `There`, one is installed where one will
  be picked; `Conserved`, permits and holders make the capacity. A new semaphore takes a name nobody uses
  (`UnusedIsFree`: fewer semaphores than requests are in use when one of them has none), so installing it cannot lose
  permits of the old. It gives `PermitsStayConserved`, threads included: their race (section 6) makes semaphores too many,
  but none that leaks.
- `CInv`: for coroutines, the installed semaphore has the capacity `limit`; who stands between the test and the return of
  `_get_semaphore` has the event loop; whoever waits or holds and is not in `before` uses the installed semaphore, and that one
  has the host's limit. It gives `LimitIsKept`: those let through since the limit changed share one semaphore of that limit.
- `DInv`: unless there are threads, nobody stands at `tier` with a policy applied, since `apply_inference` does not await. It
  gives `DeclaredCeilingStays`.
- `FInv`: unless there are threads, who is about to write the floor has the event loop and writes no earlier one. It gives
  `FloorMovesLater` (`FloorOnlyLater`).
- `EInv`: for coroutines and until a policy comes, no limit has changed (`before` is empty), and with a limit of 1 nobody was
  asleep when a floor was noted (`caught` is empty): `LimitKept` lets nobody else be in the semaphore then. It gives
  `FloorIsHonouredInSeries` (`FloorHonouredInSeries`).

`TypeCorrect` (`TypeOK` of `RequestPipeline`) puts the types together that `InvariantHolds` and `SInv` have, and adds the rest (`OTyped`).

**PolicyDiscoveryProofs.** What is out of date may be in the answer that a request has got, in memory and on disk. `RInv` and
`PInv` bound for each of these places how long the site can have been steady when it still is: what a request has is as
old as the request at most, memory and disk add their own age. `RInv` gives `RobotsAreObeyed` (`RobotsObeyed`), `PInv` gives
`PoliciesAgeOut` (`SupersededAgesOut`), for any ttl, lag and number of requests, and with restarts as the model has them.
The second assumes `MaxLag < Ttl`: a request that took longer than a ttl between `apply_policy` and its return would return
with a policy that has grown stale meanwhile, and the bound would not hold. `TypeCorrect` includes that no row on disk has
a policy derived from `robots.txt`.

**DomainRegistryProofs.** For any hosts, requests, table size, calendar and documents. The invariant `IInv` has `TypeOK` and

- `Once`, `Ordered`: the table has no host twice, and each host behind another one has been requested since that one was. So the
  host in front, the one that is evicted, has seen all the others come after it: `OnlyColdEvicted` (`EvictsColdest`);
- `Busy`, `Alive`: whoever is not idle holds a `DomainState`, and one exists exactly while it is tracked or held. An evicted one that
  is held therefore finds a name (`TypeCorrect`), as there are as many as requests;
- `Shared`: a request whose `DomainState` has not been evicted holds that of the table. So what a response notes there is what
  the next request looks at;
- `FloorsKept`, `SleepersKnow`: a Retry-After that is not lost with its host is in the table, and who fell asleep after it came
  sleeps it out. They give `RemembersTracked` (`RemembersWhileTracked`);
- `RuledByDocument`: a `DomainState` that has a policy has the rate of its host's document.

`StaysWithinDeclared` (`AloneWithinDeclared`) adds `Alone`: from its refresh to its wait, whoever is allowed a rate has the
`DomainState` for itself, whose rate is no faster; what requests to other hosts write to the `max_rate` they share does not lift
that rate. `DocumentsReadAsMeant` (`ReadsAsDeclared`) and `PoliciesReadBack` (`CachedReadsBack`) are about `SitePolicy`: every
document, every moment of any calendar. Both `StaysWithinDeclared` and `DocumentsReadAsMeant` are for documents that are
`WellSpelled`: no window has only days that do not exist, or a multiplier that is no number. The code reads the first as a window
of every day and the second as 1.0, and what such a document *means* no document of the repository says. All of TLC's
sample documents are well spelled.

**AgentHeaderProofs.** Texts, values and identities of any length. `QuotesHold` is the writer's part: what `_quote` puts between
the quotes has no quote, backslash, `;` or line end and is otherwise the value. `EveryTextIsParsed` is the parser's: the loops
of the parser are recursive functions of a position, and such a function is what its equation says only when each
value needs values at later positions alone (`Recursion`). That each loop goes on behind where it was is proved method by method
(`StringCases`, `NumberAdvances`, `ItemAdvances`, `AssignmentAdvances`, `ParametersCases`, `DictionaryCases`), and so each loop ends. `IdentityReadsBack`
joins the two: `StringIsRead` reads what `_quote` wrote up to the closing quote, `PartIsRead` reads `key="value"`, `LastIsRead` and
`NextIsRead` take the comma and the blank behind it, and `HeaderIsRead` goes from the last part of the header to the first, since a
key that comes again counts as its last. It assumes that the names of the extra fields are keys, which `to_header` does not test.
`WhatIsTypedReadsBack` (`HeaderReadsBack`) follows for the identities of the run.

**HeaderGrammarProofs.** The parser and the grammar agree on every text of any length over the characters of the instance,
whatever classes they are of: `ParserReadsTheGrammar` says that the set of
readings of a text is what `parse_sf_dictionary()` returns, alone, or is empty where it raises. It takes from outside the
parser what `b64decode()` accepts (`Decodes`) and how many digits `int()` does (`LongestInteger`). `WhatArrivesIsReadByGrammar`
(`ReadsByGrammar`) follows for what is typed. For each kind of part, from strings to dictionaries, a lemma `...Sound` says that what the parser has read is a
reading of the grammar, and a lemma `...Complete` that a reading of the grammar behind which something that can follow it
stands is the parser's. The second holds because what can follow a part is in no set of characters that a part goes on with
(`Follow` for items, `Separators` for members), so the longest end is the only one from which the rest of the text can be read. A number is in the grammar just when `int()` or `float()` of what
the parser has collected does not raise (`DecimalsAre`, `ConvertsIs`, `NumberIs`). The
harder cases are strings, where the grammar chooses the backslashes that escape (`EscapesStep`, `EscapesBefore`: at each position the
choice can only be the one that the parser makes there), and parameters and blanks, where the grammar may stop before a blank or
a `;` and the parser does not (`ParametersComplete`, `MemberComplete`). A malformed text has no reading by the same lemmas: if it had one, the parser
would have found it. Loops on both sides are taken from the end of the text to its beginning (`Downwards`).

**Model-checked only**: all liveness (`EventuallyProbes`, `Recovers`, `Converges`, `RequestsEnd`, the fair part of `BacksOff` in
`CircuitBreaker`), since fairness and `ENABLED` are beyond the prover. Every other property of a passing run, each invariant and each
action property, is a theorem. The induction theorems of the library cannot be instantiated by the back ends; the least counterexample
(`LeastMember`) takes their place, for `Doublings` and for the positions of a text (`Downwards`). No module uses `RECURSIVE`.

## 6. Where code and documents disagree

Each of these runs checks one statement of a document, a comment or a test, and TLC finds the behaviour that
breaks it. `PROJECT.json` (`findings`) quotes the lines.

| run | statement | behaviour found |
|---|---|---|
| `send_while_paused` | while open, an agent must not send (`SPEC.md` 5); `Retry-After` is a floor (`SPEC.md` 1.1) | a request that passed `check()` is asleep when another one's 503 trips the circuit and notes a Retry-After: it goes out although both forbid it |
| `single_probe` | exactly one caller is let through as a probe (`breaker.py`) | `check()` comes before the semaphore: a second request passes it while the probe is out, with a limit of 1 too |
| `thread_limit` | at most `max_concurrent` in flight (`SPEC.md`, `test_concurrency_stress.py`) | two threads that make the first requests to a host make a semaphore each |
| `late_report` | a circuit resumes only after an explicit successful probe (`SPEC.md` 1.1 and 5, `breaker.py`) | the answer to a request let through before the trip arrives in the half-open state and closes the circuit, although no probe has answered |
| `declared_ceiling` | the controller must not exceed the declared rate (`SPEC.md`) | a ceiling set for one host is the one a response of another host is measured with |

More limits of the code show in the form of properties that hold: `Paced` holds with one lane for each sender
(with one lane in all, the declared rate, TLC finds it exceeded, because senders that sleep for the same token
are all let go by it; *n* lanes and *n* − 1 spare tokens for *n* senders are proved, and three senders need them all);
`LimitKept` leaves out requests let through before the limit changed (they may hold an old semaphore beside a full new one).

These limits are in the models, as behaviour that no property forbids. The documents say otherwise of most, and whoever
changes the code there should know:

- *The first response raises the rate.* After timeouts have halved the rate of a new host, its first response, a 503 too, pulls it
  halfway to its tier's (`_domain.py:156`); `SPEC.md:70-72` asks for a halving. `RecoveryEnvelope` counts anew from there.
- *A decrease raises the rate.* Where a policy's ceiling is below `min_rate`, `_decrease_locked()` lifts the rate to `min_rate`,
  over the ceiling (`controller.py:106`), which `SPEC.md:131` forbids. `RateInRange` says so.
- *Two threads, two Retry-Afters.* `note_retry_after()` reads and writes without a lock (`_domain.py:121`): the shorter may be written last,
  and a request that was never asleep goes out before the longer one has passed, unlike the docstring at `_domain.py:115`.
  So `FloorOnlyLater` and `OnlyCaughtIgnoreFloor` are about coroutines and navigations only.
- *Two threads, a policy and an inference.* A policy applied between the two steps of `apply_inference()` is overruled by the tier;
  `DeclaredStays` leaves threads out.
- *The window is not cleared* when the circuit closes (`breaker.py:76`), and the first failure after a recovery may trip it by the
  error rate of before. `NoMissedTrip` only says that no trip that is due is missed.
- *The async client fetches the well-known file* although its disk row is fresh (`client.py:428`), unlike what the repository's
  `README.md:317` says of runs (`FetchesWellKnown`).
- *A failed fetch of `robots.txt` forgets its rules* until the next (`client.py:251`); `SPEC.md` section 6 has `Disallow` before
  anything else. `RobotsObeyed` counts from the last failed fetch.
- *A withdrawn policy stays applied* (`client.py:264`); `SPEC.md:137-139` has the agent fall back. `SupersededAgesOut` is about sites
  that still have one.

## 7. Not modelled

- *Failure classification and `Retry-After` parsing* (`_util.py`): the first only names the reason of an event; the second
  makes a number of a text or a date, which the pipeline has as a value from 0 up. An infinite one (`float("inf")`
  parses) is not in the models: the sleep would raise.
- *Events and metrics*: callbacks whose exceptions are swallowed; they change nothing.
- *CLI, MCP server, configuration files*: they call the clients, or are the constants.
- *Redirects*: a hop is one more request of `DomainRegistry`; `next_hop` only rewrites its method, URL and body, and the loop
  around it is bounded.
- *Real numbers*: rates, tokens, latencies and seconds are whole, halving rounds down; a rate of 0 is excluded. The latency baseline's value: a
  response is slow or not.
- *The wall clock*: it does not jump; rows of the cache that no longer parse are not there.
- *Policies in `PolicyDiscovery`* are values; what a rule says is `SitePolicy`'s and `DomainRegistry`'s matter. `disallow_paths` and
  the syntax of JSON and `robots.txt` are nowhere.
- *`user_agent_suffix`* only formats.

## 8. What could come next

In order of use: an abstract specification of a policy and its age that `PolicyDiscovery` implements; the latency baseline as a number and a rate of 0 in `Aimd`; rows of the cache that do not parse.

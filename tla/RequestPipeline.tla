-------------------------- MODULE RequestPipeline --------------------------
(***************************************************************************)
(* client.py's _request_once, run by several requests for one host at a    *)
(* time, from its check of the circuit to the report of the outcome.       *)
(*                                                                         *)
(* The clients run the same steps.  In ConsiderateClient the requests are  *)
(* threads and any step of one may fall between two of another.  In        *)
(* AsyncConsiderateClient they are coroutines: a request runs until it     *)
(* awaits the semaphore, its sleep or the server, and the event loop is    *)
(* its own until then (running).  The navigations of browser.py's          *)
(* AsyncConsiderateBrowserPage are coroutines, too; they have no semaphore *)
(* and may end without a response.                                         *)
(*                                                                         *)
(* What _ensure_policy finds at the start of a request is applied at any   *)
(* time (PolicyDiscovery says when), and the path is one that is allowed.  *)
(* A semaphore object gets a name that no request uses.                    *)
(***************************************************************************)
EXTENDS Domain

CONSTANTS
    Requests,       \* threads or tasks that send one request after the other
    Kinds,          \* the requests there may be: {"threads", "coroutines", "navigations"}
    PolicyRules,    \* the rules of explicit policies the host may have, one at a time
    Nobody          \* no request

ASSUME PipelineAssumption ==
    /\ Kinds \subseteq {"threads", "coroutines", "navigations"} /\ Kinds # {}
    /\ PolicyRules \subseteq [rate : Nat \ {0}, max_concurrent : Nat, burst : 0..LargestBurst]
    /\ IsFiniteSet(Requests) /\ Nobody \notin Requests

VARIABLES
    kind,           \* what the requests are
    domain,         \* the DomainState
    permits,        \* the value of each semaphore object
    capacity,       \* ... and the value it was made with, 0 when there is none
    installed,      \* self._semaphores[host]
    limit,          \* self._semaphore_limits[host], 0 when absent
    pc,             \* the step each request is at
    semaphore,      \* the semaphore each request entered or will enter
    left,           \* seconds left to sleep, or to the floor about to be noted
    outcome,        \* what a response means for the controller and the breaker
    running,        \* the coroutine that has the event loop
    outdated,       \* history: let through before the circuit last tripped
    caught,         \* history: asleep when the floor was last moved on
    before          \* history: past check() when the limit last changed

semaphores == <<permits, capacity, installed, limit>>
locals == <<semaphore, left, outcome>>
histories == <<outdated, caught, before>>
vars == <<kind, domain, semaphores, pc, locals, running, histories>>

Steps ==
    { "idle", "check", "gate", "install", "stamp", "pick", "acquire", "pace", "asleep",
      "sent", "infer", "tier", "noting", "feedback", "report" }

\* What follows check(): goto() goes straight to its pacing
AfterCheck == IF kind = "navigations" THEN "pace" ELSE "gate"

\* Between the entry of `with self._get_semaphore(state)` and its exit
Holding == {"pace", "asleep", "sent", "infer", "tier", "noting", "feedback", "report"}
Holders == {r \in Requests : pc[r] \in Holding}

Outcomes3 == {"fine", "slow", "bad"}

TypeOK ==
    /\ kind \in Kinds
    /\ domain \in DomainRecords /\ IsBreaker(domain.breaker)
    /\ permits \in [Requests -> Nat] /\ capacity \in [Requests -> Nat]
    /\ installed \in Requests \cup {Nobody}
    /\ limit \in Nat
    /\ pc \in [Requests -> Steps]
    /\ semaphore \in [Requests -> Requests \cup {Nobody}]
    /\ left \in [Requests -> Nat]
    /\ outcome \in [Requests -> Outcomes3]
    /\ running \in Requests \cup {Nobody}
    /\ outdated \subseteq Requests /\ caught \subseteq Requests /\ before \subseteq Requests

Init ==
    /\ kind \in Kinds
    /\ domain = InitDomain
    /\ permits = [r \in Requests |-> 0] /\ capacity = permits
    /\ installed = Nobody
    /\ limit = 0
    /\ pc = [r \in Requests |-> "idle"]
    /\ semaphore = [r \in Requests |-> Nobody]
    /\ left = [r \in Requests |-> 0]
    /\ outcome = [r \in Requests |-> "fine"]
    /\ running = Nobody
    /\ outdated = {} /\ caught = {} /\ before = {}

-----------------------------------------------------------------------------
(* Who may take the next step *)

MayRun(r) == kind = "threads" \/ running \in {r, Nobody}

\* r stands at an await, or has returned
Awaits(r) ==
    \/ pc'[r] \in {"idle", "sent"}
    \/ pc'[r] = "acquire" /\ permits'[semaphore'[r]] = 0
    \/ pc'[r] = "asleep" /\ left'[r] > 0

\* r takes its next step
At(r, step) == pc[r] = step /\ MayRun(r)

\* ... and goes on to another
Goes(r, to) ==
    /\ pc' = [pc EXCEPT ![r] = to]
    /\ running' = IF kind = "threads" \/ Awaits(r) THEN Nobody ELSE r
    /\ UNCHANGED kind

-----------------------------------------------------------------------------
(* Up to the semaphore *)

\* apply_policy(): _ensure_policy of some request has found a policy
ApplyPolicy(rule) ==
    /\ running = Nobody
    /\ domain' = PolicyApplied(domain, rule)
    /\ before' = IF domain'.max_concurrent = domain.max_concurrent THEN before
                 ELSE {r \in Requests : pc[r] \notin {"idle", "check"}}
    /\ UNCHANGED <<kind, semaphores, pc, locals, running, outdated, caught>>

\* refresh_effective_ceiling()
Begin(r) ==
    /\ At(r, "idle")
    /\ domain' = CeilingRefreshed(domain)
    /\ outdated' = outdated \ {r} /\ caught' = caught \ {r} /\ before' = before \ {r}
    /\ UNCHANGED <<semaphores, locals>>
    /\ Goes(r, "check")

\* Fault: a refusal is told to on_event, and the request goes on
CheckLetsThrough(r) ==
    /\ At(r, "check")
    /\ domain' = [domain EXCEPT !.breaker = MaybeHalfOpen(@)]
    /\ UNCHANGED <<semaphores, locals, histories>>
    /\ Goes(r, AfterCheck)

\* breaker.check(), and the CircuitOpenError of a refusal
Check(r) ==
    /\ At(r, "check")
    /\ domain' = [domain EXCEPT !.breaker = MaybeHalfOpen(@)]
    /\ UNCHANGED <<semaphores, locals, histories>>
    /\ Goes(r, IF Allows(domain.breaker) THEN AfterCheck ELSE "idle")

\* Fault: every request makes a semaphore
GateAlwaysInstalls(r) ==
    /\ At(r, "gate")
    /\ UNCHANGED <<domain, semaphores, locals, histories>>
    /\ Goes(r, "install")

\* _get_semaphore(): is there one with the limit of now?
Gate(r) ==
    /\ At(r, "gate")
    /\ UNCHANGED <<domain, semaphores, locals, histories>>
    /\ Goes(r, IF limit # domain.max_concurrent THEN "install" ELSE "pick")

\* The name of a new semaphore object
Unused == CHOOSE s \in Requests : \A r \in Requests : semaphore[r] # s

\* ... no: make one
Install(r) ==
    /\ At(r, "install")
    /\ permits' = [permits EXCEPT ![Unused] = domain.max_concurrent]
    /\ capacity' = [capacity EXCEPT ![Unused] = domain.max_concurrent]
    /\ installed' = Unused
    /\ UNCHANGED <<domain, limit, locals, histories>>
    /\ Goes(r, "stamp")

\* ... and keep its limit
Stamp(r) ==
    /\ At(r, "stamp")
    /\ limit' = domain.max_concurrent
    /\ UNCHANGED <<domain, permits, capacity, installed, locals, histories>>
    /\ Goes(r, "pick")

\* ... return the one that is there now
Pick(r) ==
    /\ At(r, "pick")
    /\ semaphore' = [semaphore EXCEPT ![r] = installed]
    /\ UNCHANGED <<domain, semaphores, left, outcome, histories>>
    /\ Goes(r, "acquire")

Acquire(r) ==
    /\ At(r, "acquire")
    /\ permits[semaphore[r]] > 0
    /\ permits' = [permits EXCEPT ![semaphore[r]] = @ - 1]
    /\ UNCHANGED <<domain, capacity, installed, limit, locals, histories>>
    /\ Goes(r, "pace")

-----------------------------------------------------------------------------
(* Inside the semaphore *)

\* Fault: the pacing looks at the token bucket and not at Retry-After
PaceByTokens(r) ==
    LET refilled == Refilled(domain.controller)
    IN  /\ At(r, "pace")
        /\ domain' = [domain EXCEPT !.controller = refilled]
        /\ left' = [left EXCEPT ![r] = WaitSeconds(refilled)]
        /\ UNCHANGED <<semaphores, semaphore, outcome, histories>>
        /\ Goes(r, "asleep")

\* wait = max(wait_time(), retry_wait_remaining()), and the sleep begins
Pace(r) ==
    LET refilled == Refilled(domain.controller)
    IN  /\ At(r, "pace")
        /\ domain' = [domain EXCEPT !.controller = refilled]
        /\ left' = [left EXCEPT ![r] = Larger(WaitSeconds(refilled), domain.floor)]
        /\ UNCHANGED <<semaphores, semaphore, outcome, histories>>
        /\ Goes(r, "asleep")

\* The sleep is over: consume(), and the request goes out
Send(r) ==
    /\ At(r, "asleep")
    /\ left[r] = 0
    /\ domain' = [domain EXCEPT !.controller = Consumed(@)]
    /\ UNCHANGED <<semaphores, locals, histories>>
    /\ Goes(r, "sent")

\* note_retry_after() of a 429 or 503 reads the floor that it is about to write
ReadFloor(r, retryAfter) ==
    /\ left' = [left EXCEPT ![r] = IF retryAfter > 0
                                   THEN FloorNoted(domain.floor, retryAfter) ELSE 0]
    /\ Goes(r, IF retryAfter > 0 THEN "noting" ELSE "feedback")

(* A response is there: "bad" is a 429, 503 or other 5xx, "slow" a latency    *)
(* over the baseline; a 429 or 503 may carry a Retry-After.  The first        *)
(* response is used to infer the host's tier.                                 *)
Receive(r, what, retryAfter) ==
    /\ At(r, "sent")
    /\ retryAfter > 0 => what = "bad"
    /\ outcome' = [outcome EXCEPT ![r] = what]
    /\ UNCHANGED <<domain, semaphores, semaphore, histories>>
    /\ IF domain.calibrated
       THEN ReadFloor(r, retryAfter)
       ELSE left' = [left EXCEPT ![r] = retryAfter] /\ Goes(r, "infer")

\* Fault: a policy does not keep apply_inference() from inferring
InferWithPolicy(r) ==
    /\ At(r, "infer")
    /\ domain' = [domain EXCEPT !.calibrated = TRUE]
    /\ UNCHANGED <<semaphores, semaphore, left, outcome, histories>>
    /\ Goes(r, "tier")

\* apply_inference() up to its test of hard_ceiling
Infer(r) ==
    /\ At(r, "infer")
    /\ domain' = [domain EXCEPT !.calibrated = TRUE]
    /\ UNCHANGED <<semaphores, semaphore, outcome, histories>>
    /\ IF domain.hard_ceiling THEN ReadFloor(r, left[r]) ELSE UNCHANGED left /\ Goes(r, "tier")

\* ... and what it does when there is no policy
TakeTier(r, tier) ==
    /\ At(r, "tier")
    /\ domain' = TierTaken(domain, tier)
    /\ UNCHANGED <<semaphores, semaphore, outcome, histories>>
    /\ ReadFloor(r, left[r])

\* note_retry_after() writes the floor
Note(r) ==
    /\ At(r, "noting")
    /\ domain' = [domain EXCEPT !.floor = left[r]]
    /\ caught' = IF left[r] > domain.floor
                 THEN {s \in Requests : pc[s] = "asleep"} ELSE caught
    /\ left' = [left EXCEPT ![r] = 0]
    /\ UNCHANGED <<semaphores, semaphore, outcome, outdated, before>>
    /\ Goes(r, "feedback")

\* A timeout or transport error: nothing to infer from, no Retry-After
TransportFailure(r) ==
    /\ At(r, "sent")
    /\ outcome' = [outcome EXCEPT ![r] = "bad"]
    /\ UNCHANGED <<domain, semaphores, semaphore, left, histories>>
    /\ Goes(r, "feedback")

\* controller.report_success(latency) or controller.report_failure()
Feedback(r) ==
    /\ At(r, "feedback")
    /\ domain' = [domain EXCEPT !.controller =
                    IF outcome[r] = "bad"
                    THEN ControllerFailure(@)
                    ELSE ControllerSuccess(@, EffectiveCeiling(domain), outcome[r] = "slow")]
    /\ UNCHANGED <<semaphores, locals, histories>>
    /\ Goes(r, "report")

\* The semaphore is left, and with it the request
Released(r) ==
    /\ permits' = IF pc[r] \in Holding /\ semaphore[r] # Nobody
                  THEN [permits EXCEPT ![semaphore[r]] = @ + 1] ELSE permits
    /\ semaphore' = [semaphore EXCEPT ![r] = Nobody]
    /\ left' = [left EXCEPT ![r] = 0]
    /\ UNCHANGED <<capacity, installed, limit>>

\* breaker.report_success() or breaker.report_failure(), and _request_once returns
Report(r) ==
    /\ At(r, "report")
    /\ domain' = [domain EXCEPT !.breaker =
                    IF outcome[r] = "bad" THEN BreakerFailure(@) ELSE BreakerSuccess(@)]
    /\ outcome' = [outcome EXCEPT ![r] = "fine"]
    /\ outdated' = IF domain.breaker.state # "open" /\ domain'.breaker.state = "open"
                   THEN {s \in Requests : pc[s] \notin {"idle", "check"}} ELSE outdated
    /\ UNCHANGED <<caught, before>>
    /\ Released(r)
    /\ Goes(r, "idle")

\* Fault: a request cancelled in the queue of the semaphore leaves it as if it had entered
CancelReleases(r) ==
    \E at \in {"acquire", "asleep", "sent"} :
        /\ At(r, at)
        /\ running = Nobody
        /\ permits' = [permits EXCEPT ![semaphore[r]] = @ + 1]
        /\ semaphore' = [semaphore EXCEPT ![r] = Nobody]
        /\ left' = [left EXCEPT ![r] = 0]
        /\ UNCHANGED <<domain, capacity, installed, limit, outcome, histories>>
        /\ Goes(r, "idle")

\* Fault: a request cancelled inside the semaphore does not leave it
CancelForgets(r) ==
    \E at \in {"acquire", "asleep", "sent"} :
        /\ At(r, at)
        /\ running = Nobody
        /\ semaphore' = [semaphore EXCEPT ![r] = Nobody]
        /\ left' = [left EXCEPT ![r] = 0]
        /\ UNCHANGED <<domain, semaphores, outcome, histories>>
        /\ Goes(r, "idle")

\* Cancelled where it awaits (a thread: interrupted where it blocks), or an exception
\* that is no transport error: no report
Cancel(r) ==
    \E at \in {"acquire", "asleep", "sent"} :
        /\ At(r, at)
        /\ running = Nobody
        /\ UNCHANGED <<domain, outcome, histories>>
        /\ Released(r)
        /\ Goes(r, "idle")

\* A navigation that ends without a response, in the same document say: nothing to report
NoResponse(r) ==
    /\ At(r, "sent")
    /\ kind = "navigations"
    /\ UNCHANGED <<domain, outcome, histories>>
    /\ Released(r)
    /\ Goes(r, "idle")

Tick ==
    /\ running = Nobody
    /\ domain' = DomainTick(domain)
    /\ left' = [r \in Requests |-> Larger(0, left[r] - 1)]
    /\ UNCHANGED <<kind, semaphores, pc, semaphore, outcome, running, histories>>

Respond(r) ==
    \/ TransportFailure(r) \/ NoResponse(r)
    \/ \E what \in Outcomes3, retryAfter \in 0..LongestRetryAfter : Receive(r, what, retryAfter)

Proceed(r) ==
    \/ Check(r) \/ Gate(r) \/ Install(r) \/ Stamp(r) \/ Pick(r) \/ Pace(r) \/ Send(r)
    \/ Infer(r) \/ (\E tier \in Tiers : TakeTier(r, tier))
    \/ Note(r) \/ Feedback(r) \/ Report(r)

Next ==
    \/ Tick
    \/ \E rule \in PolicyRules : ApplyPolicy(rule)
    \/ \E r \in Requests :
          \/ Begin(r) \/ Acquire(r) \/ Proceed(r) \/ Respond(r) \/ Cancel(r)

(* Time passes and the agent goes on requesting.  A request that can go on    *)
(* does: the event loop serves its ready coroutines in turn (a scheduler its  *)
(* threads), so a step that keeps becoming possible is taken; httpx ends each *)
(* request; and the queue of a semaphore is first come, first served.         *)
Fairness ==
    /\ SF_vars(Tick)
    /\ WF_vars(\E r \in Requests : Begin(r))
    /\ \A r \in Requests : SF_vars(Proceed(r) \/ Respond(r) \/ Acquire(r))

Spec == Init /\ [][Next]_vars /\ Fairness

-----------------------------------------------------------------------------
Sends(r) == pc[r] = "asleep" /\ pc'[r] = "sent"

(* No more than max_concurrent coroutines are between the entry and the exit *)
(* of the semaphore.  Those let through before the limit was changed may be  *)
(* in or bound for a semaphore of before, and are not counted.               *)
LimitKept ==
    kind = "coroutines" => Cardinality(Holders \ before) <= domain.max_concurrent

(* Permits are neither lost nor made up, whether requests end by a response, *)
(* an error or a cancellation in any place, and whether or not the semaphore *)
(* they hold was replaced: what a semaphore object has left and those that   *)
(* hold it make the value it was made with.                                  *)
PermitsConserved ==
    \A s \in Requests :
        permits[s] + Cardinality({r \in Holders : semaphore[r] = s}) = capacity[s]

(* What a policy declares stays the ceiling: no inference from a response,   *)
(* of a request sent before the policy came, replaces it.  (Threads can      *)
(* break this, between the two steps of apply_inference().)                  *)
DeclaredStays ==
    kind # "threads" /\ domain.hard_ceiling =>
        \E rule \in PolicyRules : domain.base_ceiling = rule.rate

(* An open circuit leaks only what was let through before it tripped: a     *)
(* request that goes out while the circuit is open waited for the semaphore *)
(* or slept when it tripped, and each such request goes out once.           *)
OnlyOutdatedLeak ==
    [][\A r \in Requests :
         Sends(r) /\ domain.breaker.state = "open" => r \in outdated]_vars

(* A coroutine or navigation that goes out before a Retry-After has passed  *)
(* was asleep when that floor was set: every later one waits for it.  (The  *)
(* floor is the latest time asked for, as FloorOnlyLater says.  Threads are *)
(* left out: theirs can be lowered between the two steps of                 *)
(* note_retry_after(), and is then no longer what the servers asked for.)   *)
OnlyCaughtIgnoreFloor ==
    [][\A r \in Requests :
         Sends(r) /\ kind # "threads" /\ domain.floor > 0 => r \in caught]_vars

(* Where requests go out one after the other, and no policy has changed that, *)
(* none goes out before.                                                    *)
FloorHonouredInSeries ==
    [][\A r \in Requests :
         /\ Sends(r) /\ kind = "coroutines"
         /\ domain.max_concurrent = 1 /\ ~domain.hard_ceiling
         => domain.floor = 0]_vars

(* The floor moves later or time passes: no response shortens the pause     *)
(* that another one asked for.                                              *)
FloorOnlyLater ==
    [][domain'.floor < domain.floor => domain'.floor = domain.floor - 1 /\ pc' = pc]_vars

(* Every request ends: with a response, an error, a refusal or cancelled,   *)
(* whether it has a semaphore to leave or not.                              *)
RequestsEnd == \A r \in Requests : pc[r] # "idle" ~> pc[r] = "idle"

(* A host that is well again is served again: when from some time on all    *)
(* outcomes are fine and nothing is cancelled, nor a navigation without a   *)
(* response, the circuit closes for good.                                   *)
Recovers ==
    <>[][\A r \in Requests : outcome'[r] # "bad" /\ ~Cancel(r) /\ ~NoResponse(r)]_vars
        => <>[](domain.breaker.state = "closed")

\* Let through by check() and not done yet
LetThrough == {r \in Requests : pc[r] \notin {"idle", "check"}}

(* What a caller sees of the host's breaker is a circuit that backs off,     *)
(* although requests of all kinds wait between its check and their report.  *)
(* A request let through before a trip may decide in place of a probe, as a *)
(* step of its own of that circuit.                                         *)
Backoff == INSTANCE BackoffCircuit WITH
    Callers <- Requests,
    state <- domain.breaker.state,
    cooldown <- domain.breaker.cooldown,
    rested <- IF domain.breaker.state = "closed" THEN 0 ELSE domain.breaker.opened_ago,
    fresh <- LetThrough \ outdated,
    late <- LetThrough \cap outdated

BacksOff == Backoff!Safety

-----------------------------------------------------------------------------
(* What the documentation says, and the code does not keep *)

(* config.max_concurrent_per_domain: no more than max_concurrent requests   *)
(* are between the entry and the exit of the semaphore.                     *)
WithinLimit == kind # "navigations" => Cardinality(Holders) <= domain.max_concurrent

(* SPEC.md section 5: while open, an agent must not send.  Section 1.1: a     *)
(* Retry-After is a floor, nothing goes out before.  The weakest thing both *)
(* say: no request goes out while the circuit is open and a Retry-After has *)
(* not passed, when two reasons forbid it.                                  *)
NeverSendsWhilePaused ==
    [][\A r \in Requests :
         Sends(r) => domain.breaker.state # "open" \/ domain.floor = 0]_vars

(* check(): in the half-open state exactly one caller is let through as a    *)
(* probe, which is to say that nobody is let through while a probe is out.   *)
SingleProbe ==
    domain.breaker.state = "half_open" =>
        Cardinality(LetThrough \ outdated) <= 1

=============================================================================

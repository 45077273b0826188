----------------------- MODULE RequestPipelineProofs -----------------------
(***************************************************************************)
(* Theorems about RequestPipeline, for any number of requests, threads,    *)
(* coroutines or navigations, and every configuration of the client.       *)
(*                                                                         *)
(* The inductive invariant is IInv.  Its types are as much of TypeOK as    *)
(* the breaker and the floor need; besides, it says of each request what   *)
(* the two properties say of the moment it goes out, from the moment on    *)
(* that it has been let through (LeaksAreOutdated) or has begun to sleep   *)
(* (SleepersKnowFloor).                                                    *)
(*                                                                         *)
(* The second part is about the semaphores and the policy that sets their  *)
(* limit.  The inductive invariant for the permits is SInv.  It says which *)
(* semaphore a request has where it stands (Named) and that one has been   *)
(* installed where one will be picked (There).  The limit of coroutines    *)
(* needs CInv besides: what stands between the test of _get_semaphore and  *)
(* its return cannot be interrupted, so whoever is let through after the   *)
(* last change of the limit uses the installed semaphore.  DInv and FInv   *)
(* use the same for the declared ceiling and for the floor, and EInv says  *)
(* that requests in series never sleep through a new floor.  OTyped is     *)
(* what remains of the types.                                              *)
(***************************************************************************)
EXTENDS RequestPipeline, MethodProofs, FiniteSetTheorems

-----------------------------------------------------------------------------
(* The DomainState *)

\* A DomainState whose controller can compute a wait.
Runs(d) ==
    /\ d \in DomainRecords /\ IsBreaker(d.breaker)
    /\ d.controller.rate # 0
    /\ d.base_ceiling # 0

\* The assumptions on the constants of a DomainState, one by one.
LEMMA DomainConstants ==
    /\ \A tier \in Tiers : TierRates[tier] \in Nat \ {0} /\ TierCeilings[tier] \in Nat \ {0}
    /\ DefaultTier \in Tiers /\ InitialBurst \in Nat /\ MaxConcurrent \in Nat \ {0}
    /\ LongestRetryAfter \in Nat
    /\ \A rule \in PolicyRules :
          rule.rate \in Nat \ {0} /\ rule.max_concurrent \in Nat /\ rule.burst \in Nat
BY DomainConfigAssumption, PipelineAssumption

\* __init__ makes one.
LEMMA InitDomainRuns == Runs(InitDomain) /\ InitDomain.breaker = InitBreaker
<1> DEFINE k == CeilingSet(InitController(TierRates[DefaultTier], InitialBurst),
                           TierCeilings[DefaultTier])
<1>1. k \in ControllerRecords /\ k.rate # 0
  BY DomainConstants, InitControllerRuns, FeedbackKeepsRunning
<1>2. IsBreaker(InitBreaker)
  BY InitBreakerIsOne
<1> HIDE DEF k
<1>3. InitDomain = [ calibrated |-> FALSE, hard_ceiling |-> FALSE,
                     base_ceiling |-> TierCeilings[DefaultTier], max_concurrent |-> MaxConcurrent,
                     floor |-> 0, breaker |-> InitBreaker, controller |-> k ]
  BY DEF InitDomain, k
<1> QED
  BY <1>1, <1>2, <1>3, DomainConstants DEF Runs, DomainRecords, IsBreaker

\* A controller that runs may take the place of another.
LEMMA ControllerReplaced ==
    ASSUME NEW d, Runs(d), NEW k \in ControllerRecords, k.rate # 0
    PROVE  /\ Runs([d EXCEPT !.controller = k])
           /\ [d EXCEPT !.controller = k].breaker = d.breaker
           /\ [d EXCEPT !.controller = k].floor = d.floor
           /\ [d EXCEPT !.controller = k].max_concurrent = d.max_concurrent
BY DEF Runs, DomainRecords

\* ... and so may a breaker.
LEMMA BreakerReplaced ==
    ASSUME NEW d, Runs(d), NEW b, IsBreaker(b)
    PROVE  /\ Runs([d EXCEPT !.breaker = b])
           /\ [d EXCEPT !.breaker = b].breaker = b
           /\ [d EXCEPT !.breaker = b].floor = d.floor
           /\ [d EXCEPT !.breaker = b].max_concurrent = d.max_concurrent
BY DEF Runs, DomainRecords, IsBreaker

\* Refreshing the ceiling leaves breaker, floor and limit alone.
LEMMA CeilingIsRefreshed ==
    ASSUME NEW d, Runs(d)
    PROVE  /\ Runs(CeilingRefreshed(d))
           /\ CeilingRefreshed(d).breaker = d.breaker /\ CeilingRefreshed(d).floor = d.floor
           /\ CeilingRefreshed(d).max_concurrent = d.max_concurrent
<1>1. d.controller \in ControllerRecords /\ d.base_ceiling \in Nat \ {0}
  BY DEF Runs, DomainRecords
<1>2. CeilingSet(d.controller, d.base_ceiling) \in ControllerRecords
      /\ CeilingSet(d.controller, d.base_ceiling).rate # 0
  BY <1>1, FeedbackKeepsRunning DEF Runs
<1> QED
  BY <1>2, ControllerReplaced DEF CeilingRefreshed, EffectiveCeiling

\* ... and so does taking over the tier that a response suggests.
LEMMA TierIsTaken ==
    ASSUME NEW d, Runs(d), NEW tier \in Tiers
    PROVE  /\ Runs(TierTaken(d, tier))
           /\ TierTaken(d, tier).breaker = d.breaker /\ TierTaken(d, tier).floor = d.floor
           /\ TierTaken(d, tier).max_concurrent = d.max_concurrent
<1> DEFINE known == [d EXCEPT !.base_ceiling = TierCeilings[tier]]
           capped == CeilingRefreshed(known)
           rate == (capped.controller.rate + TierRates[tier]) \div 2
<1>1. /\ Runs(known) /\ known.breaker = d.breaker /\ known.floor = d.floor
      /\ known.max_concurrent = d.max_concurrent
  BY DomainConstants DEF Runs, DomainRecords
<1> HIDE DEF known
<1>2. /\ Runs(capped) /\ capped.breaker = d.breaker /\ capped.floor = d.floor
      /\ capped.max_concurrent = d.max_concurrent
  BY <1>1, CeilingIsRefreshed
<1> HIDE DEF capped
<1>3. rate \in Nat \ {0}
  <2>1. capped.controller.rate \in Nat \ {0} /\ TierRates[tier] \in Nat \ {0}
    BY <1>2, DomainConstants DEF Runs, DomainRecords, ControllerRecords
  <2> QED
    BY <2>1
<1> HIDE DEF rate
<1>4. TierTaken(d, tier) = [capped EXCEPT !.controller = [capped.controller EXCEPT !.rate = rate]]
  BY DEF TierTaken, known, capped, rate
<1>5. /\ [capped.controller EXCEPT !.rate = rate] \in ControllerRecords
      /\ [capped.controller EXCEPT !.rate = rate].rate # 0
  BY <1>2, <1>3 DEF Runs, DomainRecords, ControllerRecords
<1> QED
  BY <1>2, <1>4, <1>5, ControllerReplaced

\* A policy that is applied decides rate, burst and limit, and leaves breaker and floor.
LEMMA PolicyIsApplied ==
    ASSUME NEW d, Runs(d), NEW rule \in PolicyRules
    PROVE  /\ Runs(PolicyApplied(d, rule))
           /\ PolicyApplied(d, rule).breaker = d.breaker
           /\ PolicyApplied(d, rule).floor = d.floor
<1> DEFINE rate == IF d.calibrated THEN Smaller(d.controller.rate, rule.rate) ELSE rule.rate
           burst == IF rule.burst = 0 THEN d.controller.capacity ELSE rule.burst
           number == IF rule.max_concurrent = 0 THEN d.max_concurrent ELSE rule.max_concurrent
           k == [d.controller EXCEPT !.rate = rate, !.capacity = burst]
           ruled == [d EXCEPT !.hard_ceiling = TRUE, !.base_ceiling = rule.rate,
                              !.controller = k, !.max_concurrent = number]
<1>1. rate \in Nat \ {0} /\ burst \in Nat \ {0} /\ number \in Nat \ {0}
  BY DomainConstants DEF Runs, DomainRecords, ControllerRecords, Smaller
<1>2. PolicyApplied(d, rule) = CeilingRefreshed(ruled)
  BY DEF PolicyApplied
<1> HIDE DEF rate, burst, number
<1>3. k \in ControllerRecords /\ k.rate # 0
  BY <1>1 DEF Runs, DomainRecords, ControllerRecords
<1> HIDE DEF k
<1>4. Runs(ruled) /\ ruled.breaker = d.breaker /\ ruled.floor = d.floor
  BY <1>1, <1>3, DomainConstants DEF Runs, DomainRecords
<1> HIDE DEF ruled
<1> QED
  BY <1>2, <1>4, CeilingIsRefreshed

\* A floor that a Retry-After asks for takes the place of the old one.
LEMMA FloorReplacedBy ==
    ASSUME NEW d, Runs(d), NEW n \in 0..LongestRetryAfter
    PROVE  /\ Runs([d EXCEPT !.floor = n])
           /\ [d EXCEPT !.floor = n].breaker = d.breaker
           /\ [d EXCEPT !.floor = n].floor = n
           /\ [d EXCEPT !.floor = n].max_concurrent = d.max_concurrent
BY DEF Runs, DomainRecords

\* A second brings every floor one nearer, and opens no circuit.
LEMMA DomainTicks ==
    ASSUME NEW d, Runs(d)
    PROVE  /\ Runs(DomainTick(d))
           /\ DomainTick(d).breaker = BreakerTick(d.breaker)
           /\ DomainTick(d).breaker.state = d.breaker.state
           /\ DomainTick(d).max_concurrent = d.max_concurrent
           /\ DomainTick(d).floor = Larger(0, d.floor - 1)
<1> DEFINE b == BreakerTick(d.breaker)
           k == ControllerTick(d.controller)
           n == Larger(0, d.floor - 1)
<1>1. IsBreaker(b) /\ b.state = d.breaker.state
  BY MethodsKeepBreaker, MethodsAndOpenState DEF Runs
<1>2. k \in ControllerRecords /\ k.rate # 0
  <2>1. d.controller \in ControllerRecords /\ d.controller.rate # 0
    BY DEF Runs, DomainRecords
  <2> QED
    BY <2>1, BucketKeepsRate
<1>3. n \in 0..LongestRetryAfter
  BY DomainConstants DEF Runs, DomainRecords, Larger
<1>4. DomainTick(d) = [d EXCEPT !.breaker = b, !.controller = k, !.floor = n]
  BY DEF DomainTick
<1> HIDE DEF b, k, n
<1>5. /\ Runs([d EXCEPT !.breaker = b, !.controller = k, !.floor = n])
      /\ [d EXCEPT !.breaker = b, !.controller = k, !.floor = n].breaker = b
      /\ [d EXCEPT !.breaker = b, !.controller = k, !.floor = n].floor = n
      /\ [d EXCEPT !.breaker = b, !.controller = k, !.floor = n].max_concurrent = d.max_concurrent
  BY <1>1, <1>2, <1>3 DEF Runs, DomainRecords, IsBreaker
<1> QED
  BY <1>1, <1>4, <1>5 DEF n, b

-----------------------------------------------------------------------------
(* The inductive invariant *)

Typed ==
    /\ Runs(domain)
    /\ pc \in [Requests -> Steps]
    /\ left \in [Requests -> Nat]
    /\ outdated \subseteq Requests /\ caught \subseteq Requests

\* The floor a request is about to write is one a server may ask for
NotesInRange ==
    \A r \in Requests : pc[r] \in {"infer", "tier", "noting"} => left[r] <= LongestRetryAfter

\* While the circuit is open, whoever was let through was so before it tripped
LeaksAreOutdated ==
    domain.breaker.state = "open" =>
        \A r \in Requests : pc[r] \notin {"idle", "check"} => r \in outdated

\* A request sleeps as long as the floor asks, unless the floor was moved since
SleepersKnowFloor ==
    \A r \in Requests : pc[r] = "asleep" => r \in caught \/ left[r] >= domain.floor

IInv == Typed /\ NotesInRange /\ LeaksAreOutdated /\ SleepersKnowFloor

\* Nobody has been let through to a new host.
LEMMA InitKeeps == Init => IInv
<1> SUFFICES ASSUME Init
             PROVE  IInv
  OBVIOUS
<1>1. Runs(domain) /\ domain.breaker.state = "closed"
  BY InitDomainRuns, InitBreakerIsOne DEF Init
<1>2. Typed
  BY <1>1 DEF Init, Typed, Steps
<1>3. NotesInRange /\ LeaksAreOutdated /\ SleepersKnowFloor
  BY <1>1 DEF Init, NotesInRange, LeaksAreOutdated, SleepersKnowFloor
<1> QED
  BY <1>2, <1>3 DEF IInv

\* Steps that nothing is said about
Quiet == Steps \ {"idle", "asleep", "infer", "tier", "noting"}

\* A step of one request that opens no circuit, moves no floor and adds no sleeper.
LEMMA QuietStep ==
    ASSUME IInv, NEW r \in Requests, NEW to \in Quiet,
           pc[r] \notin {"idle", "check"},
           pc' = [pc EXCEPT ![r] = to],
           Runs(domain'), domain'.breaker = domain.breaker, domain'.floor = domain.floor,
           left' \in [Requests -> Nat], \A s \in Requests \ {r} : left'[s] = left[s],
           UNCHANGED <<outdated, caught>>
    PROVE  IInv'
<1>1. Typed'
  BY DEF IInv, Typed, Quiet
<1>2. \A s \in Requests : pc'[s] = IF s = r THEN to ELSE pc[s]
  BY DEF IInv, Typed
<1>3. NotesInRange' /\ LeaksAreOutdated' /\ SleepersKnowFloor'
  BY <1>2 DEF IInv, Quiet, NotesInRange, LeaksAreOutdated, SleepersKnowFloor
<1> QED
  BY <1>1, <1>3 DEF IInv

\* A step that ends a request, and opens no circuit that it does not mark.
LEMMA EndingStep ==
    ASSUME IInv, NEW r \in Requests, pc' = [pc EXCEPT ![r] = "idle"],
           Runs(domain'), domain'.floor = domain.floor,
           left' \in [Requests -> Nat], \A s \in Requests \ {r} : left'[s] = left[s],
           outdated' \subseteq Requests, UNCHANGED caught,
           domain'.breaker.state = "open" =>
               IF domain.breaker.state = "open" THEN outdated' = outdated
               ELSE \A s \in Requests : pc[s] \notin {"idle", "check"} => s \in outdated'
    PROVE  IInv'
<1>1. Typed'
  BY DEF IInv, Typed, Steps
<1>2. \A s \in Requests : pc'[s] = IF s = r THEN "idle" ELSE pc[s]
  BY DEF IInv, Typed
<1>3. NotesInRange' /\ SleepersKnowFloor'
  BY <1>2 DEF IInv, NotesInRange, SleepersKnowFloor
<1>4. LeaksAreOutdated'
  BY <1>2 DEF IInv, LeaksAreOutdated
<1> QED
  BY <1>1, <1>3, <1>4 DEF IInv

-----------------------------------------------------------------------------
(* The steps *)

\* The controller of the host takes part in what the bucket and the feedback do.
LEMMA ControllerOfHost ==
    ASSUME IInv
    PROVE  domain.controller \in ControllerRecords /\ domain.controller.rate # 0
           /\ domain.floor \in 0..LongestRetryAfter /\ domain.base_ceiling \in Nat \ {0}
           /\ IsBreaker(domain.breaker)
BY DEF IInv, Typed, Runs, DomainRecords

\* A policy leaves breaker, floor and sleepers as they are.
LEMMA ApplyPolicyKeeps ==
    ASSUME IInv, NEW rule \in PolicyRules, ApplyPolicy(rule) PROVE IInv'
<1>1. Runs(domain') /\ domain'.breaker = domain.breaker /\ domain'.floor = domain.floor
  BY PolicyIsApplied DEF ApplyPolicy, IInv, Typed
<1>2. UNCHANGED <<pc, left, outdated, caught>>
  BY DEF ApplyPolicy, locals
<1> QED
  BY <1>1, <1>2 DEF IInv, Typed, NotesInRange, LeaksAreOutdated, SleepersKnowFloor

\* Beginning a request takes it out of the marked ones, before it is let through.
LEMMA BeginKeeps == ASSUME IInv, NEW r \in Requests, Begin(r) PROVE IInv'
<1>1. Runs(domain') /\ domain'.breaker = domain.breaker /\ domain'.floor = domain.floor
  BY CeilingIsRefreshed DEF Begin, IInv, Typed
<1>2. pc' = [pc EXCEPT ![r] = "check"] /\ left' = left /\ caught' = caught \ {r}
      /\ outdated' = outdated \ {r}
  BY DEF Begin, Goes, locals
<1>3. \A s \in Requests : pc'[s] = IF s = r THEN "check" ELSE pc[s]
  BY <1>2 DEF IInv, Typed
<1>4. Typed'
  BY <1>1, <1>2 DEF IInv, Typed, Steps
<1>5. NotesInRange' /\ LeaksAreOutdated' /\ SleepersKnowFloor'
  BY <1>1, <1>2, <1>3 DEF IInv, Typed, NotesInRange, LeaksAreOutdated, SleepersKnowFloor
<1> QED
  BY <1>4, <1>5 DEF IInv

\* check() lets nobody through while the circuit stays open.
LEMMA CheckKeeps == ASSUME IInv, NEW r \in Requests, Check(r) PROVE IInv'
<1> DEFINE b == MaybeHalfOpen(domain.breaker)
<1>1. IsBreaker(b) /\ (b.state = "open" => domain.breaker.state = "open")
      /\ (Allows(domain.breaker) => b.state # "open")
  BY MethodsKeepBreaker, MethodsAndOpenState, ControllerOfHost
<1>2. domain' = [domain EXCEPT !.breaker = b]
  BY DEF Check
<1> HIDE DEF b
<1>3. Runs(domain') /\ domain'.breaker = b /\ domain'.floor = domain.floor
  BY <1>1, <1>2, BreakerReplaced DEF IInv, Typed
<1> DEFINE to == IF Allows(domain.breaker) THEN AfterCheck ELSE "idle"
<1>4. pc' = [pc EXCEPT ![r] = to] /\ left' = left /\ caught' = caught /\ outdated' = outdated
  BY DEF Check, Goes, locals, histories
<1>5. to \in {"idle", "gate", "pace"} /\ (to # "idle" => Allows(domain.breaker))
  BY DEF AfterCheck
<1> HIDE DEF to
<1>6. \A s \in Requests : pc'[s] = IF s = r THEN to ELSE pc[s]
  BY <1>4 DEF IInv, Typed
<1>7. Typed'
  BY <1>3, <1>4, <1>5 DEF IInv, Typed, Steps
<1>8. NotesInRange' /\ LeaksAreOutdated' /\ SleepersKnowFloor'
  BY <1>1, <1>3, <1>4, <1>5, <1>6
     DEF IInv, NotesInRange, LeaksAreOutdated, SleepersKnowFloor
<1> QED
  BY <1>7, <1>8 DEF IInv

\* The semaphore decides nothing about breaker and floor.
LEMMA SemaphoreKeeps ==
    ASSUME IInv, NEW r \in Requests, Gate(r) \/ Install(r) \/ Stamp(r) \/ Pick(r) \/ Acquire(r)
    PROVE  IInv'
<1>1. PICK to \in {"install", "stamp", "pick", "acquire", "pace"} :
          pc' = [pc EXCEPT ![r] = to]
  BY DEF Gate, Install, Stamp, Pick, Acquire, Goes
<1>2. pc[r] \notin {"idle", "check"}
  BY DEF Gate, Install, Stamp, Pick, Acquire, At
<1>3. domain' = domain /\ left' = left /\ UNCHANGED <<outdated, caught>>
  BY DEF Gate, Install, Stamp, Pick, Acquire, locals, histories
<1>4. Runs(domain) /\ left \in [Requests -> Nat]
  BY DEF IInv, Typed
<1>5. to \in Quiet
  BY DEF Steps, Quiet
<1> QED
  BY <1>1, <1>2, <1>3, <1>4, <1>5, QuietStep

\* The sleep begins no shorter than the floor of the moment.
LEMMA PaceKeeps == ASSUME IInv, NEW r \in Requests, Pace(r) PROVE IInv'
<1> DEFINE k == Refilled(domain.controller)
           wait == Larger(WaitSeconds(k), domain.floor)
<1>1. k \in ControllerRecords /\ k.rate # 0 /\ WaitSeconds(k) \in Nat
  BY ControllerOfHost, BucketKeepsRate
<1>2. wait \in Nat /\ wait >= domain.floor
  BY <1>1, ControllerOfHost DEF Larger
<1>3. /\ domain' = [domain EXCEPT !.controller = k]
      /\ left' = [left EXCEPT ![r] = wait]
      /\ pc[r] = "pace" /\ pc' = [pc EXCEPT ![r] = "asleep"]
      /\ UNCHANGED <<outdated, caught>>
  BY DEF Pace, At, Goes, histories
<1> HIDE DEF k, wait
<1>4. Runs(domain') /\ domain'.breaker = domain.breaker /\ domain'.floor = domain.floor
  BY <1>1, <1>3, ControllerReplaced DEF IInv, Typed
<1>5. \A s \in Requests : /\ pc'[s] = IF s = r THEN "asleep" ELSE pc[s]
                          /\ left'[s] = IF s = r THEN wait ELSE left[s]
  BY <1>3 DEF IInv, Typed
<1>6. Typed'
  BY <1>2, <1>3, <1>4 DEF IInv, Typed, Steps
<1>7. NotesInRange' /\ LeaksAreOutdated' /\ SleepersKnowFloor'
  BY <1>2, <1>3, <1>4, <1>5 DEF IInv, NotesInRange, LeaksAreOutdated, SleepersKnowFloor
<1> QED
  BY <1>6, <1>7 DEF IInv

\* Sending takes a token.
LEMMA SendKeeps == ASSUME IInv, NEW r \in Requests, Send(r) PROVE IInv'
<1>1. Consumed(domain.controller) \in ControllerRecords /\ Consumed(domain.controller).rate # 0
  BY ControllerOfHost, BucketKeepsRate
<1>2. domain' = [domain EXCEPT !.controller = Consumed(domain.controller)]
      /\ pc[r] = "asleep" /\ pc' = [pc EXCEPT ![r] = "sent"]
      /\ left' = left /\ UNCHANGED <<outdated, caught>>
  BY DEF Send, At, Goes, locals, histories
<1>3. Runs(domain') /\ domain'.breaker = domain.breaker /\ domain'.floor = domain.floor
  BY <1>1, <1>2, ControllerReplaced DEF IInv, Typed
<1>4. left \in [Requests -> Nat] /\ "sent" \in Quiet
  BY DEF IInv, Typed, Steps, Quiet
<1> QED
  BY <1>2, <1>3, <1>4, QuietStep

\* A step of a request whose response is there, and asks for a floor or for none.
LEMMA ResponseStep ==
    ASSUME IInv, NEW r \in Requests, pc[r] \in {"sent", "infer", "tier"},
           NEW to \in {"infer", "tier", "noting", "feedback"}, NEW n \in 0..LongestRetryAfter,
           pc' = [pc EXCEPT ![r] = to], left' = [left EXCEPT ![r] = n],
           Runs(domain'), domain'.breaker = domain.breaker, domain'.floor = domain.floor,
           UNCHANGED <<outdated, caught>>
    PROVE  IInv'
<1>1. \A s \in Requests : /\ pc'[s] = IF s = r THEN to ELSE pc[s]
                          /\ left'[s] = IF s = r THEN n ELSE left[s]
  BY DEF IInv, Typed
<1>2. Typed'
  <2>1. n \in Nat /\ to \in Steps
    BY DomainConstants DEF Steps
  <2> QED
    BY <2>1 DEF IInv, Typed
<1>3. NotesInRange' /\ LeaksAreOutdated' /\ SleepersKnowFloor'
  BY <1>1 DEF IInv, NotesInRange, LeaksAreOutdated, SleepersKnowFloor
<1> QED
  BY <1>2, <1>3 DEF IInv

\* The floor that a Retry-After asks for is in range.
LEMMA FloorIsRead ==
    ASSUME IInv, NEW r \in Requests, NEW n \in 0..LongestRetryAfter, ReadFloor(r, n)
    PROVE  \E to \in {"noting", "feedback"}, m \in 0..LongestRetryAfter :
              pc' = [pc EXCEPT ![r] = to] /\ left' = [left EXCEPT ![r] = m]
<1> DEFINE to == IF n > 0 THEN "noting" ELSE "feedback"
           m == IF n > 0 THEN FloorNoted(domain.floor, n) ELSE 0
<1>1. m \in 0..LongestRetryAfter
  BY ControllerOfHost, DomainConstants DEF FloorNoted, Larger
<1>2. pc' = [pc EXCEPT ![r] = to] /\ left' = [left EXCEPT ![r] = m] /\ to \in {"noting", "feedback"}
  BY DEF ReadFloor, Goes
<1> HIDE DEF to, m
<1> QED
  BY <1>1, <1>2

\* A response may ask for a floor, which is not written yet.
LEMMA ReceiveKeeps ==
    ASSUME IInv, NEW r \in Requests, NEW what, NEW retryAfter \in 0..LongestRetryAfter,
           Receive(r, what, retryAfter)
    PROVE  IInv'
<1>1. Runs(domain) /\ domain' = domain /\ pc[r] = "sent" /\ UNCHANGED <<outdated, caught>>
  BY DEF Receive, At, IInv, Typed, histories
<1>2. CASE domain.calibrated
  <2>1. ReadFloor(r, retryAfter)
    BY <1>2 DEF Receive
  <2> QED
    BY <1>1, <2>1, FloorIsRead, ResponseStep
<1>3. CASE ~domain.calibrated
  <2>1. left' = [left EXCEPT ![r] = retryAfter] /\ pc' = [pc EXCEPT ![r] = "infer"]
    BY <1>3 DEF Receive, Goes
  <2> QED
    BY <1>1, <2>1, ResponseStep
<1> QED
  BY <1>2, <1>3

\* Inferring a tier changes neither breaker nor floor.
LEMMA InferKeeps == ASSUME IInv, NEW r \in Requests, Infer(r) PROVE IInv'
<1>1. /\ pc[r] = "infer" /\ UNCHANGED <<outdated, caught>>
      /\ domain' = [domain EXCEPT !.calibrated = TRUE]
  BY DEF Infer, At, histories
<1>2. Runs(domain') /\ domain'.breaker = domain.breaker /\ domain'.floor = domain.floor
  BY <1>1 DEF IInv, Typed, Runs, DomainRecords
<1>3. left[r] \in 0..LongestRetryAfter
  BY <1>1, DomainConstants DEF IInv, Typed, NotesInRange
<1>4. CASE domain.hard_ceiling
  <2>1. ReadFloor(r, left[r])
    BY <1>4 DEF Infer
  <2> QED
    BY <1>1, <1>2, <1>3, <2>1, FloorIsRead, ResponseStep
<1>5. CASE ~domain.hard_ceiling
  <2>1. left' = left /\ pc' = [pc EXCEPT ![r] = "tier"]
    BY <1>5 DEF Infer, Goes
  <2>2. left' = [left EXCEPT ![r] = left[r]]
    BY <2>1 DEF IInv, Typed
  <2> QED
    BY <1>1, <1>2, <1>3, <2>1, <2>2, ResponseStep
<1> QED
  BY <1>4, <1>5

\* ... and so does taking it over.
LEMMA TakeTierKeeps ==
    ASSUME IInv, NEW r \in Requests, NEW tier \in Tiers, TakeTier(r, tier) PROVE IInv'
<1>1. /\ pc[r] = "tier" /\ UNCHANGED <<outdated, caught>>
      /\ domain' = TierTaken(domain, tier) /\ ReadFloor(r, left[r])
  BY DEF TakeTier, At, histories
<1>2. Runs(domain') /\ domain'.breaker = domain.breaker /\ domain'.floor = domain.floor
  BY <1>1, TierIsTaken DEF IInv, Typed
<1>3. left[r] \in 0..LongestRetryAfter
  BY <1>1, DomainConstants DEF IInv, Typed, NotesInRange
<1> QED
  BY <1>1, <1>2, <1>3, FloorIsRead, ResponseStep

\* A floor that is moved later marks who sleeps; a stale one can only come earlier.
LEMMA NoteKeeps == ASSUME IInv, NEW r \in Requests, Note(r) PROVE IInv'
<1>1. /\ domain' = [domain EXCEPT !.floor = left[r]]
      /\ caught' = IF left[r] > domain.floor THEN {s \in Requests : pc[s] = "asleep"} ELSE caught
      /\ left' = [left EXCEPT ![r] = 0] /\ outdated' = outdated
      /\ pc[r] = "noting" /\ pc' = [pc EXCEPT ![r] = "feedback"]
  BY DEF Note, At, Goes
<1>2. left[r] \in 0..LongestRetryAfter
  BY <1>1, DomainConstants DEF IInv, Typed, NotesInRange
<1>3. Runs(domain') /\ domain'.breaker = domain.breaker /\ domain'.floor = left[r]
  BY <1>1, <1>2, FloorReplacedBy DEF IInv, Typed
<1>4. \A s \in Requests : /\ pc'[s] = IF s = r THEN "feedback" ELSE pc[s]
                          /\ left'[s] = IF s = r THEN 0 ELSE left[s]
  BY <1>1 DEF IInv, Typed
<1>5. Typed'
  BY <1>1, <1>3 DEF IInv, Typed, Steps
<1>6. NotesInRange' /\ LeaksAreOutdated'
  BY <1>1, <1>3, <1>4 DEF IInv, NotesInRange, LeaksAreOutdated
<1>7. SleepersKnowFloor'
  <2> SUFFICES ASSUME NEW s \in Requests, pc'[s] = "asleep", s \notin caught'
               PROVE  left'[s] >= left[r]
    BY <1>3 DEF SleepersKnowFloor
  <2>1. pc[s] = "asleep" /\ left'[s] = left[s]
    BY <1>4
  <2>2. ~(left[r] > domain.floor) /\ s \notin caught
    BY <1>1, <2>1
  <2>3. left[s] >= domain.floor
    BY <2>1, <2>2 DEF IInv, SleepersKnowFloor
  <2>4. left[s] \in Nat /\ left[r] \in Nat /\ domain.floor \in Nat
    BY ControllerOfHost DEF IInv, Typed
  <2> QED
    BY <2>1, <2>2, <2>3, <2>4
<1> QED
  BY <1>5, <1>6, <1>7 DEF IInv

\* The outcome goes to the controller before it goes to the breaker.
LEMMA FeedbackKeeps ==
    ASSUME IInv, NEW r \in Requests, TransportFailure(r) \/ Feedback(r)
    PROVE  IInv'
<1>1. CASE TransportFailure(r)
  <2>1. /\ pc[r] = "sent" /\ pc' = [pc EXCEPT ![r] = "feedback"]
        /\ domain' = domain /\ left' = left /\ UNCHANGED <<outdated, caught>>
    BY <1>1 DEF TransportFailure, At, Goes, histories
  <2>2. Runs(domain) /\ left \in [Requests -> Nat]
        /\ "feedback" \in Quiet
    BY DEF IInv, Typed, Steps, Quiet
  <2> QED
    BY <2>1, <2>2, QuietStep
<1>2. CASE Feedback(r)
  <2> DEFINE degraded == outcome[r] = "slow"
             k == IF outcome[r] = "bad" THEN ControllerFailure(domain.controller)
                  ELSE ControllerSuccess(domain.controller, domain.base_ceiling, degraded)
  <2>1. k \in ControllerRecords /\ k.rate # 0
    <3>1. degraded \in BOOLEAN
      OBVIOUS
    <3> HIDE DEF degraded
    <3> QED
      BY <3>1, ControllerOfHost, FeedbackKeepsRunning
  <2>2. /\ domain' = [domain EXCEPT !.controller = k]
        /\ pc[r] = "feedback" /\ pc' = [pc EXCEPT ![r] = "report"]
        /\ left' = left /\ UNCHANGED <<outdated, caught>>
    BY <1>2 DEF Feedback, At, Goes, locals, histories, EffectiveCeiling
  <2> HIDE DEF k
  <2>3. Runs(domain') /\ domain'.breaker = domain.breaker /\ domain'.floor = domain.floor
    BY <2>1, <2>2, ControllerReplaced DEF IInv, Typed
  <2>4. left \in [Requests -> Nat] /\ "report" \in Quiet
    BY DEF IInv, Typed, Steps, Quiet
  <2> QED
    BY <2>2, <2>3, <2>4, QuietStep
<1> QED
  BY <1>1, <1>2

\* A report that trips the circuit marks whoever has been let through.
LEMMA ReportKeeps == ASSUME IInv, NEW r \in Requests, Report(r) PROVE IInv'
<1> DEFINE b == IF outcome[r] = "bad" THEN BreakerFailure(domain.breaker)
                ELSE BreakerSuccess(domain.breaker)
<1>1. IsBreaker(b)
  BY ControllerOfHost, MethodsKeepBreaker
<1>2. domain' = [domain EXCEPT !.breaker = b]
  BY DEF Report
<1> HIDE DEF b
<1>3. Runs(domain') /\ domain'.breaker = b /\ domain'.floor = domain.floor
  BY <1>1, <1>2, BreakerReplaced DEF IInv, Typed
<1>4. /\ pc' = [pc EXCEPT ![r] = "idle"] /\ UNCHANGED caught
      /\ left' = [left EXCEPT ![r] = 0]
      /\ outdated' = IF domain.breaker.state # "open" /\ domain'.breaker.state = "open"
                     THEN {s \in Requests : pc[s] \notin {"idle", "check"}} ELSE outdated
  BY DEF Report, Released, Goes
<1>5. /\ left' \in [Requests -> Nat] /\ \A s \in Requests \ {r} : left'[s] = left[s]
      /\ outdated' \subseteq Requests
  BY <1>4 DEF IInv, Typed
<1> QED
  BY <1>3, <1>4, <1>5, EndingStep

\* Who leaves without a report changes nothing that others rely on.
LEMMA LeavingKeeps ==
    ASSUME IInv, NEW r \in Requests, Cancel(r) \/ NoResponse(r)
    PROVE  IInv'
<1>1. /\ pc' = [pc EXCEPT ![r] = "idle"] /\ domain' = domain
      /\ UNCHANGED <<outdated, caught>> /\ left' = [left EXCEPT ![r] = 0]
  BY DEF Cancel, NoResponse, Released, Goes, histories
<1>2. /\ Runs(domain) /\ outdated \subseteq Requests
      /\ left' \in [Requests -> Nat] /\ \A s \in Requests \ {r} : left'[s] = left[s]
  BY <1>1 DEF IInv, Typed
<1> QED
  BY <1>1, <1>2, EndingStep

\* Sleep and floor get shorter together.
LEMMA TickKeeps == ASSUME IInv, Tick PROVE IInv'
<1>1. /\ Runs(domain') /\ domain'.breaker.state = domain.breaker.state
      /\ domain'.floor = Larger(0, domain.floor - 1)
  BY DomainTicks DEF Tick, IInv, Typed
<1>2. /\ left' = [s \in Requests |-> Larger(0, left[s] - 1)]
      /\ pc' = pc /\ UNCHANGED <<outdated, caught>>
  BY DEF Tick, histories
<1>3. \A s \in Requests : left[s] \in Nat /\ left'[s] = Larger(0, left[s] - 1)
  BY <1>2 DEF IInv, Typed
<1>4. Typed'
  <2>1. \A s \in Requests : Larger(0, left[s] - 1) \in Nat
    BY <1>3 DEF Larger
  <2>2. left' \in [Requests -> Nat]
    BY <1>2, <2>1
  <2> QED
    BY <1>1, <1>2, <2>2 DEF IInv, Typed
<1>5. NotesInRange'
  BY <1>2, <1>3, DomainConstants DEF IInv, NotesInRange, Larger
<1>6. SleepersKnowFloor'
  BY <1>1, <1>2, <1>3, ControllerOfHost, DomainConstants DEF IInv, SleepersKnowFloor, Larger
<1>7. LeaksAreOutdated'
  BY <1>1, <1>2 DEF IInv, LeaksAreOutdated
<1> QED
  BY <1>4, <1>5, <1>6, <1>7 DEF IInv

-----------------------------------------------------------------------------
(* The theorems *)

\* Every step keeps the invariant.
LEMMA StepKeeps == IInv /\ [Next]_vars => IInv'
<1> SUFFICES ASSUME IInv, [Next]_vars
             PROVE  IInv'
  OBVIOUS
<1>1. CASE Tick
  BY <1>1, TickKeeps
<1>2. ASSUME NEW r \in Requests, Begin(r) PROVE IInv'
  BY <1>2, BeginKeeps
<1>3. ASSUME NEW r \in Requests, Acquire(r) PROVE IInv'
  BY <1>3, SemaphoreKeeps
<1>4. ASSUME NEW r \in Requests, Proceed(r) PROVE IInv'
  BY <1>4, CheckKeeps, SemaphoreKeeps, PaceKeeps, SendKeeps, InferKeeps, TakeTierKeeps,
     NoteKeeps, FeedbackKeeps, ReportKeeps DEF Proceed
<1>5. ASSUME NEW r \in Requests, Respond(r) PROVE IInv'
  BY <1>5, FeedbackKeeps, LeavingKeeps, ReceiveKeeps DEF Respond
<1>6. ASSUME NEW r \in Requests, Cancel(r) PROVE IInv'
  BY <1>6, LeavingKeeps
<1>7. CASE UNCHANGED vars
  <2>1. UNCHANGED <<domain, pc, left, outdated, caught>>
    BY <1>7 DEF vars, locals, histories
  <2> QED
    BY <2>1 DEF IInv, Typed, NotesInRange, LeaksAreOutdated, SleepersKnowFloor
<1>8. ASSUME NEW rule \in PolicyRules, ApplyPolicy(rule) PROVE IInv'
  BY <1>8, ApplyPolicyKeeps
<1> QED
  BY <1>1, <1>2, <1>3, <1>4, <1>5, <1>6, <1>7, <1>8 DEF Next

(* The invariant holds in every reachable state. *)
THEOREM InvariantHolds == Spec => []IInv
<1>1. Init => IInv
  BY InitKeeps
<1>2. IInv /\ [Next]_vars => IInv'
  BY StepKeeps
<1> QED
  BY <1>1, <1>2, PTL DEF Spec

(* Whatever goes out while the circuit is open was let through before it    *)
(* tripped: see OnlyOutdatedLeak.                                           *)
THEOREM OpenLeaksOnlyOutdated == Spec => OnlyOutdatedLeak
<1>1. IInv /\ [Next]_vars =>
        [\A r \in Requests : Sends(r) /\ domain.breaker.state = "open" => r \in outdated]_vars
  BY DEF IInv, LeaksAreOutdated, Sends
<1> QED
  BY <1>1, InvariantHolds, PTL DEF Spec, OnlyOutdatedLeak

(* A request goes out by the end of its sleep only.                         *)
LEMMA SendingHasSlept ==
    ASSUME IInv, Next, NEW r \in Requests, Sends(r)
    PROVE  left[r] = 0
<1> USE DEF At, Goes, Sends
<1>1. pc \in [Requests -> Steps]
  BY DEF IInv, Typed
<1>2. ASSUME NEW s \in Requests, NEW to, pc' = [pc EXCEPT ![s] = to]
      PROVE  s = r /\ pc[s] = "asleep" /\ to = "sent"
  BY <1>1, <1>2
<1>3. ~Tick /\ ~(\E rule \in PolicyRules : ApplyPolicy(rule))
  BY DEF Tick, ApplyPolicy
<1>4. ASSUME NEW s \in Requests
      PROVE  ~Begin(s) /\ ~Acquire(s)
  <2>1. ~Begin(s)
    BY <1>2 DEF Begin
  <2>2. ~Acquire(s)
    BY <1>2 DEF Acquire
  <2> QED
    BY <2>1, <2>2
<1>5. ASSUME NEW s \in Requests, Respond(s) PROVE FALSE
  <2>1. ~TransportFailure(s) /\ ~NoResponse(s)
    BY <1>2 DEF TransportFailure, NoResponse
  <2>2. ASSUME NEW what \in Outcomes3, NEW retryAfter \in 0..LongestRetryAfter,
               Receive(s, what, retryAfter)
        PROVE  FALSE
    BY <1>2, <2>2 DEF Receive, ReadFloor
  <2> QED
    BY <1>5, <2>1, <2>2 DEF Respond
<1>6. ASSUME NEW s \in Requests, Cancel(s) PROVE FALSE
  BY <1>2, <1>6 DEF Cancel
<1>7. ASSUME NEW s \in Requests, Proceed(s) PROVE Send(s) /\ s = r
  <2>1. ~Check(s) /\ ~Gate(s)
    BY <1>2 DEF Check, Gate
  <2>2. ~Install(s) /\ ~Stamp(s) /\ ~Pick(s)
    BY <1>2 DEF Install, Stamp, Pick
  <2>3. ~Pace(s) /\ ~Note(s)
    BY <1>2 DEF Pace, Note
  <2>4. ~Feedback(s) /\ ~Report(s)
    BY <1>2 DEF Feedback, Report
  <2>5. ~Infer(s) /\ ~(\E tier \in Tiers : TakeTier(s, tier))
    BY <1>2 DEF Infer, TakeTier, ReadFloor
  <2>6. Send(s)
    BY <1>7, <2>1, <2>2, <2>3, <2>4, <2>5 DEF Proceed
  <2> QED
    BY <1>2, <2>6 DEF Send
<1>8. PICK s \in Requests : Proceed(s)
  BY <1>3, <1>4, <1>5, <1>6 DEF Next
<1> QED
  BY <1>7, <1>8 DEF Send

(* A coroutine or navigation that goes out before a Retry-After has passed  *)
(* was asleep when it came: see OnlyCaughtIgnoreFloor.                      *)
THEOREM FloorIgnoredOnlyAsleep == Spec => OnlyCaughtIgnoreFloor
<1>1. IInv /\ [Next]_vars =>
        [\A r \in Requests :
           Sends(r) /\ kind # "threads" /\ domain.floor > 0 => r \in caught]_vars
  <2> SUFFICES ASSUME IInv, Next, NEW r \in Requests, Sends(r), domain.floor > 0
               PROVE  r \in caught
    OBVIOUS
  <2>1. left[r] = 0
    BY SendingHasSlept DEF Sends
  <2>2. domain.floor \in Nat
    BY DEF IInv, Typed, Runs, DomainRecords
  <2> QED
    BY <2>1, <2>2 DEF IInv, SleepersKnowFloor, Sends
<1> QED
  BY <1>1, InvariantHolds, PTL DEF Spec, OnlyCaughtIgnoreFloor

-----------------------------------------------------------------------------
(* The abstract specification *)

\* Who has just begun has no trip behind it.
CheckersAreFresh == \A r \in outdated : pc[r] # "check"

\* A request asks, and may be let through unless the circuit stays open.
LEMMA AskIsAbstract ==
    ASSUME IInv, Stamped(domain.breaker), AskedTo(domain.breaker, domain'.breaker),
           LetThrough' \cap outdated' = LetThrough \cap outdated,
           \/ LetThrough' = LetThrough
           \/ /\ domain'.breaker.state # "open"
              /\ \E r \in Requests \ LetThrough : LetThrough' = LetThrough \cup {r}
    PROVE  [Backoff!NextWithLate]_(Backoff!vars)
<1>1. Backoff!Inside = LetThrough /\ LetThrough \subseteq Requests
  BY DEF Backoff!Inside, LetThrough
<1>2. (LetThrough' \ outdated') = LetThrough' \ (LetThrough' \cap outdated')
      /\ (LetThrough \ outdated) = LetThrough \ (LetThrough \cap outdated)
  OBVIOUS
<1>3. CASE Unseen(domain.breaker, domain'.breaker) /\ LetThrough' = LetThrough
  BY <1>2, <1>3 DEF Unseen, Backoff!vars
<1>4. ASSUME Unseen(domain.breaker, domain'.breaker), domain'.breaker.state # "open",
             NEW r \in Requests \ LetThrough, LetThrough' = LetThrough \cup {r}
      PROVE  Backoff!Enter(r)
  <2>1. LetThrough' \ outdated' = (LetThrough \ outdated) \cup {r}
    BY <1>2, <1>4
  <2> QED
    BY <1>1, <1>4, <2>1 DEF Unseen, Backoff!Enter
<1>5. CASE HalfOpensTo(domain.breaker, domain'.breaker)
  <2>1. LetThrough' \ outdated' = LetThrough \ outdated
        \/ \E r \in Requests \ LetThrough :
              LetThrough' \ outdated' = (LetThrough \ outdated) \cup {r}
    BY <1>2
  <2> QED
    BY <1>1, <1>5, <2>1 DEF HalfOpensTo, Backoff!Probe, Backoff!Next, Backoff!NextWithLate
<1> QED
  BY <1>3, <1>4, <1>5 DEF AskedTo, Backoff!Next, Backoff!NextWithLate

\* The circuit opens at this step
TripsNow == domain.breaker.state # "open" /\ domain'.breaker.state = "open"

\* A report, of a probe or of a request let through before the trip, or none.
LEMMA ReportIsAbstract ==
    ASSUME Stamped(domain.breaker), Stamped(domain'.breaker),
           ReportedTo(domain.breaker, domain'.breaker),
           NEW r \in LetThrough, LetThrough' = LetThrough \ {r},
           outdated' = IF TripsNow THEN LetThrough ELSE outdated
    PROVE  Backoff!NextWithLate
<1>1. r \in Requests /\ Backoff!Inside = LetThrough
  BY DEF Backoff!Inside, LetThrough
<1>2. LetThrough' \ outdated' = IF TripsNow THEN {} ELSE (LetThrough \ outdated) \ {r}
  OBVIOUS
<1>3. LetThrough' \cap outdated'
        = IF TripsNow THEN LetThrough \ {r} ELSE (LetThrough \cap outdated) \ {r}
  OBVIOUS
<1>4. CASE Unseen(domain.breaker, domain'.breaker)
  <2>1. ~TripsNow
    BY <1>4 DEF Unseen, TripsNow
  <2>2. Backoff!Done(r)
    BY <1>1, <1>2, <1>3, <1>4, <2>1 DEF Unseen, Backoff!Done, Backoff!IsDone
  <2> QED
    BY <1>1, <2>2 DEF Backoff!Next, Backoff!NextWithLate
<1>5. CASE TripsTo(domain.breaker, domain'.breaker)
  <2>1. TripsNow
    BY <1>5 DEF TripsTo, TripsNow
  <2>2. Backoff!Trip(r)
    BY <1>1, <1>2, <1>3, <1>5, <2>1 DEF TripsTo, Backoff!Trip, Backoff!Opens
  <2> QED
    BY <1>1, <2>2 DEF Backoff!Next, Backoff!NextWithLate
<1>6. CASE ClosesTo(domain.breaker, domain'.breaker)
  <2>1. ~TripsNow
    BY <1>6 DEF ClosesTo, TripsNow
  <2>2. Backoff!Closes(r)
    BY <1>1, <1>2, <1>3, <1>6, <2>1 DEF ClosesTo, Backoff!Closes, Backoff!IsDone
  <2>3. r \in LetThrough \ outdated \/ r \in LetThrough \cap outdated
    OBVIOUS
  <2> QED
    BY <1>1, <2>2, <2>3
    DEF Backoff!Next, Backoff!NextWithLate, Backoff!ProbeSucceeds, Backoff!LateSucceeds
<1>7. CASE ReopensTo(domain.breaker, domain'.breaker)
  <2>1. TripsNow
    BY <1>7 DEF ReopensTo, TripsNow
  <2>2. Backoff!Reopens(r)
    BY <1>1, <1>2, <1>3, <1>7, <2>1
    DEF ReopensTo, Backoff!Reopens, Backoff!Opens, Backoff!Least, Smaller
  <2>3. r \in LetThrough \ outdated \/ r \in LetThrough \cap outdated
    OBVIOUS
  <2> QED
    BY <1>1, <2>2, <2>3
    DEF Backoff!Next, Backoff!NextWithLate, Backoff!ProbeFails, Backoff!LateFails
<1> QED
  BY <1>4, <1>5, <1>6, <1>7 DEF ReportedTo

\* Time passes.
LEMMA TickIsAbstract ==
    ASSUME AgesTo(domain.breaker, domain'.breaker), UNCHANGED <<LetThrough, outdated>>
    PROVE  [Backoff!NextWithLate]_(Backoff!vars)
<1>1. CASE Unseen(domain.breaker, domain'.breaker)
  BY <1>1 DEF Unseen, Backoff!vars
<1>2. CASE RestsTo(domain.breaker, domain'.breaker)
  <2>1. Backoff!Rest
    BY <1>2 DEF RestsTo, Backoff!Rest, Backoff!Least, Backoff!LongestRest,
                Smaller, Larger, LongestCooldown
  <2> QED
    BY <2>1 DEF Backoff!Next, Backoff!NextWithLate
<1> QED
  BY <1>1, <1>2 DEF AgesTo

\* Whom a step of one request lets through, or is done with.
LEMMA PassesThrough ==
    ASSUME IInv, NEW r \in Requests, NEW to \in Steps, pc' = [pc EXCEPT ![r] = to]
    PROVE  LetThrough' = IF to \in {"idle", "check"} THEN LetThrough \ {r} ELSE LetThrough \cup {r}
BY DEF IInv, Typed, LetThrough

\* What the steps of a request do that asks, reports, or is in between.
LEMMA RequestIsAbstract ==
    ASSUME IInv, CheckersAreFresh, Stamped(domain.breaker), NEW r \in Requests,
           Begin(r) \/ Acquire(r) \/ Proceed(r) \/ Respond(r) \/ Cancel(r)
    PROVE  Stamped(domain'.breaker) /\ [Backoff!NextWithLate]_(Backoff!vars)
<1> DEFINE Good == Stamped(domain'.breaker) /\ [Backoff!NextWithLate]_(Backoff!vars)
<1>1. Runs(domain) /\ domain \in DomainRecords /\ IsBreaker(domain.breaker)
      /\ pc \in [Requests -> Steps] /\ outdated \subseteq Requests
  BY DEF IInv, Typed, Runs
<1>2. \A k : [domain EXCEPT !.controller = k].breaker = domain.breaker
  BY <1>1 DEF DomainRecords
<1>3. \A b : [domain EXCEPT !.breaker = b].breaker = b
  BY <1>1 DEF DomainRecords
<1>4. ASSUME domain'.breaker = domain.breaker, LetThrough' = LetThrough, outdated' = outdated
      PROVE  Good
  BY <1>4, AskIsAbstract DEF AskedTo, Unseen
<1>5. ASSUME domain'.breaker = domain.breaker, outdated' = outdated, NEW to \in Steps,
             pc' = [pc EXCEPT ![r] = to], pc[r] \notin {"idle", "check"}, to \notin {"idle", "check"}
      PROVE  Good
  <2>1. LetThrough' = LetThrough
    BY <1>5, PassesThrough DEF LetThrough
  <2> QED
    BY <1>4, <1>5, <2>1
<1>6. CASE Begin(r)
  <2>1. domain'.breaker = domain.breaker
    BY <1>1, <1>6, CeilingIsRefreshed DEF Begin
  <2>2. LetThrough' = LetThrough /\ LetThrough' \cap outdated' = LetThrough \cap outdated
    BY <1>6, PassesThrough DEF Begin, At, Goes, Steps, LetThrough
  <2> QED
    BY <2>1, <2>2, AskIsAbstract DEF AskedTo, Unseen
<1>7. CASE Check(r)
  <2>1. domain'.breaker = MaybeHalfOpen(domain.breaker) /\ outdated' = outdated
    BY <1>3, <1>7 DEF Check, histories
  <2>2. Stamped(domain'.breaker) /\ AskedTo(domain.breaker, domain'.breaker)
    BY <1>1, <2>1, MethodsBackOff
  <2>3. r \notin LetThrough /\ r \notin outdated
    BY <1>7 DEF Check, At, LetThrough, CheckersAreFresh
  <2>4. CASE Allows(domain.breaker)
    <3>1. LetThrough' = LetThrough \cup {r}
      BY <1>7, <2>4, PassesThrough DEF Check, Goes, AfterCheck, Steps
    <3>2. domain'.breaker.state # "open"
      BY <2>1, <2>4 DEF Allows
    <3> QED
      BY <2>1, <2>2, <2>3, <3>1, <3>2, AskIsAbstract
  <2>5. CASE ~Allows(domain.breaker)
    <3>1. pc' = [pc EXCEPT ![r] = "idle"] /\ "idle" \in Steps
      BY <1>7, <2>5 DEF Check, Goes, Steps
    <3>2. LetThrough' = LetThrough \ {r}
      BY <3>1, PassesThrough
    <3>3. LetThrough' = LetThrough
      BY <2>3, <3>2
    <3> QED
      BY <2>1, <2>2, <3>3, AskIsAbstract
  <2> QED
    BY <2>4, <2>5
<1>8. CASE Gate(r) \/ Install(r) \/ Stamp(r) \/ Pick(r) \/ Acquire(r)
  <2>1. domain'.breaker = domain.breaker /\ outdated' = outdated
    BY <1>8 DEF Gate, Install, Stamp, Pick, Acquire, histories
  <2>2. pc[r] \notin {"idle", "check"}
    BY <1>8 DEF Gate, Install, Stamp, Pick, Acquire, At
  <2>3. \E to \in Steps \ {"idle", "check"} : pc' = [pc EXCEPT ![r] = to]
    BY <1>8 DEF Gate, Install, Stamp, Pick, Acquire, Goes, Steps
  <2> QED
    BY <1>5, <2>1, <2>2, <2>3
<1>9. CASE Pace(r) \/ Send(r) \/ Feedback(r)
  <2>1. domain'.breaker = domain.breaker /\ outdated' = outdated
    BY <1>2, <1>9 DEF Pace, Send, Feedback, histories
  <2>2. pc[r] \notin {"idle", "check"}
    BY <1>9 DEF Pace, Send, Feedback, At
  <2>3. \E to \in Steps \ {"idle", "check"} : pc' = [pc EXCEPT ![r] = to]
    BY <1>9 DEF Pace, Send, Feedback, Goes, Steps
  <2> QED
    BY <1>5, <2>1, <2>2, <2>3
<1>10. CASE Infer(r) \/ \E tier \in Tiers : TakeTier(r, tier)
  <2>1. domain'.breaker = domain.breaker
    <3>1. \A tier \in Tiers : TakeTier(r, tier) => domain'.breaker = domain.breaker
      BY <1>1, TierIsTaken DEF TakeTier
    <3>2. Infer(r) => domain'.breaker = domain.breaker
      BY <1>1 DEF Infer, DomainRecords
    <3> QED
      BY <1>10, <3>1, <3>2
  <2>2. outdated' = outdated /\ pc[r] \notin {"idle", "check"}
    BY <1>10 DEF Infer, TakeTier, At, histories
  <2>3. \E to \in Steps \ {"idle", "check"} : pc' = [pc EXCEPT ![r] = to]
    BY <1>10 DEF Infer, TakeTier, ReadFloor, Goes, Steps
  <2> QED
    BY <1>5, <2>1, <2>2, <2>3
<1>11. CASE Note(r)
  <2>1. domain'.breaker = domain.breaker
    BY <1>1, <1>11 DEF Note, DomainRecords
  <2>2. outdated' = outdated /\ pc[r] \notin {"idle", "check"}
    BY <1>11 DEF Note, At
  <2>3. \E to \in Steps \ {"idle", "check"} : pc' = [pc EXCEPT ![r] = to]
    BY <1>11 DEF Note, Goes, Steps
  <2> QED
    BY <1>5, <2>1, <2>2, <2>3
<1>12. CASE Report(r)
  <2>1. domain'.breaker \in {BreakerFailure(domain.breaker), BreakerSuccess(domain.breaker)}
    BY <1>3, <1>12 DEF Report
  <2>2. Stamped(domain'.breaker) /\ ReportedTo(domain.breaker, domain'.breaker)
    BY <1>1, <2>1, MethodsBackOff
  <2>3. r \in LetThrough /\ LetThrough' = LetThrough \ {r}
    BY <1>12, PassesThrough DEF Report, At, Goes, Steps, LetThrough
  <2>4. outdated' = IF TripsNow THEN LetThrough ELSE outdated
    BY <1>12 DEF Report, TripsNow, LetThrough
  <2> QED
    BY <2>2, <2>3, <2>4, ReportIsAbstract
<1>13. CASE Cancel(r) \/ NoResponse(r)
  <2>1. domain'.breaker = domain.breaker /\ outdated' = outdated
    BY <1>13 DEF Cancel, NoResponse, histories
  <2>2. r \in LetThrough /\ LetThrough' = LetThrough \ {r}
    BY <1>13, PassesThrough DEF Cancel, NoResponse, At, Goes, Steps, LetThrough
  <2>3. ReportedTo(domain.breaker, domain'.breaker) /\ ~TripsNow
    BY <2>1 DEF ReportedTo, Unseen, TripsNow
  <2> QED
    BY <2>1, <2>2, <2>3, ReportIsAbstract
<1>14. CASE TransportFailure(r) \/ \E what \in Outcomes3, retryAfter \in 0..LongestRetryAfter :
                                       Receive(r, what, retryAfter)
  <2>1. domain'.breaker = domain.breaker /\ outdated' = outdated
    BY <1>14 DEF TransportFailure, Receive, histories
  <2>2. pc[r] \notin {"idle", "check"}
    BY <1>14 DEF TransportFailure, Receive, At
  <2>3. \E to \in Steps \ {"idle", "check"} : pc' = [pc EXCEPT ![r] = to]
    BY <1>14 DEF TransportFailure, Receive, ReadFloor, Goes, Steps
  <2> QED
    BY <1>5, <2>1, <2>2, <2>3
<1> QED
  BY <1>6, <1>7, <1>8, <1>9, <1>10, <1>11, <1>12, <1>13, <1>14 DEF Proceed, Respond

\* A trip marks those it finds let through, and a request begins without a mark.
LEMMA CheckersStayFresh == ASSUME IInv, CheckersAreFresh, [Next]_vars PROVE CheckersAreFresh'
<1> USE DEF CheckersAreFresh
<1>1. pc \in [Requests -> Steps] /\ outdated \subseteq Requests
  BY DEF IInv, Typed
<1>2. ASSUME outdated' = outdated, NEW r \in Requests, NEW to, to # "check",
             pc' = [pc EXCEPT ![r] = to]
      PROVE  CheckersAreFresh'
  BY <1>1, <1>2
<1>3. CASE pc' = pc /\ outdated' = outdated
  BY <1>3
<1>4. ASSUME NEW r \in Requests, Begin(r) PROVE CheckersAreFresh'
  BY <1>1, <1>4 DEF Begin, Goes
<1>5. ASSUME NEW r \in Requests, Report(r) PROVE CheckersAreFresh'
  <2>1. pc' = [pc EXCEPT ![r] = "idle"]
    BY <1>5 DEF Report, Goes
  <2>2. outdated' = outdated \/ outdated' = {s \in Requests : pc[s] \notin {"idle", "check"}}
    BY <1>5 DEF Report
  <2>3. CASE outdated' = outdated
    BY <1>2, <2>1, <2>3
  <2>4. CASE outdated' = {s \in Requests : pc[s] \notin {"idle", "check"}}
    BY <1>1, <2>1, <2>4
  <2> QED
    BY <2>2, <2>3, <2>4
<1>6. ASSUME NEW r \in Requests, Proceed(r) /\ ~Report(r)
      PROVE  outdated' = outdated /\ \E to \in Steps \ {"check"} : pc' = [pc EXCEPT ![r] = to]
  <2>1. CASE Check(r)
    <3> DEFINE next == IF Allows(domain.breaker) THEN AfterCheck ELSE "idle"
    <3>1. outdated' = outdated /\ pc' = [pc EXCEPT ![r] = next]
      BY <2>1 DEF Check, Goes, histories
    <3>2. next \in Steps \ {"check"}
      BY DEF AfterCheck, Steps
    <3> HIDE DEF next
    <3> QED
      BY <3>1, <3>2
  <2>2. CASE Gate(r) \/ Install(r) \/ Stamp(r) \/ Pick(r)
    BY <2>2 DEF Gate, Install, Stamp, Pick, Goes, Steps, histories
  <2>3. CASE Pace(r) \/ Send(r) \/ Feedback(r) \/ Note(r)
    BY <2>3 DEF Pace, Send, Feedback, Note, Goes, Steps, histories
  <2>4. CASE Infer(r) \/ \E tier \in Tiers : TakeTier(r, tier)
    BY <2>4 DEF Infer, TakeTier, ReadFloor, Goes, Steps, histories
  <2> QED
    BY <1>6, <2>1, <2>2, <2>3, <2>4 DEF Proceed
<1>7. ASSUME NEW r \in Requests, Acquire(r) \/ Respond(r) \/ Cancel(r)
      PROVE  outdated' = outdated /\ \E to \in Steps \ {"check"} : pc' = [pc EXCEPT ![r] = to]
  BY <1>7 DEF Acquire, Respond, Cancel, TransportFailure, NoResponse, Receive, ReadFloor,
              Goes, Steps, histories
<1>8. ASSUME Tick \/ (\E rule \in PolicyRules : ApplyPolicy(rule)) \/ UNCHANGED vars
      PROVE  pc' = pc /\ outdated' = outdated
  BY <1>8 DEF Tick, ApplyPolicy, vars, histories
<1> QED
  BY <1>2, <1>3, <1>4, <1>5, <1>6, <1>7, <1>8 DEF Next

(* RequestPipeline implements BackoffCircuit as well: see BacksOff.  Between *)
(* the check and the report of a request there are its waits, and others,   *)
(* and its report decides although it was let through before the trip.      *)
THEOREM PipelineBacksOff == Spec => BacksOff
<1> DEFINE Known == Stamped(domain.breaker) /\ CheckersAreFresh
<1>1. Init => Known /\ Backoff!Init
  <2> SUFFICES ASSUME Init PROVE Known /\ Backoff!Init
    OBVIOUS
  <2>1. LetThrough = {}
    BY DEF Init, LetThrough
  <2> QED
    BY <2>1, InitDomainRuns DEF Init, InitBreaker, Stamped, CheckersAreFresh, Backoff!Init
<1>2. IInv /\ Known /\ [Next]_vars => Known' /\ [Backoff!NextWithLate]_(Backoff!vars)
  <2> SUFFICES ASSUME IInv, Stamped(domain.breaker), CheckersAreFresh, [Next]_vars
               PROVE  Stamped(domain'.breaker) /\ [Backoff!NextWithLate]_(Backoff!vars)
    BY CheckersStayFresh
  <2>1. Runs(domain) /\ IsBreaker(domain.breaker)
    BY DEF IInv, Typed, Runs
  <2>2. CASE Tick
    <3>1. domain'.breaker = BreakerTick(domain.breaker)
      BY <2>1, <2>2, DomainTicks DEF Tick
    <3>2. UNCHANGED <<LetThrough, outdated>>
      BY <2>2 DEF Tick, LetThrough, histories
    <3> QED
      BY <2>1, <3>1, <3>2, MethodsBackOff, TickIsAbstract
  <2>3. ASSUME domain'.breaker = domain.breaker, UNCHANGED <<pc, outdated>>
        PROVE  Stamped(domain'.breaker) /\ [Backoff!NextWithLate]_(Backoff!vars)
    <3>1. LetThrough' = LetThrough
      BY <2>3 DEF LetThrough
    <3> QED
      BY <2>3, <3>1, AskIsAbstract DEF AskedTo, Unseen
  <2>4. ASSUME NEW rule \in PolicyRules, ApplyPolicy(rule)
        PROVE  domain'.breaker = domain.breaker /\ UNCHANGED <<pc, outdated>>
    BY <2>1, <2>4, PolicyIsApplied DEF ApplyPolicy
  <2>5. UNCHANGED vars => domain'.breaker = domain.breaker /\ UNCHANGED <<pc, outdated>>
    BY DEF vars, histories
  <2> QED
    BY <2>2, <2>3, <2>4, <2>5, RequestIsAbstract DEF Next
<1> QED
  BY <1>1, <1>2, InvariantHolds, PTL DEF Spec, BacksOff, Backoff!Safety

-----------------------------------------------------------------------------
(* The semaphores *)

\* Those that hold semaphore s
HoldersOf(s) == {r \in Requests : pc[r] \in Holding /\ semaphore[r] = s}

Choosing == {"gate", "install", "stamp", "pick"}
Waiting == {"acquire"} \cup Holding

STyped ==
    /\ domain.max_concurrent \in Nat \ {0}
    /\ pc \in [Requests -> Steps]
    /\ permits \in [Requests -> Nat] /\ capacity \in [Requests -> Nat]
    /\ semaphore \in [Requests -> Requests \cup {Nobody}]
    /\ installed \in Requests \cup {Nobody}
    /\ limit \in Nat

\* A request has a semaphore from Pick on, and a navigation never has one
Named ==
    \A r \in Requests :
        IF kind = "navigations"
        THEN semaphore[r] = Nobody /\ pc[r] \notin Choosing \cup {"acquire"}
        ELSE semaphore[r] # Nobody <=> pc[r] \in Waiting

\* A semaphore is there when its limit is
There ==
    /\ limit # 0 => installed # Nobody
    /\ \A r \in Requests : pc[r] \in {"stamp", "pick"} => installed # Nobody

Conserved == \A s \in Requests : permits[s] + Cardinality(HoldersOf(s)) = capacity[s]

SInv == STyped /\ Named /\ There /\ Conserved

\* The definitions of the module and of this one are the same.
LEMMA ConservedIsProperty == Conserved <=> PermitsConserved
<1>1. \A s \in Requests : HoldersOf(s) = {r \in Holders : semaphore[r] = s}
  BY DEF HoldersOf, Holders
<1> QED
  BY <1>1 DEF Conserved, PermitsConserved

\* Sets of holders can be counted.
LEMMA HoldersFinite ==
    ASSUME NEW s
    PROVE  IsFiniteSet(HoldersOf(s)) /\ Cardinality(HoldersOf(s)) \in Nat
<1>1. HoldersOf(s) \in SUBSET Requests
  BY DEF HoldersOf
<1> QED
  BY <1>1, PipelineAssumption, FS_Subset, FS_CardinalityType

\* A request without a semaphore leaves a name for a new one.
LEMMA UnusedIsFree ==
    ASSUME STyped, NEW r \in Requests, semaphore[r] = Nobody
    PROVE  Unused \in Requests /\ \A q \in Requests : semaphore[q] # Unused
<1>1. \E s \in Requests : \A q \in Requests : semaphore[q] # s
  <2> SUFFICES ASSUME \A s \in Requests : \E q \in Requests : semaphore[q] = s
               PROVE  FALSE
    OBVIOUS
  <2> DEFINE user == [s \in Requests |-> CHOOSE q \in Requests : semaphore[q] = s]
  <2>1. \A s \in Requests : user[s] \in Requests /\ semaphore[user[s]] = s
    OBVIOUS
  <2>2. \A s \in Requests : user[s] # r
    BY <2>1, PipelineAssumption
  <2> HIDE DEF user
  <2>3. user \in [Requests -> Requests \ {r}]
    <3>1. user = [s \in Requests |-> user[s]]
      BY DEF user
    <3> QED
      BY <2>1, <2>2, <3>1
  <2>4. /\ IsFiniteSet(Requests) /\ IsFiniteSet(Requests \ {r})
        /\ Cardinality(Requests \ {r}) < Cardinality(Requests)
    <3>1. IsFiniteSet(Requests)
      BY PipelineAssumption
    <3>2. Cardinality(Requests) \in Nat
      BY <3>1, FS_CardinalityType
    <3>3. /\ IsFiniteSet(Requests \ {r})
          /\ Cardinality(Requests \ {r}) = Cardinality(Requests) - 1
      BY <3>1, FS_RemoveElement
    <3> QED
      BY <3>1, <3>2, <3>3
  <2>5. \E x, y \in Requests : x # y /\ user[x] = user[y]
    BY <2>3, <2>4, FS_PigeonHole
  <2> QED
    BY <2>1, <2>5
<1> QED
  BY <1>1 DEF Unused

-----------------------------------------------------------------------------
(* The steps, as the semaphores see them *)

\* Step of a request that neither enters nor leaves a semaphore.
LEMMA OutsideStep ==
    ASSUME SInv, NEW r \in Requests, NEW to \in Steps, pc' = [pc EXCEPT ![r] = to],
           domain'.max_concurrent \in Nat \ {0},
           UNCHANGED <<kind, permits, capacity, installed, semaphore>>, limit' \in Nat,
           limit' # 0 \/ to \in {"stamp", "pick"} => installed # Nobody,
           IF kind = "navigations" THEN to \notin Choosing \cup {"acquire"}
           ELSE to \in Waiting <=> pc[r] \in Waiting,
           kind # "navigations" => (to \in Holding <=> pc[r] \in Holding)
    PROVE  SInv'
<1>1. \A q \in Requests : pc'[q] = IF q = r THEN to ELSE pc[q]
  BY DEF SInv, STyped
<1>2. STyped'
  BY DEF SInv, STyped
<1>3. Named'
  BY <1>1 DEF SInv, Named
<1>4. There'
  BY <1>1 DEF SInv, There
<1>5. ASSUME NEW s \in Requests
      PROVE  HoldersOf(s)' = HoldersOf(s)
  BY <1>1, PipelineAssumption DEF SInv, Named, HoldersOf
<1>6. Conserved'
  BY <1>5 DEF SInv, Conserved
<1> QED
  BY <1>2, <1>3, <1>4, <1>6 DEF SInv

\* A new semaphore is held by nobody.
LEMMA InstallKeepsPermits ==
    ASSUME SInv, NEW r \in Requests, Install(r), domain' = domain PROVE SInv'
<1>1. pc[r] = "install" /\ pc' = [pc EXCEPT ![r] = "stamp"] /\ UNCHANGED kind
  BY DEF Install, At, Goes
<1>2. /\ permits' = [permits EXCEPT ![Unused] = domain.max_concurrent]
      /\ capacity' = [capacity EXCEPT ![Unused] = domain.max_concurrent]
      /\ installed' = Unused /\ limit' = limit /\ semaphore' = semaphore
  BY DEF Install, locals
<1>3. kind # "navigations" /\ semaphore[r] = Nobody
  BY <1>1 DEF SInv, Named, Choosing, Waiting, Holding
<1>4. Unused \in Requests /\ \A q \in Requests : semaphore[q] # Unused
  BY <1>3, UnusedIsFree DEF SInv
<1>5. \A q \in Requests : pc'[q] = IF q = r THEN "stamp" ELSE pc[q]
  BY <1>1 DEF SInv, STyped
<1>6. STyped'
  BY <1>1, <1>2, <1>4 DEF SInv, STyped, Steps
<1>7. Named' /\ There'
  BY <1>1, <1>2, <1>3, <1>4, <1>5, PipelineAssumption
     DEF SInv, Named, There, Waiting, Holding
<1>8. \A s \in Requests : HoldersOf(s)' = HoldersOf(s)
  BY <1>1, <1>2, <1>5 DEF HoldersOf, Holding
<1>9. HoldersOf(Unused) = {}
  BY <1>4 DEF HoldersOf
<1>10. Conserved'
  <2> SUFFICES ASSUME NEW s \in Requests
               PROVE  permits'[s] + Cardinality(HoldersOf(s)) = capacity'[s]
    BY <1>8 DEF Conserved
  <2>1. CASE s = Unused
    BY <1>2, <1>9, <2>1, FS_EmptySet DEF SInv, STyped
  <2>2. CASE s # Unused
    BY <1>2, <2>2 DEF SInv, STyped, Conserved
  <2> QED
    BY <2>1, <2>2
<1> QED
  BY <1>6, <1>7, <1>10 DEF SInv

\* Picking a semaphore is not entering it.
LEMMA PickKeepsPermits ==
    ASSUME SInv, NEW r \in Requests, Pick(r), domain' = domain PROVE SInv'
<1>1. pc[r] = "pick" /\ pc' = [pc EXCEPT ![r] = "acquire"] /\ UNCHANGED kind
  BY DEF Pick, At, Goes
<1>2. /\ semaphore' = [semaphore EXCEPT ![r] = installed]
      /\ UNCHANGED <<permits, capacity, installed, limit>>
  BY DEF Pick, semaphores
<1>3. kind # "navigations" /\ installed # Nobody
  BY <1>1 DEF SInv, Named, There, Choosing
<1>4. \A q \in Requests : /\ pc'[q] = IF q = r THEN "acquire" ELSE pc[q]
                          /\ semaphore'[q] = IF q = r THEN installed ELSE semaphore[q]
  BY <1>1, <1>2 DEF SInv, STyped
<1>5. STyped'
  BY <1>1, <1>2 DEF SInv, STyped, Steps
<1>6. Named' /\ There'
  BY <1>1, <1>2, <1>3, <1>4 DEF SInv, Named, There, Waiting
<1>7. \A s \in Requests : HoldersOf(s)' = HoldersOf(s)
  BY <1>1, <1>4 DEF HoldersOf, Holding
<1>8. Conserved'
  BY <1>2, <1>7 DEF SInv, Conserved
<1> QED
  BY <1>5, <1>6, <1>8 DEF SInv

\* Entering takes a permit.
LEMMA AcquireKeepsPermits ==
    ASSUME SInv, NEW r \in Requests, Acquire(r), domain' = domain PROVE SInv'
<1> DEFINE mine == semaphore[r]
<1>1. pc[r] = "acquire" /\ pc' = [pc EXCEPT ![r] = "pace"] /\ UNCHANGED kind
  BY DEF Acquire, At, Goes
<1>2. /\ permits[mine] > 0 /\ permits' = [permits EXCEPT ![mine] = permits[mine] - 1]
      /\ UNCHANGED <<capacity, installed, limit, semaphore>>
  BY DEF Acquire, locals
<1>3. kind # "navigations" /\ mine \in Requests
  BY <1>1 DEF SInv, STyped, Named, Waiting
<1>4. \A q \in Requests : pc'[q] = IF q = r THEN "pace" ELSE pc[q]
  BY <1>1 DEF SInv, STyped
<1> HIDE DEF mine
<1>5. STyped'
  BY <1>1, <1>2, <1>3 DEF SInv, STyped, Steps
<1>6. Named' /\ There'
  BY <1>1, <1>2, <1>3, <1>4 DEF SInv, Named, There, Waiting, Holding
<1>7. /\ HoldersOf(mine)' = HoldersOf(mine) \cup {r} /\ r \notin HoldersOf(mine)
      /\ \A s \in Requests \ {mine} : HoldersOf(s)' = HoldersOf(s)
  BY <1>1, <1>2, <1>4 DEF HoldersOf, Holding, mine
<1>8. Cardinality(HoldersOf(mine)') = Cardinality(HoldersOf(mine)) + 1
  BY <1>7, HoldersFinite, FS_AddElement
<1>9. Conserved'
  <2> SUFFICES ASSUME NEW s \in Requests
               PROVE  permits'[s] + Cardinality(HoldersOf(s)') = capacity[s]
    BY <1>2 DEF Conserved
  <2>1. permits[s] + Cardinality(HoldersOf(s)) = capacity[s] /\ permits[s] \in Nat
        /\ Cardinality(HoldersOf(s)) \in Nat
    BY HoldersFinite DEF SInv, STyped, Conserved
  <2>2. permits'[s] = IF s = mine THEN permits[s] - 1 ELSE permits[s]
    BY <1>2, <1>3 DEF SInv, STyped
  <2>3. CASE s = mine
    <3>1. Cardinality(HoldersOf(s)') = Cardinality(HoldersOf(s)) + 1
      <4>1. HoldersOf(s)' = HoldersOf(s) \cup {r} /\ r \notin HoldersOf(s)
        BY <1>7, <2>3, <1>2 DEF mine, HoldersOf
      <4> QED
        BY <4>1, HoldersFinite, FS_AddElement
    <3>2. permits'[s] = permits[s] - 1
      BY <2>2, <2>3
    <3> QED
      BY <2>1, <3>1, <3>2
  <2>4. CASE s # mine
    BY <1>7, <2>1, <2>2, <2>4
  <2> QED
    BY <2>3, <2>4
<1> QED
  BY <1>5, <1>6, <1>9 DEF SInv

\* Leaving gives the permit back, and only if there is one to give back.
LEMMA ReleaseKeepsPermits ==
    ASSUME SInv, NEW r \in Requests, pc[r] \in Waiting, Released(r), Goes(r, "idle"),
           domain'.max_concurrent \in Nat \ {0}
    PROVE  SInv'
<1> DEFINE mine == semaphore[r]
           gives == pc[r] \in Holding /\ mine # Nobody
<1>1. pc' = [pc EXCEPT ![r] = "idle"] /\ UNCHANGED kind
  BY DEF Goes
<1>2. /\ permits' = IF gives THEN [permits EXCEPT ![mine] = permits[mine] + 1] ELSE permits
      /\ semaphore' = [semaphore EXCEPT ![r] = Nobody]
      /\ UNCHANGED <<capacity, installed, limit>>
  BY DEF Released
<1>3. \A q \in Requests : /\ pc'[q] = IF q = r THEN "idle" ELSE pc[q]
                          /\ semaphore'[q] = IF q = r THEN Nobody ELSE semaphore[q]
  BY <1>1, <1>2 DEF SInv, STyped
<1>4. mine \in Requests \cup {Nobody}
  BY DEF SInv, STyped
<1>5. STyped'
  BY <1>1, <1>2, <1>4 DEF SInv, STyped, Steps
<1>6. Named' /\ There'
  BY <1>1, <1>2, <1>3 DEF SInv, Named, There, Waiting, Holding, Choosing
<1>7. ASSUME NEW s \in Requests
      PROVE  permits'[s] + Cardinality(HoldersOf(s)') = capacity[s]
  <2>1. permits[s] + Cardinality(HoldersOf(s)) = capacity[s] /\ permits[s] \in Nat
        /\ Cardinality(HoldersOf(s)) \in Nat
    BY HoldersFinite DEF SInv, STyped, Conserved
  <2>2. CASE gives /\ s = mine
    <3>1. HoldersOf(s)' = HoldersOf(s) \ {r} /\ r \in HoldersOf(s)
      BY <1>3, <2>2, PipelineAssumption DEF HoldersOf, Holding
    <3>2. Cardinality(HoldersOf(s)') = Cardinality(HoldersOf(s)) - 1
      BY <3>1, HoldersFinite, FS_RemoveElement
    <3>3. permits'[s] = permits[s] + 1
      BY <1>2, <2>2 DEF SInv, STyped
    <3> QED
      BY <2>1, <3>2, <3>3
  <2>3. CASE ~(gives /\ s = mine)
    <3>1. HoldersOf(s)' = HoldersOf(s)
      BY <1>3, <2>3, PipelineAssumption DEF HoldersOf, Holding
    <3>2. permits'[s] = permits[s]
      BY <1>2, <1>4, <2>3 DEF SInv, STyped
    <3> QED
      BY <2>1, <3>1, <3>2
  <2> QED
    BY <2>2, <2>3
<1>8. Conserved'
  BY <1>2, <1>7 DEF Conserved
<1> QED
  BY <1>5, <1>6, <1>8 DEF SInv

-----------------------------------------------------------------------------
(* The permits *)

\* Every step keeps the invariant of the permits.
LEMMA StepKeepsPermits == ASSUME IInv, IInv', SInv, [Next]_vars PROVE SInv'
<1>1. domain'.max_concurrent \in Nat \ {0}
  BY DEF IInv, Typed, Runs, DomainRecords
<1> USE <1>1
<1>2. ASSUME UNCHANGED <<kind, pc, semaphores, semaphore>>
      PROVE  SInv'
  BY <1>2 DEF semaphores, SInv, STyped, Named, There, Conserved, HoldersOf
<1>3. ASSUME NEW rule \in PolicyRules, ApplyPolicy(rule) PROVE SInv'
  BY <1>2, <1>3 DEF ApplyPolicy, locals
<1>4. ASSUME NEW r \in Requests, Begin(r) PROVE SInv'
  <2>1. pc[r] = "idle" /\ pc' = [pc EXCEPT ![r] = "check"]
        /\ UNCHANGED <<kind, permits, capacity, installed, limit, semaphore>>
    BY <1>4 DEF Begin, At, Goes, semaphores, locals
  <2> QED
    BY <2>1, OutsideStep DEF SInv, STyped, There, Steps, Choosing, Waiting, Holding
<1>5. ASSUME NEW r \in Requests, Check(r) PROVE SInv'
  <2>1. PICK to \in {"idle", AfterCheck} : pc' = [pc EXCEPT ![r] = to]
    BY <1>5 DEF Check, Goes
  <2>2. pc[r] = "check" /\ UNCHANGED <<kind, permits, capacity, installed, limit, semaphore>>
    BY <1>5 DEF Check, At, Goes, semaphores, locals
  <2>3. to \in Steps /\ to \in {"idle", "gate", "pace"}
        /\ (to = "pace" => kind = "navigations") /\ (to = "gate" => kind # "navigations")
    BY DEF AfterCheck, Steps
  <2> QED
    BY <2>1, <2>2, <2>3, OutsideStep DEF SInv, STyped, There, Choosing, Waiting, Holding
<1>6. ASSUME NEW r \in Requests, Gate(r) PROVE SInv'
  <2>1. /\ pc[r] = "gate"
        /\ pc' = [pc EXCEPT ![r] = IF limit # domain.max_concurrent THEN "install" ELSE "pick"]
        /\ UNCHANGED <<kind, domain, permits, capacity, installed, limit, semaphore>>
    BY <1>6 DEF Gate, At, Goes, semaphores, locals
  <2>2. kind # "navigations"
    BY <2>1 DEF SInv, Named, Choosing
  <2>3. CASE limit # domain.max_concurrent
    BY <2>1, <2>2, <2>3, OutsideStep DEF SInv, STyped, There, Steps, Choosing, Waiting, Holding
  <2>4. CASE limit = domain.max_concurrent
    BY <2>1, <2>2, <2>4, OutsideStep DEF SInv, STyped, There, Steps, Choosing, Waiting, Holding
  <2> QED
    BY <2>3, <2>4
<1>7. ASSUME NEW r \in Requests, Stamp(r) PROVE SInv'
  <2>1. /\ pc[r] = "stamp" /\ pc' = [pc EXCEPT ![r] = "pick"]
        /\ UNCHANGED <<kind, domain, permits, capacity, installed, semaphore>>
        /\ limit' = domain.max_concurrent
    BY <1>7 DEF Stamp, At, Goes, locals
  <2>2. kind # "navigations" /\ installed # Nobody
    BY <2>1 DEF SInv, Named, There, Choosing
  <2> QED
    BY <2>1, <2>2, OutsideStep DEF SInv, STyped, Steps, Choosing, Waiting, Holding
<1>8. ASSUME NEW r \in Requests, Install(r) \/ Pick(r) \/ Acquire(r) PROVE SInv'
  BY <1>8, InstallKeepsPermits, PickKeepsPermits, AcquireKeepsPermits DEF Install, Pick, Acquire
<1>9. ASSUME NEW r \in Requests, NEW to \in Holding, pc' = [pc EXCEPT ![r] = to], pc[r] \in Holding,
             UNCHANGED <<kind, permits, capacity, installed, limit, semaphore>>
      PROVE  SInv'
  BY <1>9, OutsideStep DEF SInv, STyped, There, Steps, Choosing, Waiting, Holding
<1>10. ASSUME NEW r \in Requests, Pace(r) \/ Send(r) \/ Note(r) \/ Feedback(r) \/ TransportFailure(r)
       PROVE  SInv'
  <2>1. \E to \in Holding : pc' = [pc EXCEPT ![r] = to]
    BY <1>10 DEF Pace, Send, Note, Feedback, TransportFailure, Goes, Holding
  <2>2. pc[r] \in Holding /\ UNCHANGED <<kind, permits, capacity, installed, limit, semaphore>>
    BY <1>10 DEF Pace, Send, Note, Feedback, TransportFailure, At, Goes, Holding, semaphores, locals
  <2> QED
    BY <1>9, <2>1, <2>2
<1>11. ASSUME NEW r \in Requests, NEW n, ReadFloor(r, n)
       PROVE  \E to \in Holding : pc' = [pc EXCEPT ![r] = to] /\ UNCHANGED kind
  BY <1>11 DEF ReadFloor, Goes, Holding
<1>12. ASSUME NEW r \in Requests, NEW what, NEW n, Receive(r, what, n) PROVE SInv'
  <2>1. \E to \in Holding : pc' = [pc EXCEPT ![r] = to] /\ UNCHANGED kind
    BY <1>11, <1>12 DEF Receive, Goes, Holding
  <2>2. pc[r] \in Holding /\ UNCHANGED <<permits, capacity, installed, limit, semaphore>>
    BY <1>12 DEF Receive, At, Holding, semaphores
  <2> QED
    BY <1>9, <2>1, <2>2
<1>13. ASSUME NEW r \in Requests, Infer(r) \/ (\E tier \in Tiers : TakeTier(r, tier)) PROVE SInv'
  <2>1. \E to \in Holding : pc' = [pc EXCEPT ![r] = to] /\ UNCHANGED kind
    BY <1>11, <1>13 DEF Infer, TakeTier, Goes, Holding
  <2>2. pc[r] \in Holding /\ UNCHANGED <<permits, capacity, installed, limit, semaphore>>
    BY <1>13 DEF Infer, TakeTier, At, Holding, semaphores
  <2> QED
    BY <1>9, <2>1, <2>2
<1>14. ASSUME NEW r \in Requests, Report(r) \/ Cancel(r) \/ NoResponse(r) PROVE SInv'
  BY <1>14, ReleaseKeepsPermits DEF Report, Cancel, NoResponse, At, Waiting, Holding
<1>15. Tick => SInv'
  BY <1>2 DEF Tick
<1>16. UNCHANGED vars => SInv'
  BY <1>2 DEF vars, locals
<1> QED
  BY <1>3, <1>4, <1>5, <1>6, <1>7, <1>8, <1>10, <1>12, <1>13, <1>14, <1>15, <1>16
     DEF Next, Proceed, Respond

\* The invariant of the permits holds in every reachable state.
LEMMA PermitsInvariant == Spec => []SInv
<1>1. Init => SInv
  <2> SUFFICES ASSUME Init
               PROVE  SInv
    OBVIOUS
  <2>1. STyped
    BY InitDomainRuns DEF Init, STyped, Runs, DomainRecords, Steps
  <2>2. Named /\ There
    BY DEF Init, Named, There, Choosing, Waiting, Holding
  <2>3. \A s \in Requests : HoldersOf(s) = {}
    BY DEF Init, HoldersOf, Holding
  <2>4. Conserved
    BY <2>3, FS_EmptySet DEF Init, Conserved
  <2> QED
    BY <2>1, <2>2, <2>4 DEF SInv
<1>2. IInv /\ IInv' /\ SInv /\ [Next]_vars => SInv'
  BY StepKeepsPermits
<1> QED
  BY <1>1, <1>2, InvariantHolds, PTL DEF Spec

(* Permits are conserved, for any number of requests that end in any way:   *)
(* see PermitsConserved.                                                    *)
THEOREM PermitsStayConserved == Spec => []PermitsConserved
<1>1. SInv => PermitsConserved
  BY ConservedIsProperty DEF SInv
<1> QED
  BY <1>1, PermitsInvariant, PTL

-----------------------------------------------------------------------------
(* The limit of coroutines *)

\* What coroutines cannot be interrupted in
Uninterrupted == \A r \in Requests : pc[r] \in {"install", "stamp", "pick"} => running = r

\* The installed semaphore has the limit it is stamped with
Stamps ==
    /\ installed # Nobody => limit = capacity[installed] \/ \E r \in Requests : pc[r] = "stamp"
    /\ \A r \in Requests :
          /\ pc[r] = "install" => limit # domain.max_concurrent
          /\ pc[r] \in {"stamp", "pick"} => capacity[installed] = domain.max_concurrent

\* Whoever was let through after the limit last changed uses the installed semaphore
UsesInstalled ==
    \A r \in Requests \ before :
        pc[r] \in Waiting => semaphore[r] = installed /\ capacity[installed] = domain.max_concurrent

CInv == kind = "coroutines" => Uninterrupted /\ Stamps /\ UsesInstalled

\* A step of a coroutine that chooses no semaphore.
LEMMA UnrelatedStep ==
    ASSUME SInv, CInv, NEW r \in Requests, NEW to \in Steps \ Choosing,
           pc[r] \notin {"install", "stamp", "pick"}, pc' = [pc EXCEPT ![r] = to],
           kind = "coroutines", running \in {r, Nobody},
           UNCHANGED <<kind, capacity, installed, limit>>,
           domain'.max_concurrent = domain.max_concurrent,
           before' \in {before, before \ {r}}, to \notin Waiting \/ before' = before,
           to \in Waiting => pc[r] \in Waiting,
           \A q \in Requests : semaphore'[q] = semaphore[q] \/ (q = r /\ to \notin Waiting)
    PROVE  CInv'
<1>1. \A q \in Requests : pc'[q] = IF q = r THEN to ELSE pc[q]
  BY DEF SInv, STyped
<1>2. \A q \in Requests : pc[q] \notin {"install", "stamp", "pick"}
  BY PipelineAssumption DEF CInv, Uninterrupted
<1>3. \A q \in Requests : pc'[q] \notin {"install", "stamp", "pick"}
  BY <1>1, <1>2 DEF Choosing
<1>4. Uninterrupted' /\ Stamps'
  BY <1>2, <1>3 DEF CInv, Uninterrupted, Stamps
<1>5. UsesInstalled'
  BY <1>1 DEF CInv, UsesInstalled
<1> QED
  BY <1>4, <1>5 DEF CInv

\* The four steps of _get_semaphore() are one.
LEMMA ChoosingKeepsLimit ==
    ASSUME IInv, SInv, CInv, kind = "coroutines", NEW r \in Requests,
           Gate(r) \/ Install(r) \/ Stamp(r) \/ Pick(r), domain' = domain
    PROVE  CInv'
<1> DEFINE to == pc'[r]
<1>1. kind' = kind /\ running \in {r, Nobody} /\ before' = before
  BY DEF Gate, Install, Stamp, Pick, At, Goes, MayRun, histories
<1>2. \A q \in Requests : q # r => pc[q] \notin {"install", "stamp", "pick"} /\ pc'[q] = pc[q]
  BY <1>1, PipelineAssumption DEF CInv, Uninterrupted, SInv, STyped, Gate, Install, Stamp, Pick, Goes
<1>3. pc'[r] \in {"install", "stamp", "pick"} => running' = r
  BY DEF Gate, Install, Stamp, Pick, Goes, Awaits
<1>4. Uninterrupted'
  BY <1>2, <1>3 DEF Uninterrupted
<1>5. domain.max_concurrent \in Nat \ {0}
  BY DEF SInv, STyped
<1>6. CASE Gate(r)
  <2>1. /\ pc[r] = "gate" /\ UNCHANGED <<capacity, installed, limit, semaphore>>
        /\ pc'[r] = IF limit # domain.max_concurrent THEN "install" ELSE "pick"
    BY <1>6 DEF Gate, At, Goes, SInv, STyped, semaphores, locals
  <2>2. \A q \in Requests : pc[q] # "stamp"
    BY <1>2, <2>1
  <2>3. limit = domain.max_concurrent => capacity[installed] = domain.max_concurrent
    BY <1>5, <2>2 DEF CInv, Stamps, SInv, There
  <2>4. Stamps'
    BY <1>2, <2>1, <2>2, <2>3 DEF CInv, Stamps
  <2>5. UsesInstalled'
    BY <1>1, <1>2, <2>1 DEF CInv, UsesInstalled, Waiting, Holding
  <2> QED
    BY <1>4, <2>4, <2>5 DEF CInv
<1>7. CASE Install(r)
  <2>1. /\ pc[r] = "install" /\ pc'[r] = "stamp" /\ UNCHANGED <<limit, semaphore>>
        /\ capacity' = [capacity EXCEPT ![Unused] = domain.max_concurrent]
        /\ installed' = Unused
    BY <1>7 DEF Install, At, Goes, SInv, STyped, locals
  <2>2. kind # "navigations" /\ semaphore[r] = Nobody
    BY <2>1 DEF SInv, Named, Choosing, Waiting, Holding
  <2>3. Unused \in Requests
    BY <2>2, UnusedIsFree DEF SInv
  <2>4. capacity'[installed'] = domain.max_concurrent
    BY <2>1, <2>3 DEF SInv, STyped
  <2>5. Stamps'
    BY <1>2, <2>1, <2>4 DEF Stamps
  <2>6. ASSUME NEW q \in Requests \ before, pc[q] \in Waiting
        PROVE  FALSE
    <3>1. semaphore[q] = installed /\ capacity[installed] = domain.max_concurrent
      BY <2>6 DEF CInv, UsesInstalled
    <3>2. installed # Nobody
      BY <2>2, <2>6, <3>1 DEF SInv, Named
    <3>3. limit = capacity[installed]
      BY <1>2, <2>1, <3>2 DEF CInv, Stamps
    <3> QED
      BY <2>1, <3>1, <3>3 DEF CInv, Stamps
  <2>7. UsesInstalled'
    BY <1>1, <1>2, <2>1, <2>6 DEF UsesInstalled, Waiting, Holding
  <2> QED
    BY <1>4, <2>5, <2>7 DEF CInv
<1>8. CASE Stamp(r)
  <2>1. /\ pc[r] = "stamp" /\ pc'[r] = "pick" /\ limit' = domain.max_concurrent
        /\ UNCHANGED <<capacity, installed, semaphore>>
    BY <1>8 DEF Stamp, At, Goes, SInv, STyped, locals
  <2>2. Stamps'
    BY <1>2, <2>1 DEF CInv, Stamps
  <2>3. UsesInstalled'
    BY <1>1, <1>2, <2>1 DEF CInv, UsesInstalled, Waiting, Holding
  <2> QED
    BY <1>4, <2>2, <2>3 DEF CInv
<1>9. CASE Pick(r)
  <2>1. /\ pc[r] = "pick" /\ pc'[r] = "acquire" /\ UNCHANGED <<capacity, installed, limit>>
        /\ semaphore'[r] = installed /\ \A q \in Requests : q # r => semaphore'[q] = semaphore[q]
    BY <1>9 DEF Pick, At, Goes, SInv, STyped, semaphores
  <2>2. Stamps'
    BY <1>2, <2>1 DEF CInv, Stamps
  <2>3. UsesInstalled'
    BY <1>1, <1>2, <2>1 DEF CInv, Stamps, UsesInstalled
  <2> QED
    BY <1>4, <2>2, <2>3 DEF CInv
<1> QED
  BY <1>6, <1>7, <1>8, <1>9

\* A policy comes between two requests' steps, and whoever is let through has been so before.
LEMMA PolicyKeepsLimit ==
    ASSUME SInv, CInv, kind = "coroutines", NEW rule \in PolicyRules, ApplyPolicy(rule) PROVE CInv'
<1>1. /\ running = Nobody /\ UNCHANGED <<kind, pc, running, capacity, installed, limit, semaphore>>
      /\ IF domain'.max_concurrent = domain.max_concurrent THEN before' = before
         ELSE before' = {r \in Requests : pc[r] \notin {"idle", "check"}}
  BY DEF ApplyPolicy, semaphores, locals
<1>2. \A r \in Requests : pc[r] \notin {"install", "stamp", "pick"}
  BY <1>1, PipelineAssumption DEF CInv, Uninterrupted
<1>3. Uninterrupted' /\ Stamps'
  BY <1>1, <1>2 DEF CInv, Uninterrupted, Stamps
<1>4. UsesInstalled'
  BY <1>1 DEF CInv, UsesInstalled, Waiting, Holding
<1> QED
  BY <1>3, <1>4 DEF CInv

\* Every step keeps the invariant of the limit.
LEMMA StepKeepsLimit == ASSUME IInv, SInv, CInv, [Next]_vars PROVE CInv'
<1>1. CASE kind # "coroutines"
  <2>1. kind' = kind
    BY DEF Next, vars, Tick, ApplyPolicy, Begin, Acquire, Proceed, Respond, Cancel, Check, Gate,
           Install, Stamp, Pick, Pace, Send, Infer, TakeTier, Note, Feedback, Report, Receive,
           ReadFloor, TransportFailure, NoResponse, Goes
  <2> QED
    BY <1>1, <2>1 DEF CInv
<1>2. CASE kind = "coroutines"
  <2> USE <1>2 DEF At, Goes, MayRun, semaphores, locals, histories
  <2>1. /\ \A k : [domain EXCEPT !.controller = k].max_concurrent = domain.max_concurrent
        /\ \A b : [domain EXCEPT !.breaker = b].max_concurrent = domain.max_concurrent
        /\ \A n : [domain EXCEPT !.floor = n].max_concurrent = domain.max_concurrent
        /\ \A c : [domain EXCEPT !.calibrated = c].max_concurrent = domain.max_concurrent
    BY DEF IInv, Typed, Runs, DomainRecords
  <2>2. Runs(domain)
    BY DEF IInv, Typed
  <2>3. ASSUME UNCHANGED <<kind, pc, running, before, capacity, installed, limit, semaphore>>,
               domain'.max_concurrent = domain.max_concurrent
        PROVE  CInv'
    BY <2>3 DEF CInv, Uninterrupted, Stamps, UsesInstalled
  <2>4. ASSUME NEW r \in Requests, NEW to \in Steps \ Choosing, pc' = [pc EXCEPT ![r] = to],
               pc[r] \in Waiting \cup {"check"}, to \in Waiting => pc[r] \in Waiting,
               running \in {r, Nobody},
               UNCHANGED <<kind, before, capacity, installed, limit, semaphore>>,
               domain'.max_concurrent = domain.max_concurrent
        PROVE  CInv'
    <3>1. pc[r] \notin {"install", "stamp", "pick"}
      BY <2>4 DEF Waiting, Holding
    <3>2. \A q \in Requests : semaphore'[q] = semaphore[q] \/ (q = r /\ to \notin Waiting)
      BY <2>4
    <3>3. before' \in {before, before \ {r}} /\ (to \notin Waiting \/ before' = before)
      BY <2>4
    <3>4. kind' = kind /\ UNCHANGED <<capacity, installed, limit>>
      BY <2>4
    <3>5. to \in Waiting => pc[r] \in Waiting
      BY <2>4
    <3> QED
      BY <1>2, <2>4, <3>1, <3>2, <3>3, <3>4, <3>5, UnrelatedStep
  <2>5. Tick => CInv'
    BY <2>2, <2>3, DomainTicks DEF Tick
  <2>6. ASSUME NEW r \in Requests, Begin(r) PROVE CInv'
    <3>1. domain'.max_concurrent = domain.max_concurrent
      BY <2>2, <2>6, CeilingIsRefreshed DEF Begin
    <3>2. /\ pc[r] = "idle" /\ pc' = [pc EXCEPT ![r] = "check"] /\ before' = before \ {r}
          /\ running \in {r, Nobody} /\ "check" \in Steps \ Choosing /\ "check" \notin Waiting
          /\ UNCHANGED <<kind, capacity, installed, limit, semaphore>>
      BY <2>6 DEF Begin, Steps, Choosing, Waiting, Holding
    <3> QED
      BY <3>1, <3>2, UnrelatedStep
  <2>7. ASSUME NEW r \in Requests, Check(r) PROVE CInv'
    <3>1. domain'.max_concurrent = domain.max_concurrent
      BY <2>1, <2>7 DEF Check
    <3>2. /\ pc[r] = "check" /\ running \in {r, Nobody}
          /\ UNCHANGED <<kind, before, capacity, installed, limit, semaphore>>
      BY <2>7 DEF Check
    <3>3. CASE pc' = [pc EXCEPT ![r] = "idle"]
      BY <2>4, <3>1, <3>2, <3>3 DEF Steps, Choosing, Waiting, Holding
    <3>4. CASE pc' = [pc EXCEPT ![r] = "gate"]
      <4>1. \A q \in Requests : pc'[q] = IF q = r THEN "gate" ELSE pc[q]
        BY <3>4 DEF SInv, STyped
      <4>2. \A q \in Requests : pc[q] \notin {"install", "stamp", "pick"}
        BY <3>2, PipelineAssumption DEF CInv, Uninterrupted
      <4> QED
        BY <3>1, <3>2, <4>1, <4>2
           DEF CInv, Uninterrupted, Stamps, UsesInstalled, Waiting, Holding
    <3> QED
      BY <2>7, <3>3, <3>4 DEF Check, AfterCheck
  <2>8. ASSUME NEW r \in Requests, Gate(r) \/ Install(r) \/ Stamp(r) \/ Pick(r) PROVE CInv'
    BY <2>8, ChoosingKeepsLimit DEF Gate, Install, Stamp, Pick
  <2>9. ASSUME NEW r \in Requests, Acquire(r) PROVE CInv'
    BY <2>4, <2>9 DEF Acquire, Steps, Choosing, Waiting, Holding
  <2>10. ASSUME NEW r \in Requests, Pace(r) \/ Send(r) \/ Feedback(r) \/ Note(r) PROVE CInv'
    <3>1. \E to \in {"asleep", "sent", "report", "feedback"} : pc' = [pc EXCEPT ![r] = to]
      BY <2>10 DEF Pace, Send, Feedback, Note
    <3>2. domain'.max_concurrent = domain.max_concurrent
      <4>1. \/ \E k : domain' = [domain EXCEPT !.controller = k]
            \/ \E n : domain' = [domain EXCEPT !.floor = n]
        BY <2>10 DEF Pace, Send, Feedback, Note
      <4>2. ASSUME NEW k, domain' = [domain EXCEPT !.controller = k]
            PROVE  domain'.max_concurrent = domain.max_concurrent
        BY <2>1, <4>2
      <4>3. ASSUME NEW n, domain' = [domain EXCEPT !.floor = n]
            PROVE  domain'.max_concurrent = domain.max_concurrent
        BY <2>1, <4>3
      <4> QED
        BY <4>1, <4>2, <4>3
    <3>3. /\ pc[r] \in Holding /\ running \in {r, Nobody}
          /\ UNCHANGED <<kind, before, capacity, installed, limit, semaphore>>
      BY <2>10 DEF Pace, Send, Feedback, Note, Holding
    <3> QED
      BY <2>4, <3>1, <3>2, <3>3 DEF Steps, Choosing, Waiting, Holding
  <2>11. ASSUME NEW r \in Requests, NEW n, ReadFloor(r, n)
         PROVE  \E to \in {"noting", "feedback"} : pc' = [pc EXCEPT ![r] = to] /\ UNCHANGED kind
    BY <2>11 DEF ReadFloor
  <2>12. ASSUME NEW r \in Requests, Respond(r), ~NoResponse(r) PROVE CInv'
    <3>1. domain' = domain /\ pc[r] = "sent" /\ running \in {r, Nobody}
          /\ UNCHANGED <<kind, before, capacity, installed, limit, semaphore>>
      BY <2>11, <2>12 DEF Respond, TransportFailure, Receive
    <3>2. \E to \in {"infer", "noting", "feedback"} : pc' = [pc EXCEPT ![r] = to]
      BY <2>11, <2>12 DEF Respond, TransportFailure, Receive
    <3> QED
      BY <2>4, <3>1, <3>2 DEF Steps, Choosing, Waiting, Holding
  <2>13. ASSUME NEW r \in Requests, Infer(r) \/ (\E tier \in Tiers : TakeTier(r, tier)) PROVE CInv'
    <3>1. domain'.max_concurrent = domain.max_concurrent
      <4>1. CASE Infer(r)
        BY <2>1, <4>1 DEF Infer
      <4>2. ASSUME NEW tier \in Tiers, TakeTier(r, tier)
            PROVE  domain'.max_concurrent = domain.max_concurrent
        BY <2>2, <4>2, TierIsTaken DEF TakeTier
      <4> QED
        BY <2>13, <4>1, <4>2
    <3>2. \E to \in {"tier", "noting", "feedback"} : pc' = [pc EXCEPT ![r] = to] /\ UNCHANGED kind
      BY <2>11, <2>13 DEF Infer, TakeTier
    <3>3. /\ pc[r] \in Holding /\ running \in {r, Nobody}
          /\ UNCHANGED <<before, capacity, installed, limit, semaphore>>
      BY <2>13 DEF Infer, TakeTier, Holding
    <3> QED
      BY <2>4, <3>1, <3>2, <3>3 DEF Steps, Choosing, Waiting, Holding
  <2>14. ASSUME NEW r \in Requests, Report(r) \/ Cancel(r) \/ NoResponse(r) PROVE CInv'
    <3>1. domain'.max_concurrent = domain.max_concurrent
      BY <2>1, <2>14 DEF Report, Cancel, NoResponse
    <3>2. /\ pc[r] \in Waiting /\ running \in {r, Nobody} /\ pc' = [pc EXCEPT ![r] = "idle"]
          /\ UNCHANGED <<kind, before, capacity, installed, limit>>
      BY <2>14 DEF Report, Cancel, NoResponse, Released, Waiting, Holding
    <3>3. semaphore' = [semaphore EXCEPT ![r] = Nobody]
      BY <2>14 DEF Report, Cancel, NoResponse, Released
    <3>4. \A q \in Requests : semaphore'[q] = semaphore[q] \/ q = r
      BY <3>3 DEF SInv, STyped
    <3>5. "idle" \in Steps \ Choosing /\ "idle" \notin Waiting
          /\ pc[r] \notin {"install", "stamp", "pick"}
      BY <3>2 DEF Steps, Choosing, Waiting, Holding
    <3> QED
      BY <3>1, <3>2, <3>4, <3>5, UnrelatedStep
  <2>15. ASSUME NEW rule \in PolicyRules, ApplyPolicy(rule) PROVE CInv'
    BY <2>15, PolicyKeepsLimit
  <2>16. UNCHANGED vars => CInv'
    BY <2>3 DEF vars
  <2> QED
    BY <2>5, <2>6, <2>7, <2>8, <2>9, <2>10, <2>12, <2>13, <2>14, <2>15, <2>16
       DEF Next, Proceed, Respond
<1> QED
  BY <1>1, <1>2

(* No more than max_concurrent of the coroutines let through since the      *)
(* limit last changed are in the semaphore: see LimitKept.                  *)
THEOREM LimitIsKept == Spec => []LimitKept
<1>1. Init => CInv
  BY DEF Init, CInv, Uninterrupted, Stamps, UsesInstalled, Waiting, Holding
<1>2. IInv /\ SInv /\ CInv /\ [Next]_vars => CInv'
  BY StepKeepsLimit
<1>3. SInv /\ CInv => LimitKept
  <2> SUFFICES ASSUME SInv, CInv, kind = "coroutines"
               PROVE  Cardinality(Holders \ before) <= domain.max_concurrent
    BY DEF LimitKept
  <2>1. CASE Holders \ before = {}
    BY <2>1, FS_EmptySet DEF SInv, STyped
  <2>2. CASE Holders \ before # {}
    <3>1. Holders \ before \in SUBSET HoldersOf(installed)
      BY DEF CInv, UsesInstalled, Holders, HoldersOf, Waiting
    <3>2. Cardinality(Holders \ before) <= Cardinality(HoldersOf(installed))
      BY <3>1, HoldersFinite, FS_Subset
    <3>3. PICK r \in Requests : r \notin before /\ pc[r] \in Holding
      BY <2>2 DEF Holders
    <3>4. semaphore[r] = installed /\ capacity[installed] = domain.max_concurrent
      BY <3>3 DEF CInv, UsesInstalled, Waiting
    <3>5. installed \in Requests
      BY <3>3, <3>4 DEF SInv, STyped, Named, Waiting
    <3>6. permits[installed] + Cardinality(HoldersOf(installed)) = capacity[installed]
          /\ permits[installed] \in Nat
      BY <3>5 DEF SInv, STyped, Conserved
    <3>7. Cardinality(HoldersOf(installed)) \in Nat /\ Cardinality(Holders \ before) \in Nat
      <4>1. IsFiniteSet(Holders \ before)
        BY <3>1, HoldersFinite, FS_Subset
      <4> QED
        BY <4>1, HoldersFinite, FS_CardinalityType
    <3> QED
      BY <3>2, <3>4, <3>6, <3>7
  <2> QED
    BY <2>1, <2>2
<1> QED
  BY <1>1, <1>2, <1>3, InvariantHolds, PermitsInvariant, PTL DEF Spec

-----------------------------------------------------------------------------
(* What a policy declares *)

\* A coroutine that takes a tier has found no policy, and none comes before it has
DInv ==
    kind # "threads" =>
        /\ \A r \in Requests : pc[r] = "tier" => running = r /\ ~domain.hard_ceiling
        /\ domain.hard_ceiling => \E rule \in PolicyRules : domain.base_ceiling = rule.rate

\* Every step keeps the invariant of the ceiling.
LEMMA StepKeepsCeiling == ASSUME IInv, SInv, DInv, [Next]_vars PROVE DInv'
<1> USE DEF At, Goes, MayRun, locals
<1>1. domain \in DomainRecords
  BY DEF IInv, Typed, Runs
<1>2. kind' = kind
  BY DEF Next, vars, Tick, ApplyPolicy, Begin, Acquire, Proceed, Respond, Cancel, Check, Gate,
         Install, Stamp, Pick, Pace, Send, Infer, TakeTier, Note, Feedback, Report, Receive,
         ReadFloor, TransportFailure, NoResponse
<1>3. CASE kind = "threads"
  BY <1>2, <1>3 DEF DInv
<1>4. CASE kind # "threads"
  <2>1. /\ \A k : [domain EXCEPT !.controller = k].hard_ceiling = domain.hard_ceiling
                  /\ [domain EXCEPT !.controller = k].base_ceiling = domain.base_ceiling
        /\ \A b : [domain EXCEPT !.breaker = b].hard_ceiling = domain.hard_ceiling
                  /\ [domain EXCEPT !.breaker = b].base_ceiling = domain.base_ceiling
        /\ \A n : [domain EXCEPT !.floor = n].hard_ceiling = domain.hard_ceiling
                  /\ [domain EXCEPT !.floor = n].base_ceiling = domain.base_ceiling
        /\ [domain EXCEPT !.calibrated = TRUE].hard_ceiling = domain.hard_ceiling
        /\ [domain EXCEPT !.calibrated = TRUE].base_ceiling = domain.base_ceiling
    BY <1>1 DEF DomainRecords
  <2>2. ASSUME NEW r \in Requests, running \in {r, Nobody}, pc'[r] # "tier",
               \A q \in Requests : q # r => pc'[q] = pc[q],
               domain'.hard_ceiling = domain.hard_ceiling,
               domain'.base_ceiling = domain.base_ceiling
        PROVE  DInv'
    <3>1. \A q \in Requests : q # r => pc'[q] # "tier"
      BY <1>4, <2>2, PipelineAssumption DEF DInv
    <3> QED
      BY <1>2, <2>2, <3>1 DEF DInv
  <2>3. \A q \in Requests : \A to : [pc EXCEPT ![q] = to][q] = to
        /\ \A p \in Requests : p # q => [pc EXCEPT ![q] = to][p] = pc[p]
    BY DEF SInv, STyped
  <2>4. Tick => DInv'
    <3> SUFFICES ASSUME Tick PROVE DInv'
      OBVIOUS
    <3>1. domain'.hard_ceiling = domain.hard_ceiling /\ domain'.base_ceiling = domain.base_ceiling
      BY <1>1 DEF Tick, DomainTick, DomainRecords
    <3> QED
      BY <1>2, <3>1 DEF Tick, DInv
  <2>5. ASSUME NEW rule \in PolicyRules, ApplyPolicy(rule) PROVE DInv'
    <3>1. domain'.base_ceiling = rule.rate
      BY <1>1, <2>5 DEF ApplyPolicy, PolicyApplied, CeilingRefreshed, DomainRecords
    <3>2. running = Nobody /\ pc' = pc
      BY <2>5 DEF ApplyPolicy
    <3> QED
      BY <1>4, <3>1, <3>2, PipelineAssumption DEF DInv
  <2>6. ASSUME NEW r \in Requests, Begin(r) PROVE DInv'
    <3>1. domain'.hard_ceiling = domain.hard_ceiling /\ domain'.base_ceiling = domain.base_ceiling
      BY <1>1, <2>6 DEF Begin, CeilingRefreshed, DomainRecords
    <3> QED
      BY <1>4, <2>2, <2>3, <2>6, <3>1 DEF Begin
  <2>7. ASSUME NEW r \in Requests, Check(r) \/ Report(r) PROVE DInv'
    <3>1. \E b : domain' = [domain EXCEPT !.breaker = b]
      BY <2>7 DEF Check, Report
    <3>2. \E to : to # "tier" /\ pc' = [pc EXCEPT ![r] = to]
      BY <2>7 DEF Check, Report, AfterCheck
    <3> QED
      BY <1>4, <2>1, <2>2, <2>3, <2>7, <3>1, <3>2 DEF Check, Report
  <2>8. ASSUME NEW r \in Requests, Pace(r) \/ Send(r) \/ Note(r) \/ Feedback(r) PROVE DInv'
    <3>1. CASE Pace(r)
      BY <1>4, <2>1, <2>2, <2>3, <3>1 DEF Pace
    <3>2. CASE Send(r)
      BY <1>4, <2>1, <2>2, <2>3, <3>2 DEF Send
    <3>3. CASE Note(r)
      BY <1>4, <2>1, <2>2, <2>3, <3>3 DEF Note
    <3>4. CASE Feedback(r)
      BY <1>4, <2>1, <2>2, <2>3, <3>4 DEF Feedback
    <3> QED
      BY <2>8, <3>1, <3>2, <3>3, <3>4
  <2>9. ASSUME NEW r \in Requests,
               \/ Gate(r) \/ Install(r) \/ Stamp(r) \/ Pick(r) \/ Acquire(r)
               \/ Cancel(r) \/ NoResponse(r) \/ TransportFailure(r)
        PROVE DInv'
    <3>1. domain' = domain /\ running \in {r, Nobody}
      BY <1>4, <2>9 DEF Gate, Install, Stamp, Pick, Acquire, Cancel, NoResponse, TransportFailure
    <3>2. \E to : to # "tier" /\ pc' = [pc EXCEPT ![r] = to]
      BY <2>9 DEF Gate, Install, Stamp, Pick, Acquire, Cancel, NoResponse, TransportFailure
    <3> QED
      BY <2>2, <2>3, <3>1, <3>2
  <2>10. ASSUME NEW r \in Requests, NEW n, ReadFloor(r, n)
         PROVE  \E to : to # "tier" /\ pc' = [pc EXCEPT ![r] = to]
    <3>1. CASE n > 0
      BY <2>10, <3>1 DEF ReadFloor
    <3>2. CASE ~(n > 0)
      BY <2>10, <3>2 DEF ReadFloor
    <3> QED
      BY <3>1, <3>2
  <2>11. ASSUME NEW r \in Requests, NEW what, NEW n, Receive(r, what, n) PROVE DInv'
    <3>1. domain' = domain /\ running \in {r, Nobody}
      BY <1>4, <2>11 DEF Receive
    <3>2. \E to : to # "tier" /\ pc' = [pc EXCEPT ![r] = to]
      BY <2>10, <2>11 DEF Receive
    <3> QED
      BY <2>2, <2>3, <3>1, <3>2
  <2>12. ASSUME NEW r \in Requests, Infer(r) PROVE DInv'
    <3>1. /\ pc[r] = "infer" /\ running \in {r, Nobody}
          /\ domain'.hard_ceiling = domain.hard_ceiling
          /\ domain'.base_ceiling = domain.base_ceiling
      BY <1>4, <2>1, <2>12 DEF Infer
    <3>2. CASE domain.hard_ceiling
      <4>1. \E to : to # "tier" /\ pc' = [pc EXCEPT ![r] = to]
        BY <2>10, <2>12, <3>2 DEF Infer
      <4> QED
        BY <2>2, <2>3, <3>1, <4>1
    <3>3. CASE ~domain.hard_ceiling
      <4>1. pc' = [pc EXCEPT ![r] = "tier"] /\ running' = IF Awaits(r) THEN Nobody ELSE r
        BY <1>4, <2>12, <3>3 DEF Infer
      <4>2. pc'[r] = "tier" /\ \A q \in Requests : q # r => pc'[q] = pc[q]
        BY <2>3, <4>1
      <4>3. running' = r
        BY <4>1, <4>2 DEF Awaits
      <4>4. \A q \in Requests : q # r => pc[q] # "tier"
        BY <1>4, <3>1, PipelineAssumption DEF DInv
      <4> QED
        BY <3>1, <3>3, <4>2, <4>3, <4>4 DEF DInv
    <3> QED
      BY <3>2, <3>3
  <2>13. ASSUME NEW r \in Requests, NEW tier \in Tiers, TakeTier(r, tier) PROVE DInv'
    <3>1. pc[r] = "tier" /\ running = r /\ ~domain.hard_ceiling
      BY <1>4, <2>13 DEF TakeTier, DInv
    <3>2. ~domain'.hard_ceiling
      BY <1>1, <2>13, <3>1 DEF TakeTier, TierTaken, CeilingRefreshed, DomainRecords
    <3>3. PICK to : to # "tier" /\ pc' = [pc EXCEPT ![r] = to]
      BY <2>10, <2>13 DEF TakeTier
    <3>4. \A q \in Requests : pc'[q] # "tier"
      BY <1>4, <2>3, <3>1, <3>3 DEF DInv
    <3> QED
      BY <3>2, <3>4 DEF DInv
  <2>14. UNCHANGED vars => DInv'
    BY DEF vars, DInv
  <2> QED
    BY <2>4, <2>5, <2>6, <2>7, <2>8, <2>9, <2>11, <2>12, <2>13, <2>14 DEF Next, Proceed, Respond
<1> QED
  BY <1>3, <1>4

(* Between coroutines no inference replaces the ceiling that a policy       *)
(* declares: see DeclaredStays.                                             *)
THEOREM DeclaredCeilingStays == Spec => []DeclaredStays
<1>1. Init => DInv
  BY DEF Init, DInv, InitDomain
<1>2. IInv /\ SInv /\ DInv /\ [Next]_vars => DInv'
  BY StepKeepsCeiling
<1>3. DInv => DeclaredStays
  BY DEF DInv, DeclaredStays
<1> QED
  BY <1>1, <1>2, <1>3, InvariantHolds, PermitsInvariant, PTL DEF Spec

-----------------------------------------------------------------------------
(* The floor of coroutines and navigations *)

\* A coroutine that is about to write the floor has the event loop, and found no later one
FInv ==
    kind # "threads" =>
        \A r \in Requests : pc[r] = "noting" => running = r /\ left[r] >= domain.floor

\* Every step keeps this, and but for time none moves the floor earlier.
LEMMA StepKeepsFloor ==
    ASSUME IInv, SInv, FInv, kind # "threads", [Next]_vars
    PROVE  /\ FInv'
           /\ domain'.floor < domain.floor => domain'.floor = domain.floor - 1 /\ pc' = pc
<1> DEFINE Later == domain'.floor < domain.floor => domain'.floor = domain.floor - 1 /\ pc' = pc
<1> USE DEF At, Goes, MayRun, locals
<1>1. /\ Runs(domain) /\ domain \in DomainRecords /\ domain.floor \in Nat
      /\ pc \in [Requests -> Steps] /\ left \in [Requests -> Nat]
  BY DEF IInv, Typed, Runs, DomainRecords
<1>2. \A q \in Requests : \A to : [pc EXCEPT ![q] = to][q] = to
        /\ \A p \in Requests : p # q => [pc EXCEPT ![q] = to][p] = pc[p]
  BY <1>1
<1>3. /\ \A k : [domain EXCEPT !.controller = k].floor = domain.floor
      /\ \A b : [domain EXCEPT !.breaker = b].floor = domain.floor
      /\ [domain EXCEPT !.calibrated = TRUE].floor = domain.floor
  BY <1>1 DEF DomainRecords
<1>4. ASSUME NEW r \in Requests, running \in {r, Nobody}, domain'.floor = domain.floor,
             NEW to, pc' = [pc EXCEPT ![r] = to],
             to = "noting" => running' = r /\ left'[r] >= domain.floor
      PROVE  FInv' /\ Later
  <2>1. \A q \in Requests : q # r => pc'[q] # "noting"
    BY <1>2, <1>4, PipelineAssumption DEF FInv
  <2> QED
    BY <1>1, <1>2, <1>4, <2>1 DEF FInv
<1>5. CASE Tick
  <2>1. domain'.floor = Larger(0, domain.floor - 1) /\ pc' = pc /\ running = Nobody
    BY <1>1, <1>5 DEF Tick, DomainTick, DomainRecords
  <2>2. \A q \in Requests : pc[q] # "noting"
    BY <2>1, PipelineAssumption DEF FInv
  <2> QED
    BY <1>1, <2>1, <2>2 DEF FInv, Larger
<1>6. ASSUME NEW rule \in PolicyRules, ApplyPolicy(rule) PROVE FInv' /\ Later
  <2>1. domain'.floor = domain.floor /\ pc' = pc /\ running = Nobody
    BY <1>1, <1>6, PolicyIsApplied DEF ApplyPolicy
  <2> QED
    BY <1>1, <2>1, PipelineAssumption DEF FInv
<1>7. ASSUME NEW r \in Requests, Begin(r) PROVE FInv' /\ Later
  <2>1. domain'.floor = domain.floor
    BY <1>1, <1>7, CeilingIsRefreshed DEF Begin
  <2> QED
    BY <1>4, <1>7, <2>1 DEF Begin
<1>8. ASSUME NEW r \in Requests, Check(r) \/ Report(r) PROVE FInv' /\ Later
  <2>1. domain'.floor = domain.floor
    BY <1>3, <1>8 DEF Check, Report
  <2>2. \E to : to # "noting" /\ pc' = [pc EXCEPT ![r] = to]
    BY <1>8 DEF Check, Report, AfterCheck
  <2> QED
    BY <1>4, <1>8, <2>1, <2>2 DEF Check, Report
<1>9. ASSUME NEW r \in Requests, Pace(r) \/ Send(r) \/ Feedback(r) PROVE FInv' /\ Later
  <2>1. domain'.floor = domain.floor
    <3>1. CASE Pace(r)
      <4>1. domain' = [domain EXCEPT !.controller = Refilled(domain.controller)]
        BY <3>1 DEF Pace
      <4> QED
        BY <1>3, <4>1
    <3>2. CASE Send(r)
      <4>1. domain' = [domain EXCEPT !.controller = Consumed(domain.controller)]
        BY <1>1, <3>2 DEF Send, DomainRecords
      <4> QED
        BY <1>3, <4>1
    <3>3. CASE Feedback(r)
      <4>1. domain' = [domain EXCEPT !.controller = domain'.controller]
        BY <1>1, <3>3 DEF Feedback, DomainRecords
      <4> QED
        BY <1>3, <4>1
    <3> QED
      BY <1>9, <3>1, <3>2, <3>3
  <2>2. \E to : to # "noting" /\ pc' = [pc EXCEPT ![r] = to]
    BY <1>9 DEF Pace, Send, Feedback
  <2> QED
    BY <1>4, <1>9, <2>1, <2>2 DEF Pace, Send, Feedback
<1>10. ASSUME NEW r \in Requests,
              \/ Gate(r) \/ Install(r) \/ Stamp(r) \/ Pick(r) \/ Acquire(r)
              \/ Cancel(r) \/ NoResponse(r) \/ TransportFailure(r)
       PROVE FInv' /\ Later
  <2>1. domain' = domain /\ running \in {r, Nobody}
    BY <1>10 DEF Gate, Install, Stamp, Pick, Acquire, Cancel, NoResponse, TransportFailure
  <2>2. \E to : to # "noting" /\ pc' = [pc EXCEPT ![r] = to]
    BY <1>10 DEF Gate, Install, Stamp, Pick, Acquire, Cancel, NoResponse, TransportFailure
  <2> QED
    BY <1>4, <2>1, <2>2
<1>11. ASSUME NEW r \in Requests, running \in {r, Nobody}, domain'.floor = domain.floor,
              NEW n \in Nat, ReadFloor(r, n)
       PROVE  FInv' /\ Later
  <2>1. CASE n > 0
    <3>1. pc' = [pc EXCEPT ![r] = "noting"] /\ left' = [left EXCEPT ![r] = FloorNoted(domain.floor, n)]
      BY <1>11, <2>1 DEF ReadFloor
    <3>2. pc'[r] = "noting" /\ left'[r] >= domain.floor
      <4>1. pc'[r] = "noting"
        BY <1>2, <3>1
      <4>2. left'[r] = FloorNoted(domain.floor, n)
        BY <1>1, <3>1
      <4> QED
        BY <1>1, <1>11, <4>1, <4>2 DEF FloorNoted, Larger
    <3>3. running' = r
      BY <1>11, <2>1, <3>2 DEF ReadFloor, Awaits
    <3> QED
      BY <1>4, <1>11, <3>1, <3>2, <3>3
  <2>2. CASE ~(n > 0)
    <3>1. pc' = [pc EXCEPT ![r] = "feedback"]
      BY <1>11, <2>2 DEF ReadFloor
    <3> QED
      BY <1>4, <1>11, <3>1
  <2> QED
    BY <2>1, <2>2
<1>12. ASSUME NEW r \in Requests, NEW what \in Outcomes3, NEW n \in 0..LongestRetryAfter,
              Receive(r, what, n)
       PROVE  FInv' /\ Later
  <2>1. domain' = domain /\ running \in {r, Nobody}
    BY <1>12 DEF Receive
  <2>2. CASE domain.calibrated
    BY <1>11, <1>12, <2>1, <2>2, DomainConstants DEF Receive
  <2>3. CASE ~domain.calibrated
    <3>1. pc' = [pc EXCEPT ![r] = "infer"]
      BY <1>12, <2>3 DEF Receive
    <3> QED
      BY <1>4, <2>1, <3>1
  <2> QED
    BY <2>2, <2>3
<1>13. ASSUME NEW r \in Requests, Infer(r) PROVE FInv' /\ Later
  <2>1. domain'.floor = domain.floor /\ running \in {r, Nobody}
    BY <1>3, <1>13 DEF Infer
  <2>2. CASE domain.hard_ceiling
    BY <1>1, <1>11, <1>13, <2>1, <2>2 DEF Infer
  <2>3. CASE ~domain.hard_ceiling
    <3>1. pc' = [pc EXCEPT ![r] = "tier"]
      BY <1>13, <2>3 DEF Infer
    <3> QED
      BY <1>4, <2>1, <3>1
  <2> QED
    BY <2>2, <2>3
<1>14. ASSUME NEW r \in Requests, NEW tier \in Tiers, TakeTier(r, tier) PROVE FInv' /\ Later
  <2>1. domain'.floor = domain.floor /\ running \in {r, Nobody}
    BY <1>1, <1>14, TierIsTaken DEF TakeTier
  <2> QED
    BY <1>1, <1>11, <1>14, <2>1 DEF TakeTier
<1>15. ASSUME NEW r \in Requests, Note(r) PROVE FInv' /\ Later
  <2>1. /\ pc[r] = "noting" /\ pc' = [pc EXCEPT ![r] = "feedback"]
        /\ domain' = [domain EXCEPT !.floor = left[r]]
    BY <1>15 DEF Note
  <2>2. running = r /\ left[r] >= domain.floor
    BY <2>1 DEF FInv
  <2>3. domain'.floor = left[r]
    BY <1>1, <2>1 DEF DomainRecords
  <2>4. \A q \in Requests : pc'[q] # "noting"
    BY <1>2, <2>1, <2>2 DEF FInv
  <2> QED
    BY <1>1, <2>2, <2>3, <2>4 DEF FInv
<1>16. CASE UNCHANGED vars
  BY <1>1, <1>16 DEF vars, FInv
<1> QED
  BY <1>5, <1>6, <1>7, <1>8, <1>9, <1>10, <1>12, <1>13, <1>14, <1>15, <1>16 DEF Next, Proceed, Respond

\* What the requests are does not change.
LEMMA KindStays == [Next]_vars => kind' = kind
BY DEF Next, vars, At, Goes, MayRun, Tick, ApplyPolicy, Begin, Acquire, Proceed, Respond, Cancel,
       Check, Gate, Install, Stamp, Pick, Pace, Send, Infer, TakeTier, Note, Feedback, Report,
       Receive, ReadFloor, TransportFailure, NoResponse

(* Where the requests are no threads, no response shortens the pause that   *)
(* another one asked for: see FloorOnlyLater.                               *)
THEOREM FloorMovesLater == ASSUME "threads" \notin Kinds PROVE Spec => FloorOnlyLater
<1>1. Init => FInv /\ kind # "threads"
  BY DEF Init, FInv
<1>2. IInv /\ SInv /\ FInv /\ kind # "threads" /\ [Next]_vars =>
        /\ (FInv /\ kind # "threads")'
        /\ [domain'.floor < domain.floor => domain'.floor = domain.floor - 1 /\ pc' = pc]_vars
  BY StepKeepsFloor, KindStays
<1> QED
  BY <1>1, <1>2, InvariantHolds, PermitsInvariant, PTL DEF Spec, FloorOnlyLater

-----------------------------------------------------------------------------
(* The types, whole *)

\* What the invariants above say nothing of
OTyped ==
    /\ kind \in Kinds
    /\ outcome \in [Requests -> Outcomes3]
    /\ running \in Requests \cup {Nobody}
    /\ before \subseteq Requests

\* Every step keeps it.
LEMMA StepKeepsRest == OTyped /\ [Next]_vars => OTyped'
<1> SUFFICES ASSUME OTyped, [Next]_vars
             PROVE  OTyped'
  OBVIOUS
<1> USE DEF OTyped, Outcomes3, locals, histories
<1>1. CASE Tick
  BY <1>1 DEF Tick
<1>2. ASSUME NEW rule \in PolicyRules, ApplyPolicy(rule) PROVE OTyped'
  BY <1>2 DEF ApplyPolicy
<1>3. ASSUME NEW r \in Requests, Begin(r) \/ Acquire(r) \/ Cancel(r) PROVE OTyped'
  BY <1>3 DEF Begin, Acquire, Cancel, Goes
<1>4. ASSUME NEW r \in Requests, Proceed(r) PROVE OTyped'
  <2>1. ASSUME Check(r) \/ Gate(r) \/ Install(r) \/ Stamp(r) \/ Pick(r) PROVE OTyped'
    BY <2>1 DEF Check, Gate, Install, Stamp, Pick, Goes
  <2>2. ASSUME Pace(r) \/ Send(r) \/ Infer(r) PROVE OTyped'
    BY <2>2 DEF Pace, Send, Infer, ReadFloor, Goes
  <2>3. ASSUME NEW tier \in Tiers, TakeTier(r, tier) PROVE OTyped'
    BY <2>3 DEF TakeTier, ReadFloor, Goes
  <2>4. ASSUME Note(r) \/ Feedback(r) \/ Report(r) PROVE OTyped'
    BY <2>4 DEF Note, Feedback, Report, Goes
  <2> QED
    BY <1>4, <2>1, <2>2, <2>3, <2>4 DEF Proceed
<1>5. ASSUME NEW r \in Requests, Respond(r) PROVE OTyped'
  <2>1. ASSUME TransportFailure(r) \/ NoResponse(r) PROVE OTyped'
    BY <2>1 DEF TransportFailure, NoResponse, Goes
  <2>2. ASSUME NEW what \in Outcomes3, NEW n \in 0..LongestRetryAfter, Receive(r, what, n)
        PROVE  OTyped'
    BY <2>2 DEF Receive, ReadFloor, Goes
  <2> QED
    BY <1>5, <2>1, <2>2 DEF Respond
<1>6. CASE UNCHANGED vars
  BY <1>6 DEF vars
<1> QED
  BY <1>1, <1>2, <1>3, <1>4, <1>5, <1>6 DEF Next

(* All that a pipeline keeps stays what its type says, in particular a      *)
(* DomainState stays one whatever policies, tiers and outcomes come.        *)
THEOREM TypeCorrect == Spec => []TypeOK
<1>1. Init => OTyped
  BY DEF Init, OTyped, Outcomes3
<1>2. OTyped /\ [Next]_vars => OTyped'
  BY StepKeepsRest
<1>3. IInv /\ SInv /\ OTyped => TypeOK
  BY DEF IInv, Typed, Runs, SInv, STyped, OTyped, TypeOK
<1> QED
  BY <1>1, <1>2, <1>3, InvariantHolds, PermitsInvariant, PTL DEF Spec

-----------------------------------------------------------------------------
(* The floor of requests in series *)

(* Until a policy comes, coroutines of a host with a limit of 1 never meet  *)
(* in the semaphore, so nobody is asleep when a floor is noted              *)
EInv ==
    kind = "coroutines" /\ ~domain.hard_ceiling =>
        /\ before = {}
        /\ domain.max_concurrent = 1 => caught = {}

\* Where at most one request is in the semaphore, nobody else is.
LEMMA AloneInSemaphore ==
    ASSUME SInv, LimitKept, EInv, kind = "coroutines", ~domain.hard_ceiling,
           domain.max_concurrent = 1, NEW r \in Holders, NEW s \in Holders
    PROVE  r = s
<1>1. Holders \ before = Holders /\ Cardinality(Holders) <= 1
  BY DEF EInv, LimitKept
<1>2. IsFiniteSet(Holders)
  BY PipelineAssumption, FS_Subset DEF Holders
<1> SUFFICES ASSUME r # s
             PROVE  FALSE
  OBVIOUS
<1>3. {r, s} \subseteq Holders
  OBVIOUS
<1>4. Cardinality({r, s}) = 2
  <2>1. Cardinality({r}) = 1 /\ IsFiniteSet({r})
    BY FS_Singleton
  <2>2. {r, s} = {r} \cup {s} /\ s \notin {r}
    OBVIOUS
  <2>3. Cardinality({r} \cup {s}) = Cardinality({r}) + 1
    BY <2>1, <2>2, FS_AddElement
  <2> QED
    BY <2>1, <2>2, <2>3
<1>5. Cardinality({r, s}) <= Cardinality(Holders) /\ Cardinality(Holders) \in Nat
  BY <1>2, <1>3, FS_Subset, FS_CardinalityType
<1> QED
  BY <1>1, <1>4, <1>5

\* Only a policy changes the limit and the ceiling's kind, and only a note catches sleepers.
LEMMA StepKeepsSeries ==
    ASSUME IInv, SInv, LimitKept, EInv, [Next]_vars
    PROVE  EInv'
<1> USE DEF At, Goes, locals, histories
<1>1. domain \in DomainRecords /\ Runs(domain)
  BY DEF IInv, Typed, Runs
<1>2. kind' = kind
  BY KindStays
<1>3. ASSUME domain'.hard_ceiling = domain.hard_ceiling,
             domain'.max_concurrent = domain.max_concurrent,
             before' \subseteq before, caught' \subseteq caught
      PROVE  EInv'
  BY <1>2, <1>3 DEF EInv
<1>4. /\ \A k : [domain EXCEPT !.controller = k].hard_ceiling = domain.hard_ceiling
                /\ [domain EXCEPT !.controller = k].max_concurrent = domain.max_concurrent
      /\ \A b : [domain EXCEPT !.breaker = b].hard_ceiling = domain.hard_ceiling
                /\ [domain EXCEPT !.breaker = b].max_concurrent = domain.max_concurrent
      /\ \A n : [domain EXCEPT !.floor = n].hard_ceiling = domain.hard_ceiling
                /\ [domain EXCEPT !.floor = n].max_concurrent = domain.max_concurrent
      /\ [domain EXCEPT !.calibrated = TRUE].hard_ceiling = domain.hard_ceiling
      /\ [domain EXCEPT !.calibrated = TRUE].max_concurrent = domain.max_concurrent
  BY <1>1 DEF DomainRecords
<1>5. CASE Tick
  <2>1. domain'.hard_ceiling = domain.hard_ceiling /\ domain'.max_concurrent = domain.max_concurrent
    BY <1>1, <1>5 DEF Tick, DomainTick, DomainRecords
  <2> QED
    BY <1>3, <1>5, <2>1 DEF Tick
<1>6. ASSUME NEW rule \in PolicyRules, ApplyPolicy(rule) PROVE EInv'
  <2>1. domain'.hard_ceiling
    BY <1>1, <1>6 DEF ApplyPolicy, PolicyApplied, CeilingRefreshed, DomainRecords
  <2> QED
    BY <2>1 DEF EInv
<1>7. ASSUME NEW r \in Requests, Begin(r) PROVE EInv'
  <2>1. domain' = [domain EXCEPT !.controller = CeilingSet(domain.controller, EffectiveCeiling(domain))]
    BY <1>1, <1>7 DEF Begin, CeilingRefreshed, DomainRecords
  <2> QED
    BY <1>3, <1>4, <1>7, <2>1 DEF Begin
<1>8. ASSUME NEW r \in Requests, Check(r) PROVE EInv'
  <2>1. domain' = [domain EXCEPT !.breaker = MaybeHalfOpen(domain.breaker)]
    BY <1>1, <1>8 DEF Check, DomainRecords
  <2> QED
    BY <1>3, <1>4, <1>8, <2>1 DEF Check
<1>9. ASSUME NEW r \in Requests, Report(r) PROVE EInv'
  <2>1. domain' = [domain EXCEPT !.breaker = domain'.breaker]
    BY <1>1, <1>9 DEF Report, DomainRecords
  <2> QED
    BY <1>3, <1>4, <1>9, <2>1 DEF Report
<1>10. ASSUME NEW r \in Requests, Pace(r) \/ Send(r) \/ Feedback(r) PROVE EInv'
  <2>1. domain' = [domain EXCEPT !.controller = domain'.controller]
    BY <1>1, <1>10 DEF Pace, Send, Feedback, DomainRecords
  <2>2. UNCHANGED <<before, caught>>
    BY <1>10 DEF Pace, Send, Feedback
  <2> QED
    BY <1>3, <1>4, <2>1, <2>2
<1>11. ASSUME NEW r \in Requests,
              \/ Gate(r) \/ Install(r) \/ Stamp(r) \/ Pick(r) \/ Acquire(r)
              \/ Cancel(r) \/ NoResponse(r) \/ TransportFailure(r)
       PROVE  EInv'
  <2>1. domain' = domain /\ UNCHANGED <<before, caught>>
    BY <1>11 DEF Gate, Install, Stamp, Pick, Acquire, Cancel, NoResponse, TransportFailure
  <2> QED
    BY <1>3, <2>1
<1>12. ASSUME NEW r \in Requests, NEW what, NEW n, Receive(r, what, n) PROVE EInv'
  BY <1>3, <1>12 DEF Receive
<1>13. ASSUME NEW r \in Requests, Infer(r) PROVE EInv'
  BY <1>3, <1>4, <1>13 DEF Infer
<1>14. ASSUME NEW r \in Requests, NEW tier \in Tiers, TakeTier(r, tier) PROVE EInv'
  <2>1. domain'.hard_ceiling = domain.hard_ceiling /\ domain'.max_concurrent = domain.max_concurrent
    BY <1>1, <1>14 DEF TakeTier, TierTaken, CeilingRefreshed, DomainRecords
  <2> QED
    BY <1>3, <1>14, <2>1 DEF TakeTier
<1>15. ASSUME NEW r \in Requests, Note(r) PROVE EInv'
  <2>1. /\ domain' = [domain EXCEPT !.floor = left[r]] /\ before' = before /\ pc[r] = "noting"
        /\ caught' \subseteq caught \cup {s \in Requests : pc[s] = "asleep"}
    BY <1>15 DEF Note
  <2>2. ASSUME kind = "coroutines", ~domain.hard_ceiling, domain.max_concurrent = 1,
               NEW s \in Requests, pc[s] = "asleep"
        PROVE  FALSE
    <3>1. r \in Holders /\ s \in Holders
      BY <2>1, <2>2 DEF Holders, Holding
    <3>2. r = s
      BY <2>2, <3>1, AloneInSemaphore
    <3> QED
      BY <2>1, <2>2, <3>2
  <2> QED
    BY <1>2, <1>4, <2>1, <2>2 DEF EInv
<1>16. CASE UNCHANGED vars
  BY <1>3, <1>16 DEF vars
<1> QED
  BY <1>5, <1>6, <1>7, <1>8, <1>9, <1>10, <1>11, <1>12, <1>13, <1>14, <1>15, <1>16
     DEF Next, Proceed, Respond

(* Where coroutines take turns and no policy has changed that, none goes    *)
(* out before a Retry-After has passed: see FloorHonouredInSeries.          *)
THEOREM FloorIsHonouredInSeries == Spec => FloorHonouredInSeries
<1>1. Init => EInv
  BY DEF Init, EInv
<1>2. IInv /\ SInv /\ LimitKept /\ EInv /\ [Next]_vars => EInv'
  BY StepKeepsSeries
<1>3. IInv /\ EInv /\ [Next]_vars =>
        [\A r \in Requests :
           /\ Sends(r) /\ kind = "coroutines"
           /\ domain.max_concurrent = 1 /\ ~domain.hard_ceiling
           => domain.floor = 0]_vars
  <2> SUFFICES ASSUME IInv, EInv, Next, NEW r \in Requests, Sends(r), kind = "coroutines",
                      domain.max_concurrent = 1, ~domain.hard_ceiling
               PROVE  domain.floor = 0
    OBVIOUS
  <2>1. left[r] = 0
    BY SendingHasSlept
  <2>2. domain.floor \in Nat
    BY DEF IInv, Typed, Runs, DomainRecords
  <2> QED
    BY <2>1, <2>2 DEF IInv, SleepersKnowFloor, Sends, EInv
<1> QED
  BY <1>1, <1>2, <1>3, InvariantHolds, PermitsInvariant, LimitIsKept, PTL
     DEF Spec, FloorHonouredInSeries

=============================================================================

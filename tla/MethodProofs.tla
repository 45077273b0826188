---------------------------- MODULE MethodProofs ----------------------------
(***************************************************************************)
(* Lemmas about the methods of a breaker and of a controller, for every    *)
(* configuration.  The proofs about the modules that own such an object    *)
(* cite them.                                                              *)
(***************************************************************************)
EXTENDS Breaker, Aimd, SequenceTheorems, WellFoundedInduction, TLAPS

-----------------------------------------------------------------------------
(* Numbers *)

\* A set of natural numbers that is not empty has a least: what would go wrong for some
\* number goes wrong for a smallest one.
LEMMA LeastMember == ASSUME NEW T \in SUBSET Nat, T # {} PROVE \E x \in T : \A y \in T : x <= y
<1>1. PICK x \in T : \A y \in T : ~(<<y, x>> \in OpToRel(<, Nat))
  BY NatLessThanWellFounded, WFMin
<1>2. \A a, b \in Nat : <<b, a>> \in OpToRel(<, Nat) <=> b < a
  BY DEF OpToRel
<1>3. ASSUME NEW y \in T
      PROVE  x <= y
  <2>1. x \in Nat /\ y \in Nat
    OBVIOUS
  <2>2. ~(y < x)
    BY <1>1, <1>2, <2>1
  <2> QED
    BY <2>1, <2>2
<1> QED
  BY <1>3

-----------------------------------------------------------------------------
(* Breaker *)

\* The window stays bounded and ends with the outcome just noted.
LEMMA RememberNotes ==
    ASSUME NEW recent \in Seq(Outcomes), Len(recent) <= ErrorRateWindow, NEW o \in Outcomes
    PROVE  /\ Remember(recent, o) \in Seq(Outcomes)
           /\ Len(Remember(recent, o)) \in 1..ErrorRateWindow
           /\ Remember(recent, o)[Len(Remember(recent, o))] = o
<1>1. CASE Len(recent) < ErrorRateWindow
  BY <1>1, BreakerConfigAssumption DEF Remember
<1>2. CASE Len(recent) = ErrorRateWindow
  <2>1. recent # <<>>
    BY <1>2, BreakerConfigAssumption
  <2>2. Tail(recent) \in Seq(Outcomes) /\ Len(Tail(recent)) = Len(recent) - 1
    BY <2>1
  <2> QED
    BY <1>2, <2>2, BreakerConfigAssumption DEF Remember
<1> QED
  BY <1>1, <1>2, BreakerConfigAssumption

\* The values the methods assign to the counter and to the cooldown.
LEMMA AssignedValues ==
    /\ 0 \in 0..ConsecutiveFailures
    /\ \A n \in 0..ConsecutiveFailures : Smaller(n + 1, ConsecutiveFailures) \in 0..ConsecutiveFailures
    /\ 0 \in 0..LongestCooldown
    /\ CooldownSeconds \in 0..LongestCooldown
    /\ \A n \in 0..LongestCooldown :
          /\ Smaller(MaxCooldownSeconds, 2 * n) \in 0..LongestCooldown
          /\ Smaller(n + 1, LongestCooldown) \in 0..LongestCooldown
BY BreakerConfigAssumption DEF Smaller, Larger, LongestCooldown

\* Every method leaves a breaker behind, and so does the passing of time.
LEMMA MethodsKeepBreaker ==
    ASSUME NEW b, IsBreaker(b)
    PROVE  /\ IsBreaker(MaybeHalfOpen(b))
           /\ IsBreaker(BreakerSuccess(b))
           /\ IsBreaker(BreakerFailure(b))
           /\ IsBreaker(BreakerTick(b))
<1> USE AssignedValues DEF IsBreaker, BreakerRecords, BreakerStates
<1>1. IsBreaker(MaybeHalfOpen(b))
  BY DEF MaybeHalfOpen
<1>2. ASSUME NEW o \in Outcomes
      PROVE  /\ Remember(b.recent, o) \in Seq(Outcomes)
             /\ Len(Remember(b.recent, o)) <= ErrorRateWindow
  BY RememberNotes
<1>3. IsBreaker(BreakerSuccess(b))
  BY <1>2 DEF BreakerSuccess, Outcomes
<1>4. IsBreaker(NoteFailure(b))
  BY <1>2 DEF NoteFailure, Outcomes
<1>5. ASSUME NEW d, IsBreaker(d)
      PROVE  /\ IsBreaker(Open(d))
             /\ IsBreaker([Open(d) EXCEPT !.cooldown = Smaller(MaxCooldownSeconds, 2 * @)])
  BY <1>5 DEF Open
<1>6. IsBreaker(BreakerFailure(b))
  BY <1>4, <1>5 DEF BreakerFailure
<1>7. IsBreaker(BreakerTick(b))
  BY DEF BreakerTick
<1> QED
  BY <1>1, <1>3, <1>6, <1>7

\* The breaker __init__ makes is one, and closed.
LEMMA InitBreakerIsOne == IsBreaker(InitBreaker) /\ InitBreaker.state = "closed"
<1>1. <<>> \in Seq(Outcomes) /\ Len(<<>>) <= ErrorRateWindow
  BY BreakerConfigAssumption
<1> QED
  BY <1>1, AssignedValues DEF InitBreaker, IsBreaker, BreakerRecords, BreakerStates

\* Only a failure reported while the circuit is not open opens it, and only check() and
\* the property `state` end the open state.
LEMMA MethodsAndOpenState ==
    ASSUME NEW b, IsBreaker(b)
    PROVE  /\ MaybeHalfOpen(b).state = "open" => b.state = "open"
           /\ Allows(b) => MaybeHalfOpen(b).state # "open"
           /\ BreakerSuccess(b).state = "open" => b.state = "open"
           /\ BreakerTick(b).state = b.state
<1> USE DEF IsBreaker, BreakerRecords
<1>1. MaybeHalfOpen(b).state = "open" => b.state = "open"
  BY DEF MaybeHalfOpen
<1>2. Allows(b) => MaybeHalfOpen(b).state # "open"
  BY DEF Allows
<1>3. BreakerSuccess(b).state = "open" => b.state = "open"
  BY DEF BreakerSuccess
<1>4. BreakerTick(b).state = b.state
  BY DEF BreakerTick
<1> QED
  BY <1>1, <1>2, <1>3, <1>4

-----------------------------------------------------------------------------
(* What callers see a method do *)

\* The breaker has the time of a trip exactly while it is not closed.
Stamped(b) == (b.state = "closed") <=> (b.opened_ago = NoStamp)

\* What callers can see happen to a breaker b that becomes c: nothing, or one of these.
Unseen(b, c) == c.state = b.state /\ c.cooldown = b.cooldown /\ c.opened_ago = b.opened_ago
TripsTo(b, c) ==
    b.state = "closed" /\ c.state = "open" /\ c.cooldown = b.cooldown /\ c.opened_ago = 0
RestsTo(b, c) ==
    /\ b.state # "closed" /\ c.state = b.state /\ c.cooldown = b.cooldown
    /\ c.opened_ago = Smaller(b.opened_ago + 1, LongestCooldown)
HalfOpensTo(b, c) ==
    /\ b.state = "open" /\ b.opened_ago >= b.cooldown
    /\ c.state = "half_open" /\ c.cooldown = b.cooldown /\ c.opened_ago = b.opened_ago
ClosesTo(b, c) == b.state = "half_open" /\ c.state = "closed" /\ c.cooldown = CooldownSeconds
ReopensTo(b, c) ==
    /\ b.state = "half_open" /\ c.state = "open" /\ c.opened_ago = 0
    /\ c.cooldown = Smaller(MaxCooldownSeconds, 2 * b.cooldown)

\* By check(), by a report, and by the passing of time
AskedTo(b, c) == Unseen(b, c) \/ HalfOpensTo(b, c)
ReportedTo(b, c) == Unseen(b, c) \/ TripsTo(b, c) \/ ClosesTo(b, c) \/ ReopensTo(b, c)
AgesTo(b, c) == Unseen(b, c) \/ RestsTo(b, c)

\* Every method does one of these, and so does the passing of time.
LEMMA MethodsBackOff ==
    ASSUME NEW b, IsBreaker(b), Stamped(b)
    PROVE  /\ AskedTo(b, MaybeHalfOpen(b)) /\ Stamped(MaybeHalfOpen(b))
           /\ ReportedTo(b, BreakerSuccess(b)) /\ Stamped(BreakerSuccess(b))
           /\ ReportedTo(b, BreakerFailure(b)) /\ Stamped(BreakerFailure(b))
           /\ AgesTo(b, BreakerTick(b)) /\ Stamped(BreakerTick(b))
<1> USE DEF Unseen, TripsTo, RestsTo, HalfOpensTo, ClosesTo, ReopensTo
<1> USE DEF IsBreaker, BreakerRecords, Stamped
<1>1. AskedTo(b, MaybeHalfOpen(b)) /\ Stamped(MaybeHalfOpen(b))
  BY DEF MaybeHalfOpen, AskedTo
<1>2. ReportedTo(b, BreakerSuccess(b)) /\ Stamped(BreakerSuccess(b))
  BY DEF BreakerSuccess, ReportedTo
<1>3. ReportedTo(b, BreakerFailure(b)) /\ Stamped(BreakerFailure(b))
  <2> DEFINE noted == NoteFailure(b)
  <2>1. /\ noted.state = b.state /\ noted.opened_ago = b.opened_ago
        /\ noted.cooldown = b.cooldown
    BY DEF NoteFailure
  <2>2. IsBreaker(noted)
    <3>1. Remember(b.recent, "failure") \in Seq(Outcomes)
          /\ Len(Remember(b.recent, "failure")) <= ErrorRateWindow
      BY RememberNotes DEF Outcomes
    <3> QED
      BY <3>1, AssignedValues DEF NoteFailure
  <2> HIDE DEF noted
  <2>3. /\ Open(noted).state = "open" /\ Open(noted).opened_ago = 0
        /\ Open(noted).cooldown = b.cooldown
    BY <2>1, <2>2 DEF Open
  <2>4. CASE b.state = "half_open"
    <3>1. BreakerFailure(b)
            = [Open(noted) EXCEPT !.cooldown = Smaller(MaxCooldownSeconds, 2 * @)]
      BY <2>4 DEF BreakerFailure, noted
    <3> QED
      BY <2>2, <2>3, <2>4, <3>1 DEF ReportedTo, Open, NoStamp
  <2>5. CASE b.state = "open"
    <3>1. BreakerFailure(b) = noted
      BY <2>5 DEF BreakerFailure, noted
    <3> QED
      BY <2>1, <3>1 DEF ReportedTo
  <2>6. CASE b.state = "closed"
    <3>1. BreakerFailure(b) \in {Open(noted), noted}
      BY <2>6 DEF BreakerFailure, noted
    <3> QED
      BY <2>1, <2>3, <2>6, <3>1 DEF ReportedTo, NoStamp
  <2> QED
    BY <2>4, <2>5, <2>6 DEF BreakerStates
<1>4. AgesTo(b, BreakerTick(b)) /\ Stamped(BreakerTick(b))
  <2>1. CASE b.opened_ago = NoStamp
    BY <2>1 DEF BreakerTick, AgesTo
  <2>2. CASE b.opened_ago # NoStamp
    <3>1. BreakerTick(b).opened_ago = Smaller(b.opened_ago + 1, LongestCooldown)
          /\ BreakerTick(b).state = b.state /\ BreakerTick(b).cooldown = b.cooldown
      BY <2>2 DEF BreakerTick
    <3>2. BreakerTick(b).opened_ago # NoStamp
      BY <2>2, <3>1, AssignedValues DEF NoStamp
    <3> QED
      BY <2>2, <3>1, <3>2 DEF AgesTo
  <2> QED
    BY <2>1, <2>2
<1> QED
  BY <1>1, <1>2, <1>3, <1>4

-----------------------------------------------------------------------------
(* Aimd *)

\* The products and quotients of the bucket are natural numbers.
LEMMA BucketArithmetic ==
    /\ \A m, n \in Nat : m * n \in Nat
    /\ \A m \in Nat, n \in Nat \ {0} : m \div n \in Nat
    /\ \A m \in Nat : m \div 2 \in Nat /\ m \div 2 <= m
<1>1. \A m, n \in Nat : m * n \in Nat
  OBVIOUS
<1>2. \A m \in Nat, n \in Nat \ {0} : m \div n \in Nat
  OBVIOUS
<1>3. \A m \in Nat : m \div 2 \in Nat /\ m \div 2 <= m
  OBVIOUS
<1> QED
  BY <1>1, <1>2, <1>3

\* Refilling and consuming leave the rate as it is.
LEMMA BucketKeepsRate ==
    ASSUME NEW k \in ControllerRecords
    PROVE  /\ Refilled(k) \in ControllerRecords /\ Refilled(k).rate = k.rate
           /\ Consumed(k) \in ControllerRecords /\ Consumed(k).rate = k.rate
           /\ ControllerTick(k) \in ControllerRecords /\ ControllerTick(k).rate = k.rate
           /\ k.rate # 0 => WaitSeconds(Refilled(k)) \in Nat
<1> USE DEF ControllerRecords
<1>1. Unit \in Nat /\ k.capacity * Unit \in Nat /\ k.unrefilled * k.rate \in Nat
  BY AimdConfigAssumption, BucketArithmetic
<1>2. Least(k.capacity * Unit, k.tokens + k.unrefilled * k.rate) \in Nat
  <2> DEFINE full == k.capacity * Unit
             credit == k.unrefilled * k.rate
  <2>1. full \in Nat /\ credit \in Nat
    BY <1>1
  <2> HIDE DEF full, credit
  <2>2. Least(full, k.tokens + credit) \in Nat
    BY <2>1 DEF Least
  <2> QED
    BY <2>2 DEF full, credit
<1>3. Refilled(k) \in ControllerRecords /\ Refilled(k).rate = k.rate
  BY <1>2 DEF Refilled
<1>4. ASSUME NEW j \in ControllerRecords
      PROVE  [j EXCEPT !.tokens = Most(0, @ - Unit)] \in ControllerRecords
  <2>1. Most(0, j.tokens - Unit) \in Nat
    BY <1>1 DEF Most
  <2> QED
    BY <2>1
<1>5. Consumed(k) \in ControllerRecords /\ Consumed(k).rate = k.rate
  BY <1>3, <1>4 DEF Consumed
<1>6. Least(k.unrefilled + 1, LargestBurst * Unit) \in Nat
  <2> DEFINE last == LargestBurst * Unit
  <2>1. last \in Nat
    BY AimdConfigAssumption, BucketArithmetic
  <2> HIDE DEF last
  <2>2. Least(k.unrefilled + 1, last) \in Nat
    BY <2>1 DEF Least
  <2> QED
    BY <2>2 DEF last
<1>7. ControllerTick(k) \in ControllerRecords /\ ControllerTick(k).rate = k.rate
  BY <1>6 DEF ControllerTick
<1>8. ASSUME k.rate # 0
      PROVE  WaitSeconds(Refilled(k)) \in Nat
  <2>1. CASE Refilled(k).tokens >= Unit
    BY <2>1 DEF WaitSeconds
  <2>2. CASE ~(Refilled(k).tokens >= Unit)
    <3> DEFINE missing == Unit - Refilled(k).tokens + Refilled(k).rate - 1
    <3>1. missing \in Nat /\ Refilled(k).rate \in Nat \ {0}
      BY <1>1, <1>3, <1>8, <2>2
    <3>2. missing \div Refilled(k).rate \in Nat
      BY <3>1, BucketArithmetic
    <3> QED
      BY <2>2, <3>2 DEF WaitSeconds
  <2> QED
    BY <2>1, <2>2
<1> QED
  BY <1>3, <1>5, <1>7, <1>8

\* Feedback and ceilings move the rate, as these values say, and not the bucket.
LEMMA FeedbackMoves ==
    ASSUME NEW k \in ControllerRecords, NEW top \in Nat, NEW degraded \in BOOLEAN
    PROVE  /\ Decreased(k) \in ControllerRecords
           /\ Decreased(k).rate = Most(MinRate, k.rate \div 2)
           /\ ControllerSuccess(k, top, degraded) \in ControllerRecords
           /\ ControllerSuccess(k, top, degraded).rate
                \in {Most(MinRate, k.rate \div 2), k.rate, Least(top, k.rate + AdditiveStep)}
           /\ CeilingSet(k, top) \in ControllerRecords
           /\ CeilingSet(k, top).rate = Least(k.rate, top)
           /\ CeilingSet(k, top).streak = k.streak
           /\ \A j \in {Decreased(k), ControllerSuccess(k, top, degraded), CeilingSet(k, top)} :
                 j.tokens = k.tokens /\ j.capacity = k.capacity /\ j.unrefilled = k.unrefilled
<1> USE DEF ControllerRecords
<1> DEFINE halved == Most(MinRate, k.rate \div 2)
           raised == Least(top, k.rate + AdditiveStep)
           capped == Least(k.rate, top)
<1>1. halved \in Nat /\ raised \in Nat /\ capped \in Nat
  BY AimdConfigAssumption, BucketArithmetic DEF Most, Least
<1>2. 0 \in 0..(SuccessStreak - 1)
  BY AimdConfigAssumption
<1> HIDE DEF halved, raised, capped
<1>3. Decreased(k) = [k EXCEPT !.streak = 0, !.rate = halved]
  BY DEF Decreased, halved
<1>4. CeilingSet(k, top) = [k EXCEPT !.rate = capped]
  BY DEF CeilingSet, capped
<1>5. /\ ControllerSuccess(k, top, degraded) \in ControllerRecords
      /\ ControllerSuccess(k, top, degraded).rate \in {halved, k.rate, raised}
      /\ ControllerSuccess(k, top, degraded).tokens = k.tokens
      /\ ControllerSuccess(k, top, degraded).capacity = k.capacity
      /\ ControllerSuccess(k, top, degraded).unrefilled = k.unrefilled
  <2>1. CASE degraded /\ k.baseline
    BY <1>1, <1>2, <1>3, <2>1 DEF ControllerSuccess
  <2>2. CASE ~(degraded /\ k.baseline) /\ k.streak + 1 >= SuccessStreak
    <3>1. ControllerSuccess(k, top, degraded)
            = [k EXCEPT !.streak = 0, !.baseline = TRUE, !.rate = raised]
      BY <2>2 DEF ControllerSuccess, raised
    <3> QED
      BY <1>1, <1>2, <3>1
  <2>3. CASE ~(degraded /\ k.baseline) /\ ~(k.streak + 1 >= SuccessStreak)
    <3>1. k.streak + 1 \in 0..(SuccessStreak - 1)
      BY <2>3, AimdConfigAssumption
    <3>2. ControllerSuccess(k, top, degraded) = [k EXCEPT !.streak = @ + 1, !.baseline = TRUE]
      BY <2>3 DEF ControllerSuccess
    <3> QED
      BY <3>1, <3>2
  <2> QED
    BY <2>1, <2>2, <2>3
<1> QED
  BY <1>1, <1>2, <1>3, <1>4, <1>5 DEF halved, raised, capped

\* A new controller has a full bucket and runs at its floor at least.
LEMMA InitControllerRuns ==
    ASSUME NEW initial \in Nat, NEW burst \in Nat
    PROVE  /\ InitController(initial, burst) \in ControllerRecords
           /\ InitController(initial, burst).rate # 0
<1>1. Most(1, burst) \in Nat \ {0} /\ Most(initial, MinRate) \in Nat \ {0}
  BY AimdConfigAssumption DEF Most
<1>2. Most(1, burst) * Unit \in Nat
  BY <1>1, AimdConfigAssumption, BucketArithmetic
<1>3. 0 \in 0..(SuccessStreak - 1)
  BY AimdConfigAssumption
<1> QED
  BY <1>1, <1>2, <1>3 DEF InitController, ControllerRecords

\* A controller that runs goes on running, whatever the feedback, below the floor too (where
\* the first response may have put it).
LEMMA FeedbackKeepsRunning ==
    ASSUME NEW k \in ControllerRecords, k.rate # 0, NEW top \in Nat \ {0},
           NEW degraded \in BOOLEAN
    PROVE  /\ ControllerFailure(k) \in ControllerRecords /\ ControllerFailure(k).rate # 0
           /\ ControllerSuccess(k, top, degraded) \in ControllerRecords
           /\ ControllerSuccess(k, top, degraded).rate # 0
           /\ CeilingSet(k, top) \in ControllerRecords /\ CeilingSet(k, top).rate # 0
<1> USE DEF ControllerRecords
<1> DEFINE halved == Most(MinRate, k.rate \div 2)
           raised == Least(top, k.rate + AdditiveStep)
<1>1. halved \in Nat \ {0}
  <2>1. k.rate \div 2 \in Nat
    BY BucketArithmetic
  <2> QED
    BY <2>1, AimdConfigAssumption DEF Most
<1>2. raised \in Nat \ {0}
  BY AimdConfigAssumption DEF Least
<1>3. 0 \in 0..(SuccessStreak - 1)
  BY AimdConfigAssumption
<1>4. Decreased(k) \in ControllerRecords /\ Decreased(k).rate # 0
  BY <1>1, <1>3 DEF Decreased
<1>5. CeilingSet(k, top) \in ControllerRecords /\ CeilingSet(k, top).rate # 0
  <2>1. Least(k.rate, top) \in Nat \ {0}
    BY DEF Least
  <2> QED
    BY <2>1 DEF CeilingSet
<1> HIDE DEF halved, raised
<1>6. CASE degraded /\ k.baseline
  BY <1>4, <1>5, <1>6 DEF ControllerSuccess, ControllerFailure
<1>7. CASE ~(degraded /\ k.baseline) /\ k.streak + 1 >= SuccessStreak
  <2>1. ControllerSuccess(k, top, degraded)
          = [k EXCEPT !.streak = 0, !.baseline = TRUE, !.rate = raised]
    BY <1>7 DEF ControllerSuccess, raised
  <2> QED
    BY <1>2, <1>3, <1>4, <1>5, <2>1 DEF ControllerFailure
<1>8. CASE ~(degraded /\ k.baseline) /\ ~(k.streak + 1 >= SuccessStreak)
  <2>1. k.streak + 1 \in 0..(SuccessStreak - 1)
    BY <1>8, AimdConfigAssumption
  <2>2. ControllerSuccess(k, top, degraded) = [k EXCEPT !.streak = @ + 1, !.baseline = TRUE]
    BY <1>8 DEF ControllerSuccess
  <2> QED
    BY <1>4, <1>5, <2>1, <2>2 DEF ControllerFailure
<1> QED
  BY <1>6, <1>7, <1>8

\* Feedback and ceilings leave a controller a controller, whatever its rate.
LEMMA ControllerTyped ==
    ASSUME NEW k \in ControllerRecords, NEW top \in Nat, NEW degraded \in BOOLEAN
    PROVE  /\ ControllerFailure(k) \in ControllerRecords
           /\ ControllerSuccess(k, top, degraded) \in ControllerRecords
           /\ CeilingSet(k, top) \in ControllerRecords
           /\ CeilingSet(k, top).rate <= top /\ CeilingSet(k, top).rate <= k.rate
<1> USE DEF ControllerRecords
<1> DEFINE halved == Most(MinRate, k.rate \div 2)
           raised == Least(top, k.rate + AdditiveStep)
<1>1. halved \in Nat /\ raised \in Nat /\ 0 \in 0..(SuccessStreak - 1)
  BY AimdConfigAssumption, BucketArithmetic DEF Most, Least
<1>2. Decreased(k) \in ControllerRecords
  BY <1>1 DEF Decreased
<1>3. /\ CeilingSet(k, top) \in ControllerRecords
      /\ CeilingSet(k, top).rate <= top /\ CeilingSet(k, top).rate <= k.rate
  BY DEF CeilingSet, Least
<1> HIDE DEF halved, raised
<1>4. CASE degraded /\ k.baseline
  BY <1>2, <1>3, <1>4 DEF ControllerSuccess, ControllerFailure
<1>5. CASE ~(degraded /\ k.baseline) /\ k.streak + 1 >= SuccessStreak
  <2>1. ControllerSuccess(k, top, degraded)
          = [k EXCEPT !.streak = 0, !.baseline = TRUE, !.rate = raised]
    BY <1>5 DEF ControllerSuccess, raised
  <2> QED
    BY <1>1, <1>2, <1>3, <2>1 DEF ControllerFailure
<1>6. CASE ~(degraded /\ k.baseline) /\ ~(k.streak + 1 >= SuccessStreak)
  <2>1. k.streak + 1 \in 0..(SuccessStreak - 1)
    BY <1>6, AimdConfigAssumption
  <2>2. ControllerSuccess(k, top, degraded) = [k EXCEPT !.streak = @ + 1, !.baseline = TRUE]
    BY <1>6 DEF ControllerSuccess
  <2> QED
    BY <1>2, <1>3, <2>1, <2>2 DEF ControllerFailure
<1> QED
  BY <1>4, <1>5, <1>6

=============================================================================

------------------------ MODULE RateControllerProofs ------------------------
(***************************************************************************)
(* Theorems about RateController, for any set of senders, any tiers and    *)
(* policies and every configuration of the controller, a ceiling below     *)
(* min_rate or a tier's rate above its ceiling among them.  Type           *)
(* correctness needs the bounds of the rate: wait_time() divides by it.    *)
(* StepsKnown, for the recovery, and LInv, for the pacing, come on top of  *)
(* them.                                                                   *)
(***************************************************************************)
EXTENDS RateController, MethodProofs, FiniteSetTheorems

IInv == TypeOK /\ RateInRange

-----------------------------------------------------------------------------
(* The specification *)

\* The assumptions on the constants, one by one.
LEMMA Constants ==
    /\ Unit \in Nat \ {0} /\ MinRate \in Nat \ {0} /\ MinRate \in Rates
    /\ Burst \in Nat \ {0} /\ LargestBurst \in Nat \ {0} /\ Burst <= LargestBurst
    /\ Lanes \in Nat \ {0} /\ Spare \in Nat /\ CleanBound \in Nat
    /\ \A tier \in TierLimits :
          /\ tier.rate \in Nat \ {0} /\ tier.rate \in Rates
          /\ tier.ceiling \in Nat \ {0} /\ tier.ceiling \in Ceilings
    /\ \A rule \in Rules :
          /\ rule.rate \in Nat \ {0} /\ rule.rate \in Rates
          /\ rule.burst \in 0..LargestBurst /\ rule.ceilings \subseteq Ceilings
    /\ \A m \in Ceilings : m \in Nat \ {0} /\ m \in Rates
    /\ \A m \in Rates : m \in Nat \ {0}
    /\ NoPolicy \notin Rules
<1>1. /\ Unit \in Nat \ {0} /\ MinRate \in Nat \ {0} /\ LargestBurst \in Nat \ {0}
      /\ Burst \in Nat \ {0} /\ Burst <= LargestBurst
      /\ Lanes \in Nat \ {0} /\ Spare \in Nat /\ CleanBound \in Nat
      /\ NoPolicy \notin Rules
  BY RateAssumption, AimdConfigAssumption
<1>2. \A tier \in TierLimits : tier.rate \in Nat \ {0} /\ tier.ceiling \in Nat \ {0}
  BY RateAssumption
<1>3. \A rule \in Rules : /\ rule.rate \in Nat \ {0} /\ rule.burst \in 0..LargestBurst
                          /\ rule.ceilings \subseteq Nat \ {0}
  BY RateAssumption
<1>4. \A m \in Ceilings : m \in Nat \ {0}
  BY <1>2, <1>3 DEF Ceilings
<1>5. \A m \in Rates : m \in Nat \ {0}
  BY <1>1, <1>2, <1>3, <1>4 DEF Rates
<1>6. /\ MinRate \in Rates /\ Ceilings \subseteq Rates
      /\ \A tier \in TierLimits : tier.rate \in Rates /\ tier.ceiling \in Ceilings
      /\ \A rule \in Rules : rule.rate \in Rates /\ rule.ceilings \subseteq Ceilings
  BY DEF Rates, Ceilings
<1> QED
  BY <1>1, <1>2, <1>3, <1>4, <1>5, <1>6

\* The highest rate is one, and the allowance it gives a number.
LEMMA TopIsHighest ==
    /\ TopRate \in Nat \ {0} /\ \A m \in Rates : m <= TopRate
    /\ AllowanceCap \in Int /\ Lanes * TopRate \in Int
<1>1. TopRate \in Rates /\ \A m \in Rates : m <= TopRate
  BY RateAssumption DEF TopRate
<1>2. TopRate \in Nat \ {0}
  BY <1>1, Constants
<1>3. Lanes * TopRate \in Int
  BY <1>2, Constants, BucketArithmetic
<1>4. (LargestBurst + Spare) * Unit \in Int
  BY Constants
<1> QED
  BY <1>1, <1>2, <1>3, <1>4 DEF AllowanceCap

\* The two halves of RateInRange: the rate is not under all of the named ones ...
Floored(rate) == \E low \in Rates : low <= rate

\* ... and not over what the ceiling c, with policy p, lets it be.
Capped(rate, c, p) ==
    IF p = NoPolicy
    THEN \E tier \in TierLimits : tier.ceiling = c /\ rate <= Most(MinRate, Most(c, tier.rate))
    ELSE rate <= Most(MinRate, c)

\* Where the floor lets the rate go.
LEMMA FloorsStay ==
    ASSUME NEW rate \in Nat, Floored(rate)
    PROVE  /\ rate # 0
           /\ Floored(Most(MinRate, rate \div 2))
           /\ \A m \in Rates : Floored(Least(rate, m)) /\ Floored(m)
           /\ \A n \in Nat : rate <= n => Floored(n)
           /\ \A m \in Rates : Floored((rate + m) \div 2)
<1>1. PICK low \in Rates : low <= rate
  BY DEF Floored
<1>2. low \in Nat \ {0} /\ MinRate \in Rates /\ MinRate \in Nat \ {0}
  BY Constants
<1>3. Floored(Most(MinRate, rate \div 2))
  <2>1. MinRate <= Most(MinRate, rate \div 2)
    BY <1>2, BucketArithmetic DEF Most
  <2> QED
    BY <1>2, <2>1 DEF Floored
<1>4. \A m \in Rates : m \in Nat /\ Floored(m)
  BY Constants DEF Floored
<1>5. \A m \in Rates : Least(rate, m) = m \/ Least(rate, m) = rate
  BY DEF Least
<1>6. \A n \in Nat : rate <= n => Floored(n)
  BY <1>1, <1>2 DEF Floored
<1>7. ASSUME NEW m \in Rates PROVE Floored((rate + m) \div 2)
  <2>1. m \in Nat
    BY Constants
  <2>2. low <= (rate + m) \div 2 \/ m <= (rate + m) \div 2
    BY <1>1, <1>2, <2>1
  <2> QED
    BY <2>2 DEF Floored
<1>8. \A m \in Rates : Floored(Least(rate, m))
  BY <1>4, <1>5
<1> QED
  BY <1>1, <1>2, <1>3, <1>4, <1>6, <1>7, <1>8

\* Where the caps let the rate go: lower, to half of it or min_rate, and to the ceiling.
LEMMA CapsStay ==
    ASSUME NEW rate \in Nat, NEW c \in Ceilings, NEW p, Capped(rate, c, p)
    PROVE  /\ \A n \in Nat : n <= rate \/ n <= c => Capped(n, c, p)
           /\ Capped(Most(MinRate, rate \div 2), c, p)
           /\ rate <= TopRate
<1>1. /\ MinRate \in Nat /\ c \in Nat /\ TopRate \in Nat /\ MinRate <= TopRate /\ c <= TopRate
      /\ \A tier \in TierLimits : tier.rate \in Nat /\ tier.rate <= TopRate
      /\ rate \div 2 \in Nat /\ rate \div 2 <= rate
  BY Constants, TopIsHighest, BucketArithmetic
<1>2. CASE p = NoPolicy
  <2>1. PICK tier \in TierLimits : tier.ceiling = c /\ rate <= Most(MinRate, Most(c, tier.rate))
    BY <1>2 DEF Capped
  <2> DEFINE top == Most(MinRate, Most(c, tier.rate))
  <2>2. top \in Nat /\ c <= top /\ MinRate <= top /\ rate <= top /\ top <= TopRate
    BY <1>1, <2>1 DEF Most
  <2>3. \A n : n <= top => Capped(n, c, p)
    BY <1>2, <2>1 DEF Capped
  <2> HIDE DEF top
  <2>4. \A n \in Nat : n <= rate \/ n <= c => n <= top
    BY <1>1, <2>2
  <2>5. Most(MinRate, rate \div 2) <= top
    BY <1>1, <2>2 DEF Most
  <2> QED
    BY <1>1, <2>2, <2>3, <2>4, <2>5
<1>3. CASE p # NoPolicy
  <2> DEFINE top == Most(MinRate, c)
  <2>1. top \in Nat /\ c <= top /\ MinRate <= top /\ rate <= top /\ top <= TopRate
    BY <1>1, <1>3 DEF Most, Capped
  <2>2. \A n : n <= top => Capped(n, c, p)
    BY <1>3 DEF Capped
  <2> HIDE DEF top
  <2>3. \A n \in Nat : n <= rate \/ n <= c => n <= top
    BY <1>1, <2>1
  <2>4. Most(MinRate, rate \div 2) <= top
    BY <1>1, <2>1 DEF Most
  <2> QED
    BY <1>1, <2>1, <2>2, <2>3, <2>4
<1> QED
  BY <1>2, <1>3

\* The controller as IInv has it.
LEMMA ControllerNow ==
    ASSUME IInv
    PROVE  /\ controller \in ControllerRecords /\ controller.rate \in Nat /\ controller.rate # 0
           /\ controller.capacity \in Nat /\ controller.capacity <= LargestBurst
           /\ controller.rate <= TopRate
           /\ ceiling \in Ceilings /\ ceiling \in Nat /\ ceiling \in Rates
           /\ Floored(controller.rate) /\ Capped(controller.rate, ceiling, policy)
<1>1. /\ controller \in ControllerRecords /\ controller.rate \in Nat /\ ceiling \in Ceilings
      /\ controller.capacity \in Nat /\ controller.capacity <= LargestBurst
      /\ Floored(controller.rate) /\ Capped(controller.rate, ceiling, policy)
  BY DEF IInv, TypeOK, RateInRange, Floored, Capped, ControllerRecords
<1> QED
  BY <1>1, FloorsStay, CapsStay, Constants

\* A new controller starts within its bounds.
LEMMA InitKeeps == Init => IInv
<1> SUFFICES ASSUME Init
             PROVE  IInv
  OBVIOUS
<1>1. PICK tier \in TierLimits :
         /\ ceiling = tier.ceiling
         /\ controller = CeilingSet(InitController(tier.rate, Burst), tier.ceiling)
  BY DEF Init
<1> DEFINE k == InitController(tier.rate, Burst)
<1>2. /\ tier.ceiling \in Nat \ {0} /\ tier.rate \in Nat \ {0} /\ ceiling \in Ceilings
      /\ tier.rate \in Rates /\ tier.ceiling \in Rates /\ Burst \in Nat \ {0}
  BY <1>1, Constants
<1>3. /\ controller \in ControllerRecords /\ controller.capacity = Burst
      /\ controller.rate = Least(Most(tier.rate, MinRate), tier.ceiling)
  <2>1. k \in ControllerRecords
    BY <1>2, InitControllerRuns
  <2>2. k.rate = Most(tier.rate, MinRate) /\ k.capacity = Most(1, Burst)
    BY DEF InitController
  <2>3. Most(1, Burst) = Burst
    BY <1>2 DEF Most
  <2> HIDE DEF k
  <2>4. controller = CeilingSet(k, tier.ceiling) /\ TRUE \in BOOLEAN
    BY <1>1 DEF k
  <2>5. /\ controller \in ControllerRecords /\ controller.capacity = k.capacity
        /\ controller.rate = Least(k.rate, tier.ceiling)
    <3>1. \A m \in Nat : /\ CeilingSet(k, m) \in ControllerRecords
                         /\ CeilingSet(k, m).capacity = k.capacity
                         /\ CeilingSet(k, m).rate = Least(k.rate, m)
      BY <2>1, <2>4, FeedbackMoves
    <3> QED
      BY <1>2, <2>4, <3>1
  <2> QED
    BY <2>2, <2>3, <2>5
<1>4. Floored(controller.rate) /\ controller.rate \in Nat
  BY <1>2, <1>3, Constants DEF Floored, Least, Most
<1>5. controller.rate <= Most(MinRate, Most(tier.ceiling, tier.rate))
  BY <1>2, <1>3, Constants DEF Least, Most
<1>6. RateInRange
  BY <1>1, <1>4, <1>5 DEF RateInRange, Floored, Init
<1>7. 2 * controller.rate \in Nat
  BY <1>4
<1>8. TypeOK
  <2>1. /\ controller \in ControllerRecords /\ controller.capacity <= LargestBurst
        /\ ceiling \in Ceilings /\ hurt \in Nat
    BY <1>2, <1>3, <1>7, Constants DEF Init
  <2>2. /\ calibrated \in BOOLEAN /\ policy \in Rules \cup {NoPolicy}
        /\ sender \in [Senders -> SenderStates] /\ sleep \in [Senders -> Nat]
        /\ allowance \in Int /\ clean \in 0..CleanBound
    <3>1. sender \in [Senders -> SenderStates] /\ sleep \in [Senders -> Nat]
      BY DEF Init, SenderStates
    <3>2. calibrated \in BOOLEAN /\ policy \in Rules \cup {NoPolicy} /\ allowance \in Int
      BY TopIsHighest DEF Init
    <3>3. clean \in 0..CleanBound
      BY Constants DEF Init
    <3> QED
      BY <3>1, <3>2, <3>3
  <2> QED
    BY <2>1, <2>2 DEF TypeOK
<1> QED
  BY <1>6, <1>8 DEF IInv

\* What a step has to keep of the controller and the host.
HostKept ==
    /\ controller \in ControllerRecords /\ controller.capacity <= LargestBurst
    /\ ceiling \in Ceilings /\ policy \in Rules \cup {NoPolicy} /\ calibrated \in BOOLEAN
    /\ Floored(controller.rate) /\ Capped(controller.rate, ceiling, policy)

\* The rest of a step: where the senders are, and the histories.
LEMMA RestKept ==
    ASSUME IInv, HostKept', sender' \in [Senders -> SenderStates], sleep' \in [Senders -> Nat],
           allowance' \in Int, hurt' \in Nat, clean' \in 0..CleanBound
    PROVE  IInv'
BY DEF HostKept, IInv, TypeOK, RateInRange, Floored, Capped

\* A step that leaves the ceiling and the policy alone keeps the range when it moves the
\* rate nowhere, down to the ceiling or half of it, or up to the ceiling.
LEMMA HostStays ==
    ASSUME IInv, UNCHANGED <<ceiling, policy>>, calibrated' \in BOOLEAN,
           controller' \in ControllerRecords, controller'.capacity = controller.capacity,
           controller'.rate \in {controller.rate, Most(MinRate, controller.rate \div 2),
                                 Least(controller.rate, ceiling),
                                 Least(ceiling, controller.rate + AdditiveStep)}
    PROVE  HostKept'
<1>1. /\ controller.rate \in Nat /\ ceiling \in Nat /\ ceiling \in Rates /\ ceiling \in Ceilings
      /\ Floored(controller.rate) /\ Capped(controller.rate, ceiling, policy)
      /\ controller.capacity <= LargestBurst /\ policy \in Rules \cup {NoPolicy}
  BY ControllerNow DEF IInv, TypeOK
<1>2. Least(controller.rate, ceiling) \in Nat /\ Least(controller.rate, ceiling) <= controller.rate
  BY <1>1 DEF Least
<1>3. /\ Least(ceiling, controller.rate + AdditiveStep) \in Nat
      /\ Least(ceiling, controller.rate + AdditiveStep) <= ceiling
      /\ \/ Least(ceiling, controller.rate + AdditiveStep) = ceiling
         \/ controller.rate <= Least(ceiling, controller.rate + AdditiveStep)
  BY <1>1, AimdConfigAssumption DEF Least
<1>4. Floored(controller'.rate)
  BY <1>1, <1>3, FloorsStay
<1>5. Capped(controller'.rate, ceiling, policy)
  BY <1>1, <1>2, <1>3, CapsStay
<1> QED
  BY <1>1, <1>4, <1>5 DEF HostKept

\* The inference of a tier, where there is no policy.
LEMMA InferenceKeeps ==
    ASSUME IInv, NEW tier \in TierLimits, controller' = Inferred(controller, tier),
           ceiling' = tier.ceiling, calibrated' = TRUE, policy = NoPolicy, policy' = policy
    PROVE  /\ HostKept' /\ controller'.capacity = controller.capacity
           /\ controller'.tokens = controller.tokens
           /\ controller'.unrefilled = controller.unrefilled
           /\ controller'.streak = controller.streak
<1> DEFINE capped == Least(controller.rate, tier.ceiling)
           rate == (capped + tier.rate) \div 2
<1>1. /\ controller \in ControllerRecords /\ controller.rate \in Nat
      /\ controller.capacity <= LargestBurst /\ Floored(controller.rate)
      /\ tier.rate \in Nat /\ tier.ceiling \in Nat /\ MinRate \in Nat
      /\ tier.rate \in Rates /\ tier.ceiling \in Rates /\ tier.ceiling \in Ceilings
  BY ControllerNow, Constants
<1>2. capped \in Nat /\ capped <= tier.ceiling /\ Floored(capped)
  BY <1>1, FloorsStay DEF Least
<1>3. CeilingSet(controller, tier.ceiling) = [controller EXCEPT !.rate = capped]
  BY DEF CeilingSet
<1> HIDE DEF capped
<1>4. controller' = [controller EXCEPT !.rate = rate]
  BY <1>1, <1>2, <1>3 DEF Inferred, ControllerRecords
<1>5. rate \in Nat /\ rate <= Most(MinRate, Most(tier.ceiling, tier.rate))
  BY <1>1, <1>2, BucketArithmetic DEF Most
<1>6. Floored(rate)
  BY <1>1, <1>2, FloorsStay
<1> HIDE DEF rate
<1>7. /\ controller' \in ControllerRecords /\ controller'.rate = rate
      /\ controller'.capacity = controller.capacity /\ controller'.tokens = controller.tokens
      /\ controller'.unrefilled = controller.unrefilled
      /\ controller'.streak = controller.streak
  BY <1>1, <1>4, <1>5 DEF ControllerRecords
<1>8. Capped(controller'.rate, ceiling', policy')
  BY <1>5, <1>7 DEF Capped
<1> QED
  BY <1>1, <1>6, <1>7, <1>8 DEF HostKept

\* A policy that is applied.
LEMMA PolicyKeeps ==
    ASSUME IInv, NEW rule \in Rules, NEW m \in Ceilings, ApplyPolicy(rule, m)
    PROVE  /\ HostKept' /\ controller'.tokens = controller.tokens
           /\ controller'.unrefilled = controller.unrefilled
           /\ controller'.streak = controller.streak
           /\ calibrated => controller'.rate <= controller.rate
<1> DEFINE given == IF calibrated THEN Least(controller.rate, rule.rate) ELSE rule.rate
           rate == Least(given, m)
           burst == IF rule.burst = 0 THEN controller.capacity ELSE rule.burst
<1>1. /\ controller \in ControllerRecords /\ controller.rate \in Nat
      /\ controller.capacity \in Nat \ {0} /\ controller.capacity <= LargestBurst
      /\ Floored(controller.rate) /\ LargestBurst \in Nat
      /\ rule.rate \in Nat /\ rule.rate \in Rates /\ rule.burst \in 0..LargestBurst
      /\ m \in Nat /\ m \in Rates /\ MinRate \in Nat /\ calibrated \in BOOLEAN
  BY ControllerNow, Constants DEF IInv, TypeOK, ControllerRecords
<1>2. given \in Nat /\ Floored(given) /\ (calibrated => given <= controller.rate)
  BY <1>1, FloorsStay DEF Least
<1> HIDE DEF given
<1>3. rate \in Nat /\ Floored(rate) /\ rate <= given /\ rate <= m
  BY <1>1, <1>2, FloorsStay DEF Least
<1>4. burst \in Nat \ {0} /\ burst <= LargestBurst
  BY <1>1
<1>5. controller' = CeilingSet([controller EXCEPT !.rate = given, !.capacity = burst], m)
  BY DEF ApplyPolicy, given
<1> HIDE DEF burst
<1>6. controller' = [controller EXCEPT !.rate = rate, !.capacity = burst]
  BY <1>1, <1>2, <1>4, <1>5 DEF CeilingSet, ControllerRecords
<1> HIDE DEF rate
<1>7. /\ controller' \in ControllerRecords /\ controller'.rate = rate
      /\ controller'.capacity = burst /\ controller'.tokens = controller.tokens
      /\ controller'.unrefilled = controller.unrefilled
      /\ controller'.streak = controller.streak
  BY <1>1, <1>3, <1>4, <1>6 DEF ControllerRecords
<1>8. ceiling' = m /\ policy' = rule /\ calibrated' = calibrated /\ rule # NoPolicy
  BY Constants DEF ApplyPolicy
<1>9. Capped(controller'.rate, ceiling', policy')
  BY <1>1, <1>3, <1>7, <1>8 DEF Capped, Most
<1> QED
  BY <1>1, <1>2, <1>3, <1>4, <1>7, <1>8, <1>9 DEF HostKept

\* Another ceiling of the policy, or the same again.
LEMMA RefreshKeeps ==
    ASSUME IInv, NEW m \in Ceilings, Refresh(m)
    PROVE  HostKept'
<1>1. /\ controller \in ControllerRecords /\ controller.rate \in Nat
      /\ controller.capacity <= LargestBurst
      /\ Floored(controller.rate) /\ Capped(controller.rate, ceiling, policy)
      /\ m \in Nat /\ m \in Rates /\ MinRate \in Nat
      /\ calibrated \in BOOLEAN /\ policy \in Rules \cup {NoPolicy}
  BY ControllerNow, Constants DEF IInv, TypeOK
<1>2. /\ controller' = CeilingSet(controller, m) /\ ceiling' = m
      /\ UNCHANGED <<calibrated, policy>> /\ (policy = NoPolicy => m = ceiling)
  BY DEF Refresh, host
<1>3. /\ controller' \in ControllerRecords /\ controller'.rate = Least(controller.rate, m)
      /\ controller'.capacity = controller.capacity
  BY <1>1, <1>2, FeedbackMoves
<1>4. Least(controller.rate, m) \in Nat /\ Least(controller.rate, m) <= controller.rate
      /\ Least(controller.rate, m) <= m
  BY <1>1 DEF Least
<1>5. Floored(controller'.rate)
  BY <1>1, <1>3, FloorsStay
<1>6. Capped(controller'.rate, ceiling', policy')
  <2>1. CASE policy = NoPolicy
    BY <1>1, <1>2, <1>3, <1>4, <2>1, CapsStay
  <2>2. CASE policy # NoPolicy
    BY <1>1, <1>2, <1>3, <1>4, <2>2 DEF Capped, Most
  <2> QED
    BY <2>1, <2>2
<1> QED
  BY <1>1, <1>2, <1>3, <1>5, <1>6 DEF HostKept

\* Every step keeps the rate in its range, and every variable of its type.
LEMMA StepKeeps == IInv /\ [Next]_vars => IInv'
<1> SUFFICES ASSUME IInv, [Next]_vars
             PROVE  IInv'
  OBVIOUS
<1>1. /\ controller \in ControllerRecords /\ controller.rate \in Nat /\ controller.rate # 0
      /\ ceiling \in Nat
  BY ControllerNow
<1>2. /\ sender \in [Senders -> SenderStates] /\ sleep \in [Senders -> Nat]
      /\ allowance \in Int /\ hurt \in Nat /\ clean \in 0..CleanBound /\ calibrated \in BOOLEAN
  BY DEF IInv, TypeOK
<1>3. ASSUME controller' \in {Refilled(controller), Consumed(controller),
                              ControllerTick(controller), controller},
             UNCHANGED <<ceiling, policy, calibrated>>
      PROVE  HostKept'
  <2>1. controller' \in ControllerRecords /\ controller'.rate = controller.rate
    BY <1>1, <1>3, BucketKeepsRate
  <2>2. controller'.capacity = controller.capacity
    BY <1>1, <1>3 DEF Refilled, Consumed, ControllerTick, ControllerRecords
  <2> QED
    BY <1>2, <1>3, <2>1, <2>2, HostStays
<1>4. CASE Tick
  <2>1. Least(AllowanceCap, allowance + Lanes * TopRate) \in Int
    BY <1>2, TopIsHighest DEF Least
  <2>2. [s \in Senders |-> Most(0, sleep[s] - 1)] \in [Senders -> Nat]
    BY <1>2 DEF Most
  <2> QED
    BY <1>2, <1>3, <1>4, <2>1, <2>2, RestKept DEF Tick, host
<1>5. ASSUME NEW s \in Senders, WaitTime(s)
      PROVE  IInv'
  <2>1. WaitSeconds(Refilled(controller)) \in Nat
    BY <1>1, BucketKeepsRate
  <2> QED
    BY <1>2, <1>3, <1>5, <2>1, RestKept DEF WaitTime, host, histories, SenderStates
<1>6. ASSUME NEW s \in Senders, Consume(s)
      PROVE  IInv'
  <2>1. allowance - Unit \in Int
    BY <1>2, Constants
  <2> QED
    BY <1>2, <1>3, <1>6, <2>1, RestKept DEF Consume, host, SenderStates
<1>7. ASSUME NEW s \in Senders, Leave(s)
      PROVE  IInv'
  BY <1>2, <1>3, <1>7, RestKept DEF Leave, host, histories, SenderStates
<1>8. ASSUME NEW s \in Senders, First(s)
      PROVE  IInv'
  BY <1>2, <1>3, <1>8, RestKept DEF First, host, histories, SenderStates
<1>9. \A n \in Nat : Least(n, CleanBound) \in 0..CleanBound /\ 0 \in 0..CleanBound
  BY Constants DEF Least
<1>10. ASSUME HostKept', Restarts
       PROVE  hurt' \in Nat /\ clean' \in 0..CleanBound
  <2>1. controller'.rate \in Nat /\ controller.streak \in Nat
    BY <1>1, <1>10 DEF HostKept, ControllerRecords
  <2> QED
    BY <1>9, <1>10, <2>1 DEF Restarts
<1>11. ASSUME NEW s \in Senders, NEW tier \in TierLimits, Infer(s, tier)
       PROVE  IInv'
  <2>1. /\ calibrated' = TRUE /\ UNCHANGED <<policy, sleep, allowance>>
        /\ sender' = [sender EXCEPT ![s] = "answered"]
    BY <1>11 DEF Infer
  <2>2. sender' \in [Senders -> SenderStates]
    BY <1>2, <2>1 DEF SenderStates
  <2>3. CASE policy = NoPolicy
    <3>1. ceiling' = tier.ceiling /\ controller' = Inferred(controller, tier) /\ Restarts
      BY <1>11, <2>3 DEF Infer
    <3>2. HostKept'
      BY <2>1, <2>3, <3>1, InferenceKeeps
    <3> QED
      BY <1>2, <1>10, <2>1, <2>2, <3>1, <3>2, RestKept
  <2>4. CASE policy # NoPolicy
    <3>1. UNCHANGED <<ceiling, controller, hurt, clean>>
      BY <1>11, <2>4 DEF Infer
    <3>2. HostKept'
      BY <1>1, <2>1, <3>1, HostStays
    <3> QED
      BY <1>2, <2>1, <2>2, <3>1, <3>2, RestKept
  <2> QED
    BY <2>3, <2>4
<1>12. ASSUME NEW s \in Senders, NEW degraded \in BOOLEAN, Success(s, degraded)
       PROVE  IInv'
  <2>1. /\ controller' \in ControllerRecords /\ controller'.capacity = controller.capacity
        /\ controller'.rate \in {Most(MinRate, controller.rate \div 2), controller.rate,
                                 Least(ceiling, controller.rate + AdditiveStep)}
    BY <1>1, <1>12, FeedbackMoves DEF Success
  <2>2. HostKept'
    BY <1>2, <1>12, <2>1, HostStays DEF Success, host
  <2>3. hurt' \in Nat /\ clean' \in 0..CleanBound
    BY <1>1, <1>2, <1>9, <1>12 DEF Success, Decreases, Clean
  <2> QED
    BY <1>2, <1>12, <2>2, <2>3, RestKept DEF Success, SenderStates
<1>13. ASSUME NEW s \in Senders, Failure(s)
       PROVE  IInv'
  <2>1. /\ controller' \in ControllerRecords /\ controller'.capacity = controller.capacity
        /\ controller'.rate = Most(MinRate, controller.rate \div 2)
    BY <1>1, <1>13, FeedbackMoves DEF Failure, ControllerFailure
  <2>2. HostKept'
    BY <1>2, <1>13, <2>1, HostStays DEF Failure, host
  <2> QED
    BY <1>1, <1>2, <1>9, <1>13, <2>2, RestKept DEF Failure, Decreases, SenderStates
<1>14. ASSUME NEW m \in Ceilings, NEW rule \in Rules, ApplyPolicy(rule, m)
       PROVE  IInv'
  <2>1. HostKept'
    BY <1>14, PolicyKeeps
  <2>2. hurt' \in Nat /\ clean' \in 0..CleanBound
    BY <1>2, <1>10, <1>14, <2>1 DEF ApplyPolicy
  <2> QED
    BY <1>2, <1>14, <2>1, <2>2, RestKept DEF ApplyPolicy
<1>15. ASSUME NEW m \in Ceilings, Refresh(m)
       PROVE  IInv'
  BY <1>2, <1>15, RefreshKeeps, RestKept DEF Refresh, histories
<1>16. CASE UNCHANGED vars
  BY <1>2, <1>3, <1>16, RestKept DEF vars
<1> QED
  BY <1>4, <1>5, <1>6, <1>7, <1>8, <1>11, <1>12, <1>13, <1>14, <1>15, <1>16 DEF Next

(* Type correctness, and with it that no wait_time() divides by zero.       *)
THEOREM TypeCorrect == Spec => []TypeOK
<1>1. IInv => TypeOK
  BY DEF IInv
<1> QED
  BY <1>1, InitKeeps, StepKeeps, PTL DEF Spec

(* The rate never leaves the range that the config and the policy allow,    *)
(* for every mixture of feedback, inferences, policies and windows: see     *)
(* RateInRange.                                                             *)
THEOREM RateStaysInRange == Spec => []RateInRange
<1>1. IInv => RateInRange
  BY DEF IInv
<1> QED
  BY <1>1, InitKeeps, StepKeeps, PTL DEF Spec

-----------------------------------------------------------------------------
(* The recovery *)

\* Most(MinRate, hurt \div 2) and q steps over it.
Envelope(q) == Most(MinRate, hurt \div 2) + AdditiveStep * q

(* The inductive invariant: the responses since the last decrease are full  *)
(* streaks and the one that the controller counts, and each full one gave   *)
(* a step.                                                                  *)
StepsKnown ==
    clean < CleanBound =>
        \E q \in Nat : /\ clean = SuccessStreak * q + controller.streak
                       /\ controller.rate <= Envelope(q)

\* Full streaks and what is over, by multiplication and by division.
LEMMA StreakArithmetic ==
    ASSUME NEW q \in Nat, NEW over \in 0..(SuccessStreak - 1)
    PROVE  (SuccessStreak * q + over) \div SuccessStreak = q
<1> DEFINE n == SuccessStreak * q + over
           d == n \div SuccessStreak
<1>1. n \in Nat /\ d \in Nat
  BY AimdConfigAssumption
<1>2. SuccessStreak * d <= n /\ n < SuccessStreak * d + SuccessStreak
  BY AimdConfigAssumption
<1>3. \A a, b \in Nat : a < b => SuccessStreak * a + SuccessStreak <= SuccessStreak * b
  <2> SUFFICES ASSUME NEW a \in Nat, NEW b \in Nat, a < b
               PROVE  SuccessStreak * a + SuccessStreak <= SuccessStreak * b
    OBVIOUS
  <2>1. PICK c \in Nat : b = a + 1 + c
    <3>1. b - a - 1 \in Nat /\ b = a + 1 + (b - a - 1)
      OBVIOUS
    <3> QED
      BY <3>1
  <2>2. SuccessStreak * (a + 1 + c) = SuccessStreak * a + SuccessStreak + SuccessStreak * c
    BY AimdConfigAssumption
  <2>3. SuccessStreak * c \in Nat /\ SuccessStreak * a \in Nat
    BY AimdConfigAssumption
  <2> QED
    BY <2>1, <2>2, <2>3, AimdConfigAssumption
<1>4. SuccessStreak * q \in Nat /\ SuccessStreak * d \in Nat
  BY <1>1, AimdConfigAssumption
<1>5. ~(q < d)
  BY <1>1, <1>2, <1>3, <1>4, AimdConfigAssumption
<1>6. ~(d < q)
  BY <1>1, <1>2, <1>3, <1>4, AimdConfigAssumption
<1> QED
  BY <1>1, <1>5, <1>6

\* One streak more is one step more.
LEMMA OneMore ==
    ASSUME NEW q \in Nat
    PROVE  /\ SuccessStreak * (q + 1) = SuccessStreak * q + SuccessStreak
           /\ AdditiveStep * (q + 1) = AdditiveStep * q + AdditiveStep
           /\ SuccessStreak * q \in Nat /\ AdditiveStep * q \in Nat
           /\ SuccessStreak * 0 = 0 /\ AdditiveStep * 0 = 0
BY AimdConfigAssumption

\* A response that finds trouble begins the count again.
LEMMA DecreaseBegins ==
    ASSUME IInv, controller' = Decreased(controller), Decreases
    PROVE  StepsKnown'
<1>1. /\ controller'.streak = 0
      /\ controller'.rate = Most(MinRate, controller.rate \div 2)
      /\ hurt' = controller.rate /\ clean' = 0
  BY DEF Decreased, Decreases, IInv, TypeOK, ControllerRecords
<1>2. Most(MinRate, controller.rate \div 2) \in Nat
  BY BucketArithmetic, AimdConfigAssumption DEF Most, IInv, TypeOK, ControllerRecords
<1>3. Envelope(0)' = Most(MinRate, controller.rate \div 2)
  BY <1>1, <1>2, OneMore DEF Envelope
<1>4. clean' = SuccessStreak * 0 + controller'.streak /\ controller'.rate <= Envelope(0)'
  BY <1>1, <1>2, <1>3, OneMore
<1> QED
  BY <1>4 DEF StepsKnown, Envelope

\* A clean response is one more, and a full streak gives a step.
LEMMA CleanCounts ==
    ASSUME IInv, StepsKnown, NEW degraded \in BOOLEAN, ~(degraded /\ controller.baseline),
           controller' = ControllerSuccess(controller, ceiling, degraded), Clean
    PROVE  StepsKnown'
<1> SUFFICES ASSUME clean' < CleanBound
             PROVE  \E q \in Nat : /\ clean' = SuccessStreak * q + controller'.streak
                                   /\ controller'.rate <= Envelope(q)'
  BY DEF StepsKnown, Envelope
<1> DEFINE base == Most(MinRate, hurt \div 2)
<1>1. /\ controller.rate \in Nat /\ controller.streak \in 0..(SuccessStreak - 1)
      /\ ceiling \in Nat /\ clean \in Nat /\ hurt \in Nat /\ AdditiveStep \in Nat
      /\ SuccessStreak \in Nat \ {0}
  BY Constants, AimdConfigAssumption DEF IInv, TypeOK, ControllerRecords
<1>2. base \in Nat
  BY <1>1, BucketArithmetic, AimdConfigAssumption DEF Most
<1>3. clean' = clean + 1 /\ clean < CleanBound /\ hurt' = hurt
  BY <1>1, Constants DEF Clean, Least
<1>4. PICK q \in Nat : clean = SuccessStreak * q + controller.streak
                       /\ controller.rate <= Envelope(q)
  BY <1>3 DEF StepsKnown
<1>5. \A n : Envelope(n)' = base + AdditiveStep * n /\ Envelope(n) = base + AdditiveStep * n
  BY <1>3 DEF Envelope
<1> HIDE DEF base
<1>6. CASE controller.streak + 1 >= SuccessStreak
  <2>1. controller'.streak = 0 /\ controller'.rate <= controller.rate + AdditiveStep
    BY <1>1, <1>6 DEF ControllerSuccess, Least, IInv, TypeOK, ControllerRecords
  <2>2. clean' = SuccessStreak * (q + 1) + controller'.streak
    BY <1>1, <1>3, <1>4, <1>6, <2>1, OneMore
  <2>3. controller'.rate \in Nat
    BY <1>1, <1>6 DEF ControllerSuccess, Least, IInv, TypeOK, ControllerRecords
  <2>4. controller'.rate <= Envelope(q + 1)'
    BY <1>1, <1>2, <1>4, <1>5, <2>1, <2>3, OneMore
  <2> QED
    BY <2>2, <2>4
<1>7. CASE ~(controller.streak + 1 >= SuccessStreak)
  <2>1. controller'.streak = controller.streak + 1 /\ controller'.rate = controller.rate
    BY <1>1, <1>7 DEF ControllerSuccess, IInv, TypeOK, ControllerRecords
  <2>2. clean' = SuccessStreak * q + controller'.streak /\ controller'.rate <= Envelope(q)'
    BY <1>1, <1>3, <1>4, <1>5, <2>1, OneMore
  <2> QED
    BY <2>2
<1> QED
  BY <1>6, <1>7

\* A rate the host is given begins it again, with the streak there is.
LEMMA GivenRateBegins ==
    ASSUME IInv, controller' \in ControllerRecords, controller'.streak = controller.streak,
           Restarts
    PROVE  StepsKnown'
<1> SUFFICES ASSUME clean' < CleanBound
             PROVE  \E q \in Nat : /\ clean' = SuccessStreak * q + controller'.streak
                                   /\ controller'.rate <= Envelope(q)'
  BY DEF StepsKnown, Envelope
<1>1. /\ controller'.rate \in Nat /\ controller.streak \in Nat /\ CleanBound \in Nat
      /\ MinRate \in Nat /\ AdditiveStep \in Nat
  BY Constants, AimdConfigAssumption, ControllerNow DEF ControllerRecords
<1>2. hurt' = 2 * controller'.rate /\ clean' = Least(controller.streak, CleanBound)
  BY DEF Restarts
<1>3. clean' = controller.streak
  BY <1>1, <1>2 DEF Least
<1>4. hurt' \div 2 = controller'.rate
  BY <1>1, <1>2
<1>5. Envelope(0)' = Most(MinRate, controller'.rate)
  BY <1>1, <1>4, OneMore DEF Envelope, Most
<1>6. clean' = SuccessStreak * 0 + controller'.streak /\ controller'.rate <= Envelope(0)'
  BY <1>1, <1>3, <1>5, OneMore DEF Most
<1> QED
  BY <1>6

\* Every step keeps the count, and the rate under its envelope.
LEMMA StepKeepsEnvelope == IInv /\ IInv' /\ StepsKnown /\ [Next]_vars => StepsKnown'
<1> SUFFICES ASSUME IInv, IInv', StepsKnown, [Next]_vars
             PROVE  StepsKnown'
  OBVIOUS
<1>1. /\ controller \in ControllerRecords /\ controller.rate \in Nat /\ ceiling \in Nat
      /\ controller' \in ControllerRecords /\ controller'.rate \in Nat
  BY ControllerNow DEF IInv, TypeOK, ControllerRecords
<1>2. ASSUME UNCHANGED <<hurt, clean>>, controller'.streak = controller.streak,
             controller'.rate <= controller.rate
      PROVE  StepsKnown'
  <2>1. \A q \in Nat : Envelope(q)' = Envelope(q) /\ Envelope(q) \in Nat
    BY <1>2, OneMore, BucketArithmetic, AimdConfigAssumption DEF Envelope, Most, IInv, TypeOK
  <2>2. \A q \in Nat : controller.rate <= Envelope(q) => controller'.rate <= Envelope(q)'
    BY <1>1, <1>2, <2>1
  <2> QED
    BY <1>2, <2>2 DEF StepsKnown, Envelope
<1>3. /\ Refilled(controller).streak = controller.streak
      /\ Consumed(controller).streak = controller.streak
      /\ ControllerTick(controller).streak = controller.streak
  BY <1>1 DEF Refilled, Consumed, ControllerTick, ControllerRecords
<1>4. CASE Tick
  BY <1>1, <1>2, <1>3, <1>4, BucketKeepsRate DEF Tick
<1>5. ASSUME NEW s \in Senders, WaitTime(s)
      PROVE  StepsKnown'
  BY <1>1, <1>2, <1>3, <1>5, BucketKeepsRate DEF WaitTime, histories
<1>6. ASSUME NEW s \in Senders, Consume(s)
      PROVE  StepsKnown'
  BY <1>1, <1>2, <1>3, <1>6, BucketKeepsRate DEF Consume
<1>7. ASSUME NEW s \in Senders, NEW degraded \in BOOLEAN, Success(s, degraded)
      PROVE  StepsKnown'
  <2>1. CASE degraded /\ controller.baseline
    BY <1>7, <2>1, DecreaseBegins DEF Success, ControllerSuccess
  <2>2. CASE ~(degraded /\ controller.baseline)
    BY <1>7, <2>2, CleanCounts DEF Success
  <2> QED
    BY <2>1, <2>2
<1>8. ASSUME NEW s \in Senders, Failure(s)
      PROVE  StepsKnown'
  BY <1>8, DecreaseBegins DEF Failure, ControllerFailure
<1>9. ASSUME NEW m \in Ceilings, Refresh(m)
      PROVE  StepsKnown'
  <2>1. /\ controller'.streak = controller.streak /\ controller'.rate = Least(controller.rate, m)
        /\ UNCHANGED <<hurt, clean>> /\ m \in Nat
    BY <1>1, <1>9, Constants, FeedbackMoves DEF Refresh, histories
  <2>2. controller'.rate <= controller.rate
    BY <1>1, <2>1 DEF Least
  <2> QED
    BY <1>2, <2>1, <2>2
<1>10. ASSUME NEW m \in Ceilings, NEW rule \in Rules, ApplyPolicy(rule, m)
       PROVE  StepsKnown'
  <2>1. controller'.streak = controller.streak
        /\ (calibrated => controller'.rate <= controller.rate)
    BY <1>10, PolicyKeeps
  <2>2. CASE calibrated
    BY <1>2, <1>10, <2>1, <2>2 DEF ApplyPolicy
  <2>3. CASE ~calibrated
    BY <1>1, <1>10, <2>1, <2>3, GivenRateBegins DEF ApplyPolicy
  <2> QED
    BY <2>2, <2>3
<1>11. ASSUME NEW s \in Senders, NEW tier \in TierLimits, Infer(s, tier)
       PROVE  StepsKnown'
  <2>1. CASE policy = NoPolicy
    <3>1. controller'.streak = controller.streak
      BY <1>11, <2>1, InferenceKeeps DEF Infer
    <3> QED
      BY <1>1, <1>11, <2>1, <3>1, GivenRateBegins DEF Infer
  <2>2. CASE policy # NoPolicy
    BY <1>1, <1>2, <1>11, <2>2 DEF Infer
  <2> QED
    BY <2>1, <2>2
<1>12. CASE (\E s \in Senders : Leave(s) \/ First(s)) \/ UNCHANGED vars
  BY <1>1, <1>2, <1>12 DEF Leave, First, histories, vars
<1> QED
  BY <1>4, <1>5, <1>6, <1>7, <1>8, <1>9, <1>10, <1>11, <1>12 DEF Next

(* However the feedback of concurrent requests interleaves, the rate gains  *)
(* one step for each full streak over half of what the last trouble found,  *)
(* or over the rate that the first response or a policy before it gave:     *)
(* see RecoveryEnvelope.                                                    *)
THEOREM RecoveryIsSlow == Spec => []RecoveryEnvelope
<1>1. Init => StepsKnown
  <2> SUFFICES ASSUME Init PROVE StepsKnown
    OBVIOUS
  <2>1. controller.rate \in Nat /\ controller.streak = 0
    BY InitKeeps, ControllerNow DEF Init, InitController, CeilingSet
  <2>2. hurt = 2 * controller.rate /\ clean = 0
    BY DEF Init
  <2>3. hurt \div 2 = controller.rate
    BY <2>1, <2>2
  <2>4. controller.rate <= Envelope(0)
    BY <2>1, <2>3, OneMore, AimdConfigAssumption DEF Envelope, Most
  <2>5. clean = SuccessStreak * 0 + controller.streak
    BY <2>1, <2>2, OneMore
  <2> QED
    BY <2>4, <2>5 DEF StepsKnown
<1>2. IInv /\ StepsKnown => RecoveryEnvelope
  <2> SUFFICES ASSUME IInv, StepsKnown, clean < CleanBound
               PROVE  controller.rate
                        <= Most(MinRate, hurt \div 2) + AdditiveStep * (clean \div SuccessStreak)
    BY DEF RecoveryEnvelope
  <2>1. PICK q \in Nat : /\ clean = SuccessStreak * q + controller.streak
                         /\ controller.rate <= Envelope(q)
    BY DEF StepsKnown
  <2>2. clean \div SuccessStreak = q
    BY <2>1, StreakArithmetic DEF IInv, TypeOK, ControllerRecords
  <2> QED
    BY <2>1, <2>2 DEF Envelope
<1> QED
  BY <1>1, <1>2, InitKeeps, StepKeeps, StepKeepsEnvelope, PTL DEF Spec

-----------------------------------------------------------------------------
(* The pacing *)

(* The bucket of the code is one for all; what Paced promises grows by one  *)
(* lane for each sender.  A sender that goes to sleep for a token owes it   *)
(* the credit that its own lane gathers while it sleeps; the rest is in the *)
(* bucket now, where the others may count on the same credit.  So a sender  *)
(* can claim what is in the bucket, up to a token, or what it will have     *)
(* slept for, and the allowance covers the claims of all and what is in the *)
(* bucket beyond a token.  The sum of the claims is written with the        *)
(* partial sums of some order of the senders.                               *)

Count == Cardinality(Senders)
Order == CHOOSE e \in [1..Count -> Senders] : \A s \in Senders : \E j \in 1..Count : e[j] = s

\* What the bucket holds at most, had the rate been the highest since its last refill and
\* the bucket the largest
Credit(k) == Least(LargestBurst * Unit, k.tokens + k.unrefilled * TopRate)

\* What a sender that sleeps as long, or does not, can claim of the allowance
Slept(state, seconds) == IF state = "asleep" THEN Unit - seconds * TopRate ELSE 0
Claim(state, seconds, credit) == Most(Slept(state, seconds), Least(credit, Unit))

\* x are partial sums of the claims c
SumsUp(x, c) ==
    /\ x \in [0..Count -> Int] /\ x[0] = 0
    /\ \A j \in 1..Count : x[j] >= x[j - 1] + c[j]
    /\ \A i, j \in 0..Count : i <= j => x[i] <= x[j]

\* The claims, and what is in the bucket beyond a token, come to no more than a
Covered(c, credit, a) == \E x : SumsUp(x, c) /\ a >= x[Count] + Most(0, credit - Unit)

\* The claims of senders that are in these states and have as long to sleep
ClaimsOf(k, states, seconds) ==
    [j \in 1..Count |-> Claim(states[Order[j]], seconds[Order[j]], Credit(k))]

Claims == ClaimsOf(controller, sender, sleep)

LInv == Covered(Claims, Credit(controller), allowance)

\* Senders can be put in an order.
LEMMA OrderOfSenders ==
    /\ Count \in Nat
    /\ Order \in [1..Count -> Senders] /\ \A s \in Senders : \E j \in 1..Count : Order[j] = s
    /\ TopRate \in Nat \ {0}
<1>1. Count \in Nat /\ ExistsBijection(1..Count, Senders)
  BY RateAssumption, FS_CardinalityType DEF Count
<1>2. \E e \in [1..Count -> Senders] : \A s \in Senders : \E j \in 1..Count : e[j] = s
  BY <1>1 DEF ExistsBijection, Bijection, Surjection
<1>3. /\ Order \in [1..Count -> Senders]
      /\ \A s \in Senders : \E j \in 1..Count : Order[j] = s
  BY <1>2 DEF Order
<1> QED
  BY <1>1, <1>3, TopIsHighest

\* Claims of at most a token each come to at most Count tokens.
LEMMA FullCover ==
    ASSUME NEW c, \A j \in 1..Count : c[j] \in Int /\ c[j] <= Unit,
           NEW credit \in Int, NEW a \in Int, a >= Count * Unit + Most(0, credit - Unit)
    PROVE  Covered(c, credit, a)
<1> DEFINE x == [j \in 0..Count |-> j * Unit]
<1>1. Count \in Nat /\ Unit \in Nat
  BY OrderOfSenders, AimdConfigAssumption
<1>2. \A i, j \in Nat : i * Unit \in Int /\ (i <= j => i * Unit <= j * Unit)
  <2> SUFFICES ASSUME NEW i \in Nat, NEW j \in Nat
               PROVE  i * Unit \in Int /\ (i <= j => i * Unit <= j * Unit)
    OBVIOUS
  <2>1. ASSUME i <= j PROVE i * Unit <= j * Unit
    <3>1. (j - i) * Unit >= 0 /\ j * Unit = i * Unit + (j - i) * Unit
      BY <1>1, <2>1
    <3>2. i * Unit \in Int /\ (j - i) * Unit \in Int
      BY <1>1
    <3> QED
      BY <3>1, <3>2
  <2> QED
    BY <1>1, <2>1
<1>3. \A j \in 1..Count : j * Unit = (j - 1) * Unit + Unit
  BY <1>1
<1>4. x \in [0..Count -> Int] /\ x[0] = 0 /\ x[Count] = Count * Unit
  <2>1. 0 * Unit = 0 /\ \A j \in 0..Count : j * Unit \in Int
    BY <1>1, <1>2
  <2> QED
    BY <1>1, <2>1
<1>5. \A j \in 1..Count : x[j] >= x[j - 1] + c[j]
  <2> SUFFICES ASSUME NEW j \in 1..Count PROVE x[j] >= x[j - 1] + c[j]
    OBVIOUS
  <2>1. j \in 0..Count /\ j - 1 \in 0..Count /\ j \in Nat /\ j - 1 \in Nat
    BY <1>1
  <2>2. x[j] = j * Unit /\ x[j - 1] = (j - 1) * Unit
    BY <2>1
  <2>3. x[j] \in Int /\ x[j - 1] \in Int /\ c[j] \in Int /\ c[j] <= Unit
    BY <1>4, <2>1
  <2> QED
    BY <1>1, <1>3, <2>2, <2>3
<1>6. \A i, j \in 0..Count : i <= j => x[i] <= x[j]
  BY <1>1, <1>2
<1> HIDE DEF x
<1>7. SumsUp(x, c)
  BY <1>4, <1>5, <1>6 DEF SumsUp
<1>8. a >= x[Count] + Most(0, credit - Unit)
  BY <1>4
<1> QED
  BY <1>7, <1>8 DEF Covered

\* Each claim may grow by g when the allowance does by Count times g.
LEMMA RaisedCover ==
    ASSUME NEW c, \A j \in 1..Count : c[j] \in Int, NEW credit \in Int, NEW a \in Int,
           NEW x, SumsUp(x, c),
           NEW d, NEW g \in Nat, \A j \in 1..Count : d[j] \in Int /\ d[j] <= c[j] + g,
           NEW more \in Int, NEW b \in Int,
           b >= x[Count] + Count * g + Most(0, more - Unit)
    PROVE  Covered(d, more, b)
<1> DEFINE y == [j \in 0..Count |-> x[j] + j * g]
<1>1. Count \in Nat /\ x \in [0..Count -> Int] /\ x[0] = 0
  BY OrderOfSenders DEF SumsUp
<1>2. \A i, j \in Nat : i * g \in Int /\ (i <= j => i * g <= j * g)
  <2> SUFFICES ASSUME NEW i \in Nat, NEW j \in Nat
               PROVE  i * g \in Int /\ (i <= j => i * g <= j * g)
    OBVIOUS
  <2>1. ASSUME i <= j PROVE i * g <= j * g
    <3>1. (j - i) * g >= 0 /\ j * g = i * g + (j - i) * g
      BY <2>1
    <3>2. i * g \in Int /\ (j - i) * g \in Int
      OBVIOUS
    <3> QED
      BY <3>1, <3>2
  <2> QED
    BY <2>1
<1>3. \A j \in 1..Count : j * g = (j - 1) * g + g
  BY <1>1
<1>4. y \in [0..Count -> Int] /\ y[0] = 0 /\ y[Count] = x[Count] + Count * g
  <2>1. 0 * g = 0 /\ \A j \in 0..Count : j * g \in Int /\ x[j] + j * g \in Int
    BY <1>1, <1>2
  <2> QED
    BY <1>1, <2>1
<1>5. \A j \in 1..Count : y[j] >= y[j - 1] + d[j]
  <2> SUFFICES ASSUME NEW j \in 1..Count PROVE y[j] >= y[j - 1] + d[j]
    OBVIOUS
  <2>1. j \in 0..Count /\ j - 1 \in 0..Count /\ j \in Nat /\ j - 1 \in Nat
    BY <1>1
  <2>2. y[j] = x[j] + j * g /\ y[j - 1] = x[j - 1] + (j - 1) * g
    BY <2>1
  <2>3. x[j] \in Int /\ x[j - 1] \in Int /\ j * g \in Int /\ (j - 1) * g \in Int
        /\ c[j] \in Int /\ d[j] \in Int
    BY <1>1, <1>2, <2>1
  <2>4. x[j] >= x[j - 1] + c[j] /\ d[j] <= c[j] + g /\ j * g = (j - 1) * g + g
    BY <1>3 DEF SumsUp
  <2> HIDE DEF y
  <2> QED
    BY <2>2, <2>3, <2>4
<1>6. \A i, j \in 0..Count : i <= j => y[i] <= y[j]
  <2> SUFFICES ASSUME NEW i \in 0..Count, NEW j \in 0..Count, i <= j PROVE y[i] <= y[j]
    OBVIOUS
  <2>1. x[i] <= x[j] /\ i * g <= j * g
    BY <1>1, <1>2 DEF SumsUp
  <2>2. x[i] \in Int /\ x[j] \in Int /\ i * g \in Int /\ j * g \in Int
    BY <1>1, <1>2
  <2>3. y[i] = x[i] + i * g /\ y[j] = x[j] + j * g
    OBVIOUS
  <2> HIDE DEF y
  <2> QED
    BY <2>1, <2>2, <2>3
<1> HIDE DEF y
<1>7. SumsUp(y, d)
  BY <1>4, <1>5, <1>6 DEF SumsUp
<1>8. b >= y[Count] + Most(0, more - Unit)
  BY <1>4
<1> QED
  BY <1>7, <1>8 DEF Covered

\* A token less is claimed when one of the claims was for a token and is for p now.
LEMMA PaidCover ==
    ASSUME NEW c, \A j \in 1..Count : c[j] \in Int, NEW x, SumsUp(x, c),
           NEW i \in 1..Count, c[i] = Unit, NEW p \in 0..Unit,
           NEW d, d[i] = p, \A j \in 1..Count : d[j] \in Int /\ (j # i => d[j] <= c[j]),
           NEW more \in Int, NEW b \in Int,
           b >= x[Count] - Unit + p + Most(0, more - Unit)
    PROVE  Covered(d, more, b)
<1> DEFINE y == [j \in 0..Count |-> IF j < i THEN x[j] ELSE x[j] - Unit + p]
<1>1. /\ Count \in Nat /\ Unit \in Nat /\ x \in [0..Count -> Int] /\ x[0] = 0
      /\ i \in 0..Count /\ i - 1 \in 0..Count /\ i \in Nat /\ Count \in 0..Count /\ 0 \in 0..Count
  BY OrderOfSenders, AimdConfigAssumption DEF SumsUp
<1>2. \A j \in 0..Count : y[j] = (IF j < i THEN x[j] ELSE x[j] - Unit + p) /\ x[j] \in Int
  BY <1>1
<1>3. y \in [0..Count -> Int] /\ y[0] = 0 /\ y[Count] = x[Count] - Unit + p
  <2>1. y \in [0..Count -> Int]
    BY <1>1
  <2>2. y[0] = 0 /\ y[Count] = x[Count] - Unit + p
    BY <1>1, <1>2
  <2> QED
    BY <2>1, <2>2
<1> HIDE DEF y
<1>4. \A j \in 1..Count : y[j] >= y[j - 1] + d[j]
  <2> SUFFICES ASSUME NEW j \in 1..Count PROVE y[j] >= y[j - 1] + d[j]
    OBVIOUS
  <2>1. j \in 0..Count /\ j - 1 \in 0..Count /\ j \in Int
    BY <1>1
  <2>2. x[j] >= x[j - 1] + c[j] /\ x[j] \in Int /\ x[j - 1] \in Int /\ c[j] \in Int /\ d[j] \in Int
    BY <1>2, <2>1 DEF SumsUp
  <2>3. /\ y[j] = IF j < i THEN x[j] ELSE x[j] - Unit + p
        /\ y[j - 1] = IF j - 1 < i THEN x[j - 1] ELSE x[j - 1] - Unit + p
    BY <1>2, <2>1
  <2>4. i \in Int /\ p \in Int /\ Unit \in Int
    BY <1>1
  <2>5. CASE j = i
    <3>1. y[j] = x[j] - Unit + p /\ y[j - 1] = x[j - 1] /\ c[j] = Unit /\ d[j] = p
      BY <2>1, <2>3, <2>4, <2>5
    <3> QED
      BY <2>2, <2>4, <3>1
  <2>6. CASE j # i
    <3>1. d[j] <= c[j] /\ (j < i <=> j - 1 < i)
      BY <2>1, <2>4, <2>6
    <3> QED
      BY <2>2, <2>3, <2>4, <3>1
  <2> QED
    BY <2>5, <2>6
<1>5. \A k, j \in 0..Count : k <= j => y[k] <= y[j]
  <2> SUFFICES ASSUME NEW k \in 0..Count, NEW j \in 0..Count, k <= j PROVE y[k] <= y[j]
    OBVIOUS
  <2>1. x[k] <= x[j] /\ x[k] \in Int /\ x[j] \in Int /\ x[i] \in Int /\ x[i - 1] \in Int
    BY <1>1, <1>2 DEF SumsUp
  <2>2. CASE k < i /\ ~(j < i)
    <3>1. k <= i - 1 /\ i <= j
      BY <1>1, <2>2
    <3>2. x[k] <= x[i - 1] /\ x[i] <= x[j]
      BY <1>1, <3>1 DEF SumsUp
    <3>3. x[i] >= x[i - 1] + Unit
      BY DEF SumsUp
    <3>4. y[k] = x[k] /\ y[j] = x[j] - Unit + p
      BY <1>2, <2>2
    <3> QED
      BY <1>1, <2>1, <3>2, <3>3, <3>4
  <2>3. CASE k < i /\ j < i
    <3>1. y[k] = x[k] /\ y[j] = x[j]
      BY <1>2, <2>3
    <3> QED
      BY <2>1, <3>1
  <2>4. CASE ~(k < i)
    <3>1. ~(j < i)
      BY <1>1, <2>4
    <3>2. y[k] = x[k] - Unit + p /\ y[j] = x[j] - Unit + p
      BY <1>2, <2>4, <3>1
    <3>3. Unit \in Int /\ p \in Int
      BY <1>1
    <3> QED
      BY <2>1, <3>2, <3>3
  <2> QED
    BY <2>2, <2>3, <2>4
<1>6. SumsUp(y, d)
  BY <1>3, <1>4, <1>5 DEF SumsUp
<1>7. b >= y[Count] + Most(0, more - Unit)
  BY <1>3
<1> QED
  BY <1>6, <1>7 DEF Covered

\* Products of natural numbers, as far as they are needed.
LEMMA Products ==
    /\ \A a, b, c \in Nat : a <= b => a * c <= b * c /\ c * a <= c * b
    /\ \A a, c \in Nat : (a + 1) * c = a * c + c
    /\ \A a \in Nat, c \in Nat \ {0} : a <= a * c /\ c <= (a + 1) * c
    /\ \A a \in Nat, c \in Nat \ {0} : ((a + c - 1) \div c) * c >= a
<1>1. \A a, b \in Nat : a * b \in Nat
  OBVIOUS
<1>2. \A a, b, c \in Nat : a <= b => a * c <= b * c /\ c * a <= c * b
  <2> SUFFICES ASSUME NEW a \in Nat, NEW b \in Nat, NEW c \in Nat, a <= b
               PROVE  a * c <= b * c /\ c * a <= c * b
    OBVIOUS
  <2>1. b * c = a * c + (b - a) * c /\ c * b = b * c /\ c * a = a * c
    OBVIOUS
  <2>2. b - a \in Nat
    OBVIOUS
  <2>3. (b - a) * c \in Nat /\ a * c \in Nat /\ b * c \in Nat
    BY <1>1, <2>2
  <2> QED
    BY <2>1, <2>3
<1>3. \A a, c \in Nat : (a + 1) * c = a * c + c
  OBVIOUS
<1>4. \A a \in Nat, c \in Nat \ {0} : a <= a * c /\ c <= (a + 1) * c
  <2> SUFFICES ASSUME NEW a \in Nat, NEW c \in Nat \ {0}
               PROVE  a <= a * c /\ c <= (a + 1) * c
    OBVIOUS
  <2>1. a * 1 <= a * c
    BY <1>2
  <2>2. a * 1 = a /\ a * c \in Nat
    BY <1>1
  <2> QED
    BY <1>3, <2>1, <2>2
<1>5. \A a \in Nat, c \in Nat \ {0} : ((a + c - 1) \div c) * c >= a
  <2> SUFFICES ASSUME NEW a \in Nat, NEW c \in Nat \ {0}
               PROVE  ((a + c - 1) \div c) * c >= a
    OBVIOUS
  <2> DEFINE n == a + c - 1
             q == n \div c
  <2>1. n \in Nat
    OBVIOUS
  <2>2. q \in Int /\ n < c * q + c
    <3> HIDE DEF n
    <3> QED
      BY <2>1
  <2>3. c * q \in Int /\ c * q = q * c
    BY <2>2
  <2> HIDE DEF q
  <2>4. q * c >= a
    BY <2>2, <2>3
  <2> QED
    BY <2>4 DEF q
<1> QED
  BY <1>2, <1>3, <1>4, <1>5

\* A controller that runs at a rate up to the top one, with a bucket up to the largest.
Running(k) ==
    k \in ControllerRecords /\ k.rate # 0 /\ k.rate <= TopRate /\ k.capacity <= LargestBurst

\* What a refill makes of the credit, and what is left when a token is taken.
LEMMA RefillGivesCredit ==
    ASSUME NEW k, Running(k)
    PROVE  /\ Credit(k) \in Nat /\ Credit(k) <= LargestBurst * Unit
           /\ Refilled(k).capacity <= LargestBurst /\ Credit(Refilled(k)) = Refilled(k).tokens
           /\ Refilled(k).tokens \in Nat /\ Refilled(k).tokens <= Credit(k)
           /\ Consumed(k).capacity <= LargestBurst /\ Credit(Consumed(k)) <= Most(0, Credit(k) - Unit)
           /\ Credit(Consumed(k)) \in Nat
<1> DEFINE full == LargestBurst * Unit
           fast == k.unrefilled * TopRate
           real == k.unrefilled * k.rate
           own == k.capacity * Unit
           t == Least(own, k.tokens + real)
<1>1. /\ k \in ControllerRecords /\ k.tokens \in Nat /\ k.unrefilled \in Nat /\ k.rate \in Nat
      /\ k.capacity <= LargestBurst /\ TopRate \in Nat /\ k.rate <= TopRate /\ Unit \in Nat
      /\ k.capacity \in Nat /\ LargestBurst \in Nat
  BY OrderOfSenders, AimdConfigAssumption DEF Running, ControllerRecords
<1>2. full \in Nat /\ fast \in Nat /\ real \in Nat /\ real <= fast /\ own \in Nat /\ own <= full
  BY <1>1, Constants, Products, BucketArithmetic
<1>3. Credit(k) = Least(full, k.tokens + fast)
  BY <1>1 DEF Credit
<1>4. Refilled(k) = [k EXCEPT !.tokens = t, !.unrefilled = 0]
  BY <1>1 DEF Refilled
<1>5. Consumed(k) = [k EXCEPT !.tokens = Most(0, t - Unit), !.unrefilled = 0]
  BY <1>1, <1>4 DEF Consumed, ControllerRecords
<1>6. 0 * TopRate = 0
  BY <1>1
<1> HIDE DEF full, fast, real, own, t
<1>7. /\ t \in Nat /\ t <= full /\ t <= Least(full, k.tokens + fast)
      /\ Least(full, k.tokens + fast) \in Nat
      /\ Least(full, k.tokens + fast) <= full
  BY <1>1, <1>2 DEF t, Least
<1>8. Refilled(k).capacity <= LargestBurst /\ Refilled(k).tokens = t /\ Refilled(k).unrefilled = 0
  BY <1>1, <1>4 DEF ControllerRecords
<1>9. /\ Consumed(k).capacity <= LargestBurst /\ Consumed(k).tokens = Most(0, t - Unit)
      /\ Consumed(k).unrefilled = 0
  BY <1>1, <1>5 DEF ControllerRecords
<1>10. Credit(Refilled(k)) = Least(full, t + 0 * TopRate)
  BY <1>8 DEF Credit, full
<1>11. Credit(Consumed(k)) = Least(full, Most(0, t - Unit) + 0 * TopRate)
  BY <1>9 DEF Credit, full
<1>12. Credit(Refilled(k)) = t
  BY <1>2, <1>6, <1>7, <1>10 DEF Least
<1>13. Credit(Consumed(k)) = Most(0, t - Unit)
  BY <1>1, <1>2, <1>6, <1>7, <1>11 DEF Least, Most
<1>14. Most(0, t - Unit) <= Most(0, Credit(k) - Unit) /\ Most(0, t - Unit) \in Nat
  BY <1>1, <1>3, <1>7 DEF Most
<1> QED
  BY <1>3, <1>7, <1>8, <1>9, <1>12, <1>13, <1>14 DEF full

\* A second gives as much credit as the top rate at most.
LEMMA TickGivesCredit ==
    ASSUME NEW k, Running(k)
    PROVE  /\ ControllerTick(k).capacity <= LargestBurst
           /\ Credit(ControllerTick(k)) \in Nat /\ Credit(ControllerTick(k)) <= LargestBurst * Unit
           /\ Credit(ControllerTick(k)) <= Credit(k) + TopRate
<1> DEFINE full == LargestBurst * Unit
           u == Least(k.unrefilled + 1, full)
<1>1. /\ k \in ControllerRecords /\ k.tokens \in Nat /\ k.unrefilled \in Nat
      /\ k.capacity <= LargestBurst /\ TopRate \in Nat
  BY OrderOfSenders DEF Running, ControllerRecords
<1>2. full \in Nat
  BY Constants, BucketArithmetic, AimdConfigAssumption
<1>3. ControllerTick(k) = [k EXCEPT !.unrefilled = u]
  BY <1>1 DEF ControllerTick
<1>4. Credit(k) = Least(full, k.tokens + k.unrefilled * TopRate)
  BY <1>1 DEF Credit
<1> HIDE DEF full
<1>5. u \in Nat /\ u <= k.unrefilled + 1
  BY <1>1, <1>2 DEF Least
<1> HIDE DEF u
<1>6. ControllerTick(k).capacity <= LargestBurst
      /\ Credit(ControllerTick(k)) = Least(full, k.tokens + u * TopRate)
  BY <1>1, <1>3 DEF Credit, ControllerRecords, full
<1>7. /\ u * TopRate \in Nat /\ k.unrefilled * TopRate \in Nat
      /\ u * TopRate <= k.unrefilled * TopRate + TopRate
  <2>1. u * TopRate <= (k.unrefilled + 1) * TopRate
    BY <1>1, <1>5, Products
  <2>2. (k.unrefilled + 1) * TopRate = k.unrefilled * TopRate + TopRate
    BY <1>1, Products
  <2> QED
    BY <1>1, <1>5, <2>1, <2>2, BucketArithmetic
<1> DEFINE a == u * TopRate
           b == k.unrefilled * TopRate
<1>8. /\ a \in Nat /\ b \in Nat /\ a <= b + TopRate
      /\ Credit(ControllerTick(k)) = Least(full, k.tokens + a)
      /\ Credit(k) = Least(full, k.tokens + b)
  BY <1>4, <1>6, <1>7
<1> HIDE DEF a, b
<1>9. /\ Least(full, k.tokens + a) \in Nat /\ Least(full, k.tokens + a) <= full
      /\ Least(full, k.tokens + a) <= Least(full, k.tokens + b) + TopRate
  BY <1>1, <1>2, <1>8 DEF Least
<1> QED
  BY <1>6, <1>8, <1>9 DEF full

\* Who waits as long as it is told sleeps for what is missing of a token.
LEMMA WaitGivesCredit ==
    ASSUME NEW k, Running(k)
    PROVE  /\ WaitSeconds(Refilled(k)) \in Nat
           /\ Unit - WaitSeconds(Refilled(k)) * TopRate <= Least(Credit(Refilled(k)), Unit)
<1> DEFINE r == Refilled(k)
           w == WaitSeconds(r)
           slept == w * TopRate
<1>1. /\ k \in ControllerRecords /\ k.rate \in Nat \ {0} /\ k.rate <= TopRate
      /\ TopRate \in Nat /\ Unit \in Nat /\ Unit * 1 = Unit
  BY OrderOfSenders, AimdConfigAssumption DEF Running, ControllerRecords
<1>2. w \in Nat /\ r.rate = k.rate
  BY <1>1, BucketKeepsRate
<1>3. Credit(r) = r.tokens /\ r.tokens \in Nat
  BY RefillGivesCredit
<1>4. slept \in Nat
  BY <1>1, <1>2, BucketArithmetic
<1>5. CASE r.tokens >= Unit
  <2> HIDE DEF r, w, slept
  <2>1. Unit - slept <= Least(Credit(r), Unit)
    BY <1>1, <1>3, <1>4, <1>5 DEF Least
  <2> QED
    BY <1>2, <2>1 DEF r, w, slept
<1>6. CASE ~(r.tokens >= Unit)
  <2> DEFINE missing == Unit - r.tokens
  <2>1. missing \in Nat
    BY <1>1, <1>3, <1>6
  <2>2. w = (missing + k.rate - 1) \div k.rate
    BY <1>2, <1>6 DEF WaitSeconds
  <2> HIDE DEF r, w
  <2>3. w * k.rate >= missing
    <3> HIDE DEF missing
    <3> QED
      BY <1>1, <2>1, <2>2, Products
  <2>4. w * k.rate <= slept /\ w * k.rate \in Nat
    BY <1>1, <1>2, Products, BucketArithmetic
  <2>5. slept >= Unit - r.tokens
    <3> DEFINE real == w * k.rate
    <3> HIDE DEF real, slept
    <3> QED
      BY <1>1, <1>3, <1>4, <2>1, <2>3, <2>4 DEF real
  <2>6. Unit - slept <= Least(Credit(r), Unit)
    <3> HIDE DEF slept, missing
    <3> QED
      BY <1>1, <1>3, <1>4, <1>6, <2>5 DEF Least
  <2> QED
    BY <1>2, <2>6 DEF r, w, slept
<1> QED
  BY <1>2, <1>5, <1>6

\* A claim is of at most a token, and of what is in the bucket at least.
LEMMA ClaimRange ==
    ASSUME NEW state, NEW seconds \in Nat, NEW credit \in Nat
    PROVE  /\ Slept(state, seconds) \in Int /\ Slept(state, seconds) <= Unit
           /\ Claim(state, seconds, credit) \in Int /\ Claim(state, seconds, credit) <= Unit
           /\ Least(credit, Unit) <= Claim(state, seconds, credit)
           /\ Claim(state, seconds, credit) >= Slept(state, seconds)
           /\ \A lower \in Nat : lower <= credit =>
                 /\ Claim(state, seconds, lower) <= Claim(state, seconds, credit)
                 /\ \A other : \A n \in Nat :
                       Slept(other, n) <= Least(lower, Unit) =>
                           Claim(other, n, lower) <= Claim(state, seconds, credit)
<1>1. Unit \in Nat /\ seconds * TopRate \in Nat
  BY OrderOfSenders, AimdConfigAssumption, BucketArithmetic
<1>2. Slept(state, seconds) \in Int /\ Slept(state, seconds) <= Unit
  <2> DEFINE n == seconds * TopRate
  <2> HIDE DEF n
  <2>1. n \in Nat /\ Slept(state, seconds) = IF state = "asleep" THEN Unit - n ELSE 0
    BY <1>1 DEF n, Slept
  <2> QED
    BY <1>1, <2>1
<1> DEFINE d == Slept(state, seconds)
<1>3. d \in Int /\ d <= Unit /\ Claim(state, seconds, credit) = Most(d, Least(credit, Unit))
      /\ \A lower : Claim(state, seconds, lower) = Most(d, Least(lower, Unit))
  BY <1>2 DEF Claim
<1> HIDE DEF d
<1>4. /\ Most(d, Least(credit, Unit)) \in Int /\ Most(d, Least(credit, Unit)) <= Unit
      /\ Least(credit, Unit) <= Most(d, Least(credit, Unit)) /\ Most(d, Least(credit, Unit)) >= d
      /\ \A lower \in Nat : lower <= credit =>
            Most(d, Least(lower, Unit)) <= Most(d, Least(credit, Unit))
  BY <1>1, <1>3 DEF Most, Least
<1>5. ASSUME NEW lower \in Nat, lower <= credit, NEW other, NEW n \in Nat,
             Slept(other, n) <= Least(lower, Unit)
      PROVE  Claim(other, n, lower) <= Claim(state, seconds, credit)
  <2>1. Claim(other, n, lower) \in {Slept(other, n), Least(lower, Unit)}
    BY DEF Claim, Most
  <2>2. Slept(other, n) \in Int
    <3> DEFINE m == n * TopRate
    <3> HIDE DEF m
    <3>1. m \in Nat /\ Slept(other, n) = IF other = "asleep" THEN Unit - m ELSE 0
      BY OrderOfSenders, BucketArithmetic DEF m, Slept
    <3> QED
      BY <1>1, <3>1
  <2>3. Least(lower, Unit) <= Least(credit, Unit) /\ Least(lower, Unit) \in Nat
        /\ Least(credit, Unit) \in Nat
    BY <1>1, <1>5 DEF Least
  <2> QED
    BY <1>3, <1>4, <1>5, <2>1, <2>2, <2>3
<1> QED
  BY <1>2, <1>3, <1>4, <1>5 DEF d

\* Where claims and bucket do not grow, the allowance covers them as before.
LEMMA CoverFalls ==
    ASSUME NEW c, \A j \in 1..Count : c[j] \in Int, NEW credit \in Nat, NEW a \in Int,
           Covered(c, credit, a),
           NEW d, \A j \in 1..Count : d[j] \in Int /\ d[j] <= c[j],
           NEW lower \in Nat, lower <= credit
    PROVE  Covered(d, lower, a)
<1>1. PICK x : SumsUp(x, c) /\ a >= x[Count] + Most(0, credit - Unit)
  BY DEF Covered
<1>2. Count \in Nat /\ Unit \in Nat /\ x[Count] \in Int
  BY <1>1, OrderOfSenders, AimdConfigAssumption DEF SumsUp
<1>3. Count * 0 = 0 /\ Most(0, lower - Unit) <= Most(0, credit - Unit)
      /\ Most(0, lower - Unit) \in Int /\ Most(0, credit - Unit) \in Int
  BY <1>2 DEF Most
<1>4. a >= x[Count] + Count * 0 + Most(0, lower - Unit)
  BY <1>1, <1>2, <1>3
<1>5. \A j \in 1..Count : d[j] <= c[j] + 0
  OBVIOUS
<1> QED
  BY <1>1, <1>4, <1>5, RaisedCover

\* What a second gives to the claims, it gives to the allowance.
LEMMA SecondIsCovered ==
    ASSUME NEW credit \in Nat, NEW more \in Nat, more <= credit + TopRate,
           Count <= Lanes
    PROVE  \E g \in Nat :
              /\ Count * g + Most(0, more - Unit) <= Lanes * TopRate + Most(0, credit - Unit)
              /\ \A state : \A n \in Nat :
                    Claim(state, Most(0, n - 1), more) <= Claim(state, n, credit) + g
<1>1. /\ Count \in Nat /\ Unit \in Nat /\ Lanes \in Nat \ {0} /\ TopRate \in Nat
      /\ Lanes * TopRate \in Nat /\ Count * TopRate <= Lanes * TopRate
      /\ TopRate <= Lanes * TopRate /\ Count * TopRate \in Nat
  <2>1. Count \in Nat /\ Unit \in Nat /\ Lanes \in Nat \ {0} /\ TopRate \in Nat
    BY OrderOfSenders, Constants
  <2>2. 1 * TopRate <= Lanes * TopRate /\ 1 * TopRate = TopRate
    BY <2>1, Products
  <2> QED
    BY <2>1, <2>2, Products, BucketArithmetic
<1> DEFINE g == IF credit >= Unit THEN 0
                ELSE IF credit + TopRate >= Unit THEN Unit - credit ELSE TopRate
<1>2. g \in Nat /\ g <= TopRate
  BY <1>1
<1>3. ASSUME NEW state, NEW n \in Nat
      PROVE  Claim(state, Most(0, n - 1), more) <= Claim(state, n, credit) + g
  <2> DEFINE m == Most(0, n - 1)
             old == Slept(state, n)
             new == Slept(state, m)
  <2>1. m \in Nat /\ (n = 0 => m = 0) /\ (n # 0 => n = m + 1)
    BY DEF Most
  <2>2. new <= old + TopRate
    <3>1. 0 * TopRate = 0 /\ m * TopRate \in Nat /\ n * TopRate \in Nat
      BY <1>1, <2>1, BucketArithmetic
    <3>2. n # 0 => n * TopRate = m * TopRate + TopRate
      BY <1>1, <2>1, Products
    <3> DEFINE nt == n * TopRate
               mt == m * TopRate
    <3>3. nt <= mt + TopRate /\ nt \in Nat /\ mt \in Nat
      <4> HIDE DEF m
      <4>1. CASE n = 0
        BY <1>1, <2>1, <3>1, <4>1
      <4>2. CASE n # 0
        BY <1>1, <3>1, <3>2, <4>2
      <4> QED
        BY <4>1, <4>2
    <3>4. /\ old = IF state = "asleep" THEN Unit - nt ELSE 0
          /\ new = IF state = "asleep" THEN Unit - mt ELSE 0
      BY DEF Slept
    <3> HIDE DEF nt, mt, old, new
    <3> QED
      BY <1>1, <3>3, <3>4
  <2>3. old \in Int /\ old <= Unit /\ new \in Int /\ new <= Unit
    BY <2>1, ClaimRange
  <2>4. /\ Claim(state, n, credit) = Most(old, Least(credit, Unit))
        /\ Claim(state, m, more) = Most(new, Least(more, Unit))
    BY DEF Claim
  <2> HIDE DEF m, old, new
  <2>5. Most(new, Least(more, Unit)) <= Most(old, Least(credit, Unit)) + g
    <3>1. CASE credit >= Unit
      BY <1>1, <2>3, <3>1 DEF Most, Least
    <3>2. CASE credit < Unit /\ credit + TopRate >= Unit
      <4>1. g = Unit - credit
        BY <1>1, <3>2
      <4> HIDE DEF g
      <4> QED
        BY <1>1, <2>3, <3>2, <4>1 DEF Most, Least
    <3>3. CASE credit + TopRate < Unit
      <4>1. g = TopRate /\ more < Unit /\ credit < Unit
        BY <1>1, <3>3
      <4> HIDE DEF g
      <4>2. Least(more, Unit) = more /\ Least(credit, Unit) = credit
        BY <1>1, <4>1 DEF Least
      <4> QED
        BY <1>1, <2>2, <2>3, <3>3, <4>1, <4>2 DEF Most
    <3> QED
      BY <1>1, <3>1, <3>2, <3>3
  <2> QED
    BY <2>4, <2>5 DEF m
<1>4. Count * g + Most(0, more - Unit) <= Lanes * TopRate + Most(0, credit - Unit)
  <2>1. CASE credit >= Unit
    <3>1. g = 0 /\ Count * 0 = 0
      BY <1>1, <2>1
    <3>2. Most(0, more - Unit) <= Most(0, credit - Unit) + TopRate
          /\ Most(0, more - Unit) \in Nat /\ Most(0, credit - Unit) \in Nat
      BY <1>1, <2>1 DEF Most
    <3> HIDE DEF g
    <3> QED
      BY <1>1, <3>1, <3>2
  <2>2. CASE credit < Unit /\ credit + TopRate >= Unit
    <3>1. g = Unit - credit /\ Most(0, credit - Unit) = 0
      BY <1>1, <2>2 DEF Most
    <3> HIDE DEF g
    <3>2. Most(0, more - Unit) <= TopRate - g /\ Most(0, more - Unit) \in Nat
      BY <1>1, <1>2, <2>2, <3>1 DEF Most
    <3>3. Count * g + TopRate - g <= Lanes * TopRate
      <4>1. CASE Count = 0
        <5>1. 0 * g = 0
          BY <1>2
        <5> QED
          BY <1>1, <1>2, <4>1, <5>1
      <4>2. CASE Count # 0
        <5> DEFINE rest == Count - 1
        <5>1. rest \in Nat /\ Count = rest + 1
          BY <1>1, <4>2
        <5> HIDE DEF rest
        <5>2. Count * g = rest * g + g /\ Count * TopRate = rest * TopRate + TopRate
          BY <1>1, <1>2, <5>1, Products
        <5>3. rest * g <= rest * TopRate /\ rest * g \in Nat /\ rest * TopRate \in Nat
          BY <1>1, <1>2, <5>1, Products, BucketArithmetic
        <5> QED
          BY <1>1, <1>2, <5>2, <5>3
      <4> QED
        BY <4>1, <4>2
    <3>4. Count * g \in Nat
      BY <1>1, <1>2, BucketArithmetic
    <3> QED
      BY <1>1, <1>2, <3>1, <3>2, <3>3, <3>4
  <2>3. CASE credit + TopRate < Unit
    <3>1. g = TopRate /\ Most(0, credit - Unit) = 0 /\ Most(0, more - Unit) = 0
      BY <1>1, <2>3 DEF Most
    <3> HIDE DEF g
    <3> QED
      BY <1>1, <3>1
  <2> QED
    BY <1>1, <2>1, <2>2, <2>3
<1> HIDE DEF g
<1> QED
  BY <1>2, <1>3, <1>4

\* The controller of the module is one that runs.
LEMMA ControllerRuns ==
    ASSUME IInv
    PROVE  Running(controller)
BY ControllerNow DEF Running

\* What each of the senders claims.
LEMMA ClaimsOfSenders ==
    ASSUME NEW k, Running(k), NEW states, NEW seconds \in [Senders -> Nat]
    PROVE  /\ Credit(k) \in Nat
           /\ \A j \in 1..Count :
                 /\ ClaimsOf(k, states, seconds)[j]
                      = Claim(states[Order[j]], seconds[Order[j]], Credit(k))
                 /\ ClaimsOf(k, states, seconds)[j] \in Int
                 /\ ClaimsOf(k, states, seconds)[j] <= Unit
                 /\ Order[j] \in Senders
<1>1. Credit(k) \in Nat
  BY RefillGivesCredit
<1>2. ASSUME NEW j \in 1..Count
      PROVE  /\ ClaimsOf(k, states, seconds)[j]
                  = Claim(states[Order[j]], seconds[Order[j]], Credit(k))
             /\ ClaimsOf(k, states, seconds)[j] \in Int
             /\ ClaimsOf(k, states, seconds)[j] <= Unit
             /\ Order[j] \in Senders
  <2>1. Order[j] \in Senders /\ seconds[Order[j]] \in Nat
    BY OrderOfSenders
  <2>2. ClaimsOf(k, states, seconds)[j] = Claim(states[Order[j]], seconds[Order[j]], Credit(k))
    BY DEF ClaimsOf
  <2> QED
    BY <1>1, <2>1, <2>2, ClaimRange
<1> QED
  BY <1>1, <1>2

\* The claims of the moment ...
LEMMA ClaimsNow ==
    ASSUME IInv
    PROVE  /\ Running(controller) /\ Credit(controller) \in Nat /\ allowance \in Int
           /\ \A s \in Senders : sleep[s] \in Nat
           /\ \A j \in 1..Count :
                 /\ Claims[j] = Claim(sender[Order[j]], sleep[Order[j]], Credit(controller))
                 /\ Claims[j] \in Int /\ Claims[j] <= Unit /\ Order[j] \in Senders
<1>1. Running(controller)
  BY ControllerRuns
<1>2. sleep \in [Senders -> Nat] /\ allowance \in Int
  BY DEF IInv, TypeOK
<1> QED
  BY <1>1, <1>2, ClaimsOfSenders DEF Claims

\* ... and of the next one.
LEMMA ClaimsNext ==
    ASSUME IInv'
    PROVE  /\ Credit(controller') \in Nat /\ allowance' \in Int
           /\ \A j \in 1..Count :
                 /\ Claims'[j] = Claim(sender'[Order[j]], sleep'[Order[j]], Credit(controller'))
                 /\ Claims'[j] \in Int /\ Claims'[j] <= Unit
<1>1. Running(controller')
  <2>1. /\ controller' \in ControllerRecords /\ controller'.rate \in Nat /\ ceiling' \in Ceilings
        /\ controller'.capacity <= LargestBurst
        /\ Floored(controller'.rate) /\ Capped(controller'.rate, ceiling', policy')
    BY DEF IInv, TypeOK, RateInRange, Floored, Capped, ControllerRecords
  <2> QED
    BY <2>1, FloorsStay, CapsStay DEF Running
<1>2. sleep' \in [Senders -> Nat] /\ allowance' \in Int
  BY DEF IInv, TypeOK
<1>3. Claims' = ClaimsOf(controller', sender', sleep')
  BY DEF Claims
<1> QED
  BY <1>1, <1>2, <1>3, ClaimsOfSenders

\* A step that gives nothing to anybody.
LEMMA StepCovered ==
    ASSUME IInv, IInv', LInv, allowance' = allowance,
           Credit(controller') <= Credit(controller),
           \A s \in Senders : Claim(sender'[s], sleep'[s], Credit(controller'))
                                <= Claim(sender[s], sleep[s], Credit(controller))
    PROVE  LInv'
<1>1. /\ Credit(controller) \in Nat /\ allowance \in Int
      /\ \A j \in 1..Count :
            /\ Claims[j] = Claim(sender[Order[j]], sleep[Order[j]], Credit(controller))
            /\ Claims[j] \in Int /\ Order[j] \in Senders
  BY ClaimsNow DEF LInv
<1>2. /\ Credit(controller') \in Nat
      /\ \A j \in 1..Count :
            /\ Claims'[j] = Claim(sender'[Order[j]], sleep'[Order[j]], Credit(controller'))
            /\ Claims'[j] \in Int
  BY ClaimsNext
<1>3. \A j \in 1..Count : Claims'[j] <= Claims[j]
  BY <1>1, <1>2
<1>4. Covered(Claims', Credit(controller'), allowance')
  BY <1>1, <1>2, <1>3, CoverFalls DEF LInv
<1> QED
  BY <1>4 DEF LInv

\* Every step keeps the allowance over the claims.
LEMMA StepKeepsLanes ==
    ASSUME Count <= Lanes, Count <= Spare + 1, IInv, IInv', LInv, [Next]_vars
    PROVE  LInv'
<1>1. /\ Running(controller) /\ Credit(controller) \in Nat /\ allowance \in Int
      /\ \A s \in Senders : sleep[s] \in Nat
      /\ \A j \in 1..Count :
            /\ Claims[j] = Claim(sender[Order[j]], sleep[Order[j]], Credit(controller))
            /\ Claims[j] \in Int /\ Claims[j] <= Unit /\ Order[j] \in Senders
      /\ Covered(Claims, Credit(controller), allowance)
  BY ClaimsNow DEF LInv
<1>2. /\ sender \in [Senders -> SenderStates] /\ sleep \in [Senders -> Nat]
      /\ controller \in ControllerRecords
  BY DEF IInv, TypeOK
<1>3. /\ Credit(controller') \in Nat /\ allowance' \in Int
      /\ \A j \in 1..Count :
            /\ Claims'[j] = Claim(sender'[Order[j]], sleep'[Order[j]], Credit(controller'))
            /\ Claims'[j] \in Int /\ Claims'[j] <= Unit
  BY ClaimsNext
<1>4. CASE Tick
  <2> DEFINE more == Credit(controller')
             full == LargestBurst * Unit
  <2>1. /\ controller'.capacity <= LargestBurst /\ more \in Nat /\ more <= full
        /\ more <= Credit(controller) + TopRate
    BY <1>1, <1>4, TickGivesCredit DEF Tick
  <2>2. allowance' = Least(AllowanceCap, allowance + Lanes * TopRate)
    BY <1>4 DEF Tick
  <2>3. \A j \in 1..Count : /\ sender'[Order[j]] = sender[Order[j]]
                            /\ sleep'[Order[j]] = Most(0, sleep[Order[j]] - 1)
    BY <1>1, <1>4 DEF Tick
  <2>4. Lanes * TopRate \in Int /\ AllowanceCap \in Int
    BY TopIsHighest
  <2>5. CASE allowance' = AllowanceCap
    <3>1. AllowanceCap >= Count * Unit + Most(0, more - Unit)
      <4>1. /\ Count \in Nat /\ Unit \in Nat /\ Spare \in Nat /\ LargestBurst \in Nat \ {0}
            /\ full \in Nat /\ Unit <= full /\ Count * Unit \in Nat
        <5>1. Count \in Nat /\ Unit \in Nat \ {0} /\ Spare \in Nat /\ LargestBurst \in Nat \ {0}
          BY OrderOfSenders, Constants
        <5>2. 1 * Unit <= LargestBurst * Unit /\ 1 * Unit = Unit
          BY <5>1, Products
        <5> QED
          BY <5>1, <5>2, BucketArithmetic
      <4>2. Count * Unit <= (Spare + 1) * Unit /\ (Spare + 1) * Unit = Spare * Unit + Unit
        BY <4>1, Products
      <4>3. AllowanceCap = full + Spare * Unit
        BY <4>1 DEF AllowanceCap
      <4>4. Most(0, more - Unit) <= full - Unit /\ Most(0, more - Unit) \in Nat
        <5> HIDE DEF full, more
        <5> QED
          BY <2>1, <4>1 DEF Most
      <4>5. Spare * Unit \in Nat /\ (Spare + 1) * Unit \in Nat
        BY <4>1, BucketArithmetic
      <4> HIDE DEF full
      <4> QED
        BY <4>1, <4>2, <4>3, <4>4, <4>5
    <3>2. Covered(Claims', more, allowance')
      <4> HIDE DEF more
      <4> QED
        BY <1>3, <2>1, <2>5, <3>1, FullCover DEF more
    <3> QED
      BY <2>1, <3>2 DEF LInv
  <2>6. CASE allowance' = allowance + Lanes * TopRate
    <3>1. PICK g \in Nat :
            /\ Count * g + Most(0, more - Unit)
                 <= Lanes * TopRate + Most(0, Credit(controller) - Unit)
            /\ \A state : \A n \in Nat :
                  Claim(state, Most(0, n - 1), more) <= Claim(state, n, Credit(controller)) + g
      BY <1>1, <2>1, SecondIsCovered
    <3>2. PICK x : SumsUp(x, Claims)
                   /\ allowance >= x[Count] + Most(0, Credit(controller) - Unit)
      BY <1>1 DEF Covered
    <3>3. allowance' >= x[Count] + Count * g + Most(0, more - Unit)
      <4>1. /\ x[Count] \in Int /\ Count * g \in Int /\ Lanes * TopRate \in Int
            /\ Most(0, more - Unit) \in Int /\ Most(0, Credit(controller) - Unit) \in Int
        <5>1. Count \in Nat /\ Unit \in Nat
          BY OrderOfSenders, Constants
        <5>2. x[Count] \in Int
          BY <3>2, <5>1 DEF SumsUp
        <5>3. Count * g \in Int
          BY <5>1, BucketArithmetic
        <5>4. Most(0, more - Unit) \in Int /\ Most(0, Credit(controller) - Unit) \in Int
          BY <1>1, <2>1, <5>1 DEF Most
        <5> QED
          BY <2>4, <5>2, <5>3, <5>4
      <4> DEFINE cg == Count * g
                 lanes == Lanes * TopRate
                 s1 == Most(0, more - Unit)
                 s0 == Most(0, Credit(controller) - Unit)
                 top == x[Count]
      <4>2. /\ cg \in Int /\ lanes \in Int /\ s1 \in Int /\ s0 \in Int /\ top \in Int
            /\ cg + s1 <= lanes + s0 /\ allowance >= top + s0 /\ allowance' = allowance + lanes
        BY <2>6, <3>1, <3>2, <4>1
      <4> HIDE DEF cg, lanes, s1, s0, top
      <4>3. allowance' >= top + cg + s1
        BY <1>1, <4>2
      <4> QED
        BY <4>3 DEF cg, s1, top
    <3>4. \A j \in 1..Count : Claims'[j] <= Claims[j] + g
      BY <1>1, <1>3, <2>1, <2>3, <3>1
    <3>5. Covered(Claims', more, allowance')
      <4> HIDE DEF more
      <4>1. more \in Int /\ allowance' \in Int
            /\ \A j \in 1..Count : Claims'[j] \in Int /\ Claims'[j] <= Claims[j] + g
        BY <1>3, <2>1, <3>4
      <4>2. Credit(controller) \in Int /\ allowance \in Int /\ \A j \in 1..Count : Claims[j] \in Int
        BY <1>1
      <4> QED
        BY <3>2, <3>3, <4>1, <4>2, RaisedCover
    <3> QED
      BY <2>1, <3>5 DEF LInv
  <2> QED
    BY <2>2, <2>5, <2>6 DEF Least
<1>5. ASSUME NEW s \in Senders, WaitTime(s)
      PROVE  LInv'
  <2>1. /\ controller' = Refilled(controller) /\ allowance' = allowance
        /\ sleep' = [sleep EXCEPT ![s] = WaitSeconds(controller')]
        /\ sender' = [sender EXCEPT ![s] = "asleep"]
    BY <1>5 DEF WaitTime, histories
  <2>2. /\ controller'.capacity <= LargestBurst /\ Credit(controller') \in Nat
        /\ Credit(controller') <= Credit(controller)
        /\ WaitSeconds(controller') \in Nat
        /\ Unit - WaitSeconds(controller') * TopRate <= Least(Credit(controller'), Unit)
    BY <1>1, <2>1, RefillGivesCredit, WaitGivesCredit
  <2>3. ASSUME NEW q \in Senders
        PROVE  Claim(sender'[q], sleep'[q], Credit(controller'))
                 <= Claim(sender[q], sleep[q], Credit(controller))
    <3>1. CASE q = s
      <4>1. sender'[q] = "asleep" /\ sleep'[q] = WaitSeconds(controller')
        BY <1>2, <2>1, <3>1
      <4>2. Slept(sender'[q], sleep'[q]) <= Least(Credit(controller'), Unit)
        BY <2>2, <4>1 DEF Slept
      <4> QED
        BY <1>1, <2>2, <4>1, <4>2, ClaimRange
    <3>2. CASE q # s
      <4>1. sender'[q] = sender[q] /\ sleep'[q] = sleep[q]
        BY <1>2, <2>1, <3>2
      <4> QED
        BY <1>1, <2>2, <4>1, ClaimRange
    <3> QED
      BY <3>1, <3>2
  <2> QED
    BY <2>1, <2>2, <2>3, StepCovered
<1>6. ASSUME NEW s \in Senders, Consume(s)
      PROVE  LInv'
  <2> DEFINE credit == Credit(controller)
             less == Credit(controller')
             p == Least(less, Unit)
  <2>1. /\ sender[s] = "asleep" /\ sleep[s] = 0 /\ controller' = Consumed(controller)
        /\ sender' = [sender EXCEPT ![s] = "sent"] /\ allowance' = allowance - Unit
        /\ sleep' = sleep
    BY <1>6 DEF Consume
  <2>2. controller'.capacity <= LargestBurst /\ less \in Nat /\ less <= Most(0, credit - Unit)
        /\ Unit \in Nat /\ less <= credit /\ credit \in Nat
    <3>1. controller'.capacity <= LargestBurst /\ less \in Nat /\ less <= Most(0, credit - Unit)
      BY <1>1, <2>1, RefillGivesCredit
    <3>2. Unit \in Nat
      BY Constants
    <3> HIDE DEF less
    <3> QED
      BY <1>1, <3>1, <3>2 DEF Most
  <2>3. PICK i \in 1..Count : Order[i] = s
    BY OrderOfSenders
  <2>4. PICK x : SumsUp(x, Claims) /\ allowance >= x[Count] + Most(0, credit - Unit)
    BY <1>1 DEF Covered
  <2>5. Claims[i] = Unit
    <3>1. Slept(sender[s], sleep[s]) = Unit
      <4>1. 0 * TopRate = 0
        BY OrderOfSenders
      <4> QED
        BY <2>1, <2>2, <4>1 DEF Slept
    <3>2. Claims[i] >= Unit /\ Claims[i] \in Int /\ Claims[i] <= Unit
      BY <1>1, <2>1, <2>3, <3>1, ClaimRange
    <3> QED
      BY <2>2, <3>2
  <2>6. \A j \in 1..Count :
           /\ Order[j] # s => /\ sender'[Order[j]] = sender[Order[j]]
                              /\ sleep'[Order[j]] = sleep[Order[j]]
           /\ Order[j] = s => sender'[Order[j]] = "sent" /\ sleep'[Order[j]] = 0
    BY <1>1, <1>2, <2>1
  <2>7. \A n \in Nat : Claim("sent", n, less) = p
    <3> HIDE DEF less
    <3> QED
      BY <2>2 DEF Claim, Slept, Most, Least
  <2>8. p \in 0..Unit
    <3> HIDE DEF less
    <3> QED
      BY <2>2 DEF Least
  <2>9. \A j \in 1..Count : Claims'[j] \in Int /\ Claims'[j] <= Claims[j]
    <3> SUFFICES ASSUME NEW j \in 1..Count
                 PROVE  Claims'[j] \in Int /\ Claims'[j] <= Claims[j]
      OBVIOUS
    <3>1. Claims'[j] \in Int /\ Claims'[j] = Claim(sender'[Order[j]], sleep'[Order[j]], less)
      BY <1>3, <2>2
    <3>2. CASE Order[j] # s
      BY <1>1, <2>2, <2>6, <3>1, <3>2, ClaimRange
    <3>3. CASE Order[j] = s
      <4>1. Slept("sent", 0) <= Least(less, Unit)
        <5> HIDE DEF less
        <5> QED
          BY <2>2 DEF Slept, Least
      <4> QED
        BY <1>1, <2>2, <2>6, <3>1, <3>3, <4>1, ClaimRange
    <3> QED
      BY <3>2, <3>3
  <2>10. Claims'[i] = p
    BY <1>3, <2>2, <2>3, <2>6, <2>7
  <2>11. allowance' >= x[Count] - Unit + p + Most(0, less - Unit)
    <3>1. x[Count] \in Int
      BY <2>4, OrderOfSenders DEF SumsUp
    <3> DEFINE top == x[Count]
    <3> HIDE DEF less, credit, p, top
    <3>2. p + Most(0, less - Unit) = less
      BY <2>2 DEF p, Most, Least
    <3>3. p \in Int /\ Most(0, less - Unit) \in Int /\ Most(0, credit - Unit) \in Int /\ top \in Int
      BY <2>2, <2>8, <3>1 DEF Most, top
    <3>4. allowance >= top + Most(0, credit - Unit)
      BY <2>4 DEF top, credit
    <3>5. allowance' >= top - Unit + p + Most(0, less - Unit)
      BY <1>1, <2>1, <2>2, <3>2, <3>3, <3>4
    <3> QED
      BY <3>5 DEF top
  <2>12. Covered(Claims', less, allowance')
    <3>1. less \in Int /\ allowance' \in Int
      BY <1>3, <2>2
    <3> HIDE DEF less, p, credit
    <3> QED
      BY <1>1, <2>4, <2>5, <2>8, <2>9, <2>10, <2>11, <3>1, PaidCover
  <2> QED
    BY <2>2, <2>12 DEF LInv
<1>7. ASSUME allowance' = allowance,
             controller'.tokens = controller.tokens,
             controller'.unrefilled = controller.unrefilled,
             \A s \in Senders : \/ sender'[s] = sender[s] /\ sleep'[s] = sleep[s]
                                \/ sender'[s] # "asleep" /\ sleep'[s] \in Nat
      PROVE  LInv'
  <2>1. Credit(controller') = Credit(controller)
    BY <1>1, <1>7 DEF Credit
  <2>2. ASSUME NEW s \in Senders
        PROVE  Claim(sender'[s], sleep'[s], Credit(controller'))
                 <= Claim(sender[s], sleep[s], Credit(controller))
    <3>1. CASE sender'[s] = sender[s] /\ sleep'[s] = sleep[s]
      BY <1>1, <2>1, <3>1, ClaimRange
    <3>2. CASE sender'[s] # "asleep" /\ sleep'[s] \in Nat
      <4>1. Slept(sender'[s], sleep'[s]) <= Least(Credit(controller), Unit)
        <5>1. Credit(controller) \in Nat /\ Unit \in Nat
          BY <1>1, Constants
        <5> QED
          BY <3>2, <5>1 DEF Slept, Least
      <4> QED
        BY <1>1, <2>1, <3>2, <4>1, ClaimRange
    <3> QED
      BY <2>2, <3>1, <3>2, <1>7
  <2> QED
    BY <1>1, <1>7, <2>1, <2>2, StepCovered
<1>8. ASSUME NEW s \in Senders, NEW state \in SenderStates \ {"asleep"},
             sender' = [sender EXCEPT ![s] = state],
             sleep' = sleep \/ sleep' = [sleep EXCEPT ![s] = 0]
      PROVE  \A q \in Senders : \/ sender'[q] = sender[q] /\ sleep'[q] = sleep[q]
                                \/ sender'[q] # "asleep" /\ sleep'[q] \in Nat
  BY <1>2, <1>8
<1>9. ceiling \in Nat
  BY ControllerNow
<1>10. ASSUME NEW s \in Senders, NEW degraded \in BOOLEAN, Success(s, degraded)
       PROVE  LInv'
  <2>1. controller'.tokens = controller.tokens /\ controller'.unrefilled = controller.unrefilled
    BY <1>2, <1>9, <1>10, FeedbackMoves DEF Success
  <2> QED
    BY <1>7, <1>8, <1>10, <2>1 DEF Success, SenderStates
<1>11. ASSUME NEW s \in Senders, Failure(s) PROVE LInv'
  <2>1. controller'.tokens = controller.tokens /\ controller'.unrefilled = controller.unrefilled
    BY <1>2, <1>9, <1>11, FeedbackMoves DEF Failure, ControllerFailure
  <2> QED
    BY <1>7, <1>8, <1>11, <2>1 DEF Failure, SenderStates
<1>12. ASSUME NEW s \in Senders, Leave(s) \/ First(s) PROVE LInv'
  BY <1>1, <1>7, <1>8, <1>12 DEF Leave, First, histories, SenderStates
<1>13. ASSUME NEW s \in Senders, NEW tier \in TierLimits, Infer(s, tier) PROVE LInv'
  <2>1. controller'.tokens = controller.tokens /\ controller'.unrefilled = controller.unrefilled
    <3>1. CASE policy = NoPolicy
      BY <1>13, <3>1, InferenceKeeps DEF Infer
    <3>2. CASE policy # NoPolicy
      BY <1>13, <3>2 DEF Infer
    <3> QED
      BY <3>1, <3>2
  <2> QED
    BY <1>7, <1>8, <1>13, <2>1 DEF Infer, SenderStates
<1>14. ASSUME NEW m \in Ceilings, NEW rule \in Rules, ApplyPolicy(rule, m) PROVE LInv'
  <2>1. controller'.tokens = controller.tokens /\ controller'.unrefilled = controller.unrefilled
    BY <1>14, PolicyKeeps
  <2> QED
    BY <1>7, <1>14, <2>1 DEF ApplyPolicy
<1>15. ASSUME NEW m \in Ceilings, Refresh(m) PROVE LInv'
  <2>1. m \in Nat
    BY Constants
  <2>2. controller'.tokens = controller.tokens /\ controller'.unrefilled = controller.unrefilled
    BY <1>2, <1>15, <2>1, FeedbackMoves DEF Refresh
  <2> QED
    BY <1>7, <1>15, <2>2 DEF Refresh, histories
<1>16. CASE UNCHANGED vars
  BY <1>1, <1>7, <1>16 DEF vars, histories
<1> QED
  BY <1>4, <1>5, <1>6, <1>10, <1>11, <1>12, <1>13, <1>14, <1>15, <1>16 DEF Next

(* Counted from any moment on, the requests of n senders stay within a      *)
(* bucket that refills n times as fast as the highest of the rates that the *)
(* config and the policies name and holds n - 1 tokens more than their      *)
(* largest burst, whatever the first response infers and whenever a policy  *)
(* is applied: see Paced.                                                   *)
THEOREM PacingIsKept ==
    ASSUME Cardinality(Senders) <= Lanes, Cardinality(Senders) <= Spare + 1
    PROVE  Spec => []Paced
<1>1. Count <= Lanes /\ Count <= Spare + 1
  BY DEF Count
<1>2. Init => LInv
  <2> SUFFICES ASSUME Init PROVE LInv
    OBVIOUS
  <2>1. IInv
    BY InitKeeps
  <2>2. allowance = AllowanceCap
    BY DEF Init
  <2>4. /\ Credit(controller) \in Nat /\ Credit(controller) <= LargestBurst * Unit
        /\ \A j \in 1..Count : Claims[j] \in Int /\ Claims[j] <= Unit
    BY <2>1, ClaimsNow, RefillGivesCredit
  <2> DEFINE credit == Credit(controller)
             full == LargestBurst * Unit
  <2>5. /\ Count \in Nat /\ Unit \in Nat \ {0} /\ Spare \in Nat /\ LargestBurst \in Nat \ {0}
        /\ full \in Nat /\ Unit <= full /\ Count * Unit \in Nat
        /\ Count * Unit <= Spare * Unit + Unit /\ AllowanceCap = full + Spare * Unit
        /\ Spare * Unit \in Nat
    <3>1. Count \in Nat /\ Unit \in Nat \ {0} /\ Spare \in Nat /\ LargestBurst \in Nat \ {0}
      BY OrderOfSenders, Constants
    <3>2. 1 * Unit <= LargestBurst * Unit /\ 1 * Unit = Unit
      BY <3>1, Products
    <3>3. Count * Unit <= (Spare + 1) * Unit /\ (Spare + 1) * Unit = Spare * Unit + Unit
      BY <1>1, <3>1, Products
    <3>4. AllowanceCap = full + Spare * Unit
      BY <3>1 DEF AllowanceCap
    <3> QED
      BY <3>1, <3>2, <3>3, <3>4, BucketArithmetic
  <2> HIDE DEF credit, full
  <2>6. AllowanceCap >= Count * Unit + Most(0, credit - Unit)
    <3>1. credit \in Nat /\ credit <= full
      BY <2>4 DEF credit, full
    <3>2. Most(0, credit - Unit) <= full - Unit /\ Most(0, credit - Unit) \in Nat
      BY <2>5, <3>1 DEF Most
    <3> DEFINE cu == Count * Unit
               su == Spare * Unit
    <3>3. cu \in Nat /\ su \in Nat /\ cu <= su + Unit /\ AllowanceCap = full + su
      BY <2>5
    <3> HIDE DEF cu, su
    <3>4. AllowanceCap >= cu + Most(0, credit - Unit)
      BY <2>5, <3>2, <3>3
    <3> QED
      BY <3>4 DEF cu
  <2>7. Covered(Claims, credit, allowance)
    BY <2>2, <2>4, <2>6, TopIsHighest, FullCover DEF credit
  <2> QED
    BY <2>7 DEF LInv, credit
<1>3. IInv /\ IInv' /\ LInv /\ [Next]_vars => LInv'
  BY <1>1, StepKeepsLanes
<1>4. IInv /\ LInv => Paced
  <2> SUFFICES ASSUME IInv, LInv PROVE allowance >= 0
    BY DEF Paced
  <2>1. PICK x : SumsUp(x, Claims) /\ allowance >= x[Count] + Most(0, Credit(controller) - Unit)
    BY DEF LInv, Covered
  <2>2. Count \in 0..Count /\ 0 \in 0..Count /\ 0 <= Count
    BY OrderOfSenders
  <2>3. x[0] = 0 /\ x[0] <= x[Count] /\ x[Count] \in Int
    BY <2>1, <2>2 DEF SumsUp
  <2>4. Most(0, Credit(controller) - Unit) >= 0 /\ Most(0, Credit(controller) - Unit) \in Int
        /\ allowance \in Int
    BY ClaimsNow, Constants DEF LInv, Most
  <2> QED
    BY <2>1, <2>3, <2>4
<1> QED
  BY <1>2, <1>3, <1>4, InitKeeps, StepKeeps, PTL DEF Spec

=============================================================================

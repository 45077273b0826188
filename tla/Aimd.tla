-------------------------------- MODULE Aimd --------------------------------
(***************************************************************************)
(* The methods of controller.py's AimdController as operators on a         *)
(* controller record.  Every method runs under self._lock and is one       *)
(* atomic transformation of the record.  config.max_rate is a parameter    *)
(* (ceiling): the ControllerConfig belongs to the client's configuration   *)
(* and not to one controller.                                              *)
(*                                                                         *)
(* Rates and tokens are whole numbers: a rate of r adds r units of credit  *)
(* in a second and Unit of them make one token, so the rate is r/Unit      *)
(* requests per second.  decrease_factor is one half, rounded down.        *)
(* _last_refill is kept as the seconds since then, unrefilled, which stop  *)
(* counting when they fill the largest bucket at the lowest rate.          *)
(* The baseline latency is reduced to whether there is one: a response is  *)
(* degraded or not as its latency falls, but the first never is, since the *)
(* baseline it is compared with is its own latency.                        *)
(***************************************************************************)
EXTENDS Integers

CONSTANTS
    MinRate,        \* config.min_rate
    AdditiveStep,   \* config.additive_step
    SuccessStreak,  \* config.success_streak_for_increase
    Unit,           \* units of credit in one token
    LargestBurst    \* the largest capacity a bucket is ever given

ASSUME AimdConfigAssumption ==
    /\ MinRate \in Nat \ {0}
    /\ AdditiveStep \in Nat
    /\ SuccessStreak \in Nat \ {0}
    /\ Unit \in Nat \ {0}
    /\ LargestBurst \in Nat \ {0}

Least(a, b) == IF a <= b THEN a ELSE b
Most(a, b) == IF a >= b THEN a ELSE b

ControllerRecords ==
    [ rate : Nat, tokens : Nat, capacity : Nat \ {0}, unrefilled : Nat,
      streak : 0..(SuccessStreak - 1), baseline : BOOLEAN ]

\* __init__
InitController(initial, burst) ==
    [ rate |-> Most(initial, MinRate), tokens |-> Most(1, burst) * Unit,
      capacity |-> Most(1, burst), unrefilled |-> 0, streak |-> 0, baseline |-> FALSE ]

-----------------------------------------------------------------------------
(* The token bucket *)

\* Fault: a refill adds the credit of the time since the last one and leaves the bucket
\* to grow past its capacity
RefilledWithoutCap(k) ==
    [k EXCEPT !.tokens = k.tokens + k.unrefilled * k.rate, !.unrefilled = 0]

\* _refill_locked: all the time since the last refill counts at the rate of now
Refilled(k) ==
    [k EXCEPT !.tokens = Least(k.capacity * Unit, k.tokens + k.unrefilled * k.rate),
              !.unrefilled = 0]

\* What wait_time() returns after its refill, in full seconds: sleep() is never shorter
WaitSeconds(k) ==
    IF k.tokens >= Unit THEN 0 ELSE (Unit - k.tokens + k.rate - 1) \div k.rate

\* consume()
Consumed(k) == [Refilled(k) EXCEPT !.tokens = Most(0, @ - Unit)]

-----------------------------------------------------------------------------
(* Feedback *)

\* Fault: the floor of the rate is forgotten
DecreasedBelowFloor(k) == [k EXCEPT !.streak = 0, !.rate = @ \div 2]

\* _decrease_locked
Decreased(k) == [k EXCEPT !.streak = 0, !.rate = Most(MinRate, @ \div 2)]

\* Fault: a step that would pass the ceiling is left out
SuccessNeedsRoom(k, ceiling, degraded) ==
    IF degraded /\ k.baseline
    THEN Decreased(k)
    ELSE IF k.streak + 1 >= SuccessStreak
         THEN [k EXCEPT !.streak = 0, !.baseline = TRUE,
                        !.rate = IF @ + AdditiveStep > ceiling THEN @ ELSE @ + AdditiveStep]
         ELSE [k EXCEPT !.streak = @ + 1, !.baseline = TRUE]

\* Fault: the streak has to be exceeded
SuccessTooLate(k, ceiling, degraded) ==
    IF degraded /\ k.baseline
    THEN Decreased(k)
    ELSE IF k.streak + 1 > SuccessStreak
         THEN [k EXCEPT !.streak = 0, !.baseline = TRUE,
                        !.rate = Least(ceiling, @ + AdditiveStep)]
         ELSE [k EXCEPT !.streak = @ + 1, !.baseline = TRUE]

\* Fault: the streak does not start again after an increase
SuccessKeepsCounting(k, ceiling, degraded) ==
    IF degraded /\ k.baseline
    THEN Decreased(k)
    ELSE IF k.streak + 1 >= SuccessStreak
         THEN [k EXCEPT !.rate = Least(ceiling, @ + AdditiveStep), !.baseline = TRUE]
         ELSE [k EXCEPT !.streak = @ + 1, !.baseline = TRUE]

\* report_success(latency)
ControllerSuccess(k, ceiling, degraded) ==
    IF degraded /\ k.baseline
    THEN Decreased(k)
    ELSE IF k.streak + 1 >= SuccessStreak
         THEN [k EXCEPT !.streak = 0, !.baseline = TRUE,
                        !.rate = Least(ceiling, @ + AdditiveStep)]
         ELSE [k EXCEPT !.streak = @ + 1, !.baseline = TRUE]

\* report_failure()
ControllerFailure(k) == Decreased(k)

\* set_ceiling(max_rate), whose caller keeps the new ceiling
CeilingSet(k, ceiling) == [k EXCEPT !.rate = Least(@, ceiling)]

\* One second passes
ControllerTick(k) == [k EXCEPT !.unrefilled = Least(@ + 1, LargestBurst * Unit)]

=============================================================================

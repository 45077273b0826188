------------------------ MODULE CircuitBreakerProofs ------------------------
(***************************************************************************)
(* Theorems about CircuitBreaker, for any number of callers and every      *)
(* configuration of the breaker.                                           *)
(*                                                                         *)
(* The inductive invariant is IInv: the breaker is well formed, it has a   *)
(* time of the last trip exactly while it is not closed, that time is the  *)
(* one the history saw the circuit trip at, and no trip was missed.        *)
(* RunKnown, for the streak, BInv, for the cooldown, and the steps of      *)
(* BackoffCircuit come on top.                                             *)
(***************************************************************************)
EXTENDS CircuitBreaker, MethodProofs

-----------------------------------------------------------------------------
(* Type correctness *)

\* No failed probe is one of those told apart.
LEMMA NoDoublings == 0 \in 0..DoublingBound
BY CircuitAssumption

\* The breaker __init__ makes is one.
LEMMA InitTyped == Init => TypeOK
<1>1. InitBreaker \in BreakerRecords
  <2>1. <<>> \in Seq(Outcomes)
    OBVIOUS
  <2> QED
    BY <2>1, AssignedValues DEF InitBreaker, BreakerRecords, BreakerStates
<1>2. Len(InitBreaker.recent) <= ErrorRateWindow
  BY BreakerConfigAssumption DEF InitBreaker
<1> QED
  BY <1>1, <1>2, AssignedValues, NoDoublings DEF Init, TypeOK, IsBreaker

\* Whatever method is called, the histories stay in their ranges.
LEMMA BecomesTyped ==
    ASSUME TypeOK, NEW b, IsBreaker(b), Becomes(b)
    PROVE  IsBreaker(breaker') /\ rested' \in 0..LongestCooldown /\ failedProbes' \in 0..DoublingBound
<1>1. \A n \in 0..DoublingBound : Smaller(n + 1, DoublingBound) \in 0..DoublingBound
  BY CircuitAssumption DEF Smaller
<1> QED
  BY <1>1, NoDoublings, AssignedValues DEF TypeOK, Becomes

(* TypeOK holds: the window is bounded, the cooldown never exceeds its cap, *)
(* and only callers that were let through are inside.                       *)
THEOREM TypeCorrect == Spec => []TypeOK
<1>1. Init => TypeOK
  BY InitTyped
<1>2. TypeOK /\ [Next]_vars => TypeOK'
  <2> SUFFICES ASSUME TypeOK, [Next]_vars
               PROVE  TypeOK'
    OBVIOUS
  <2> USE MethodsKeepBreaker, BecomesTyped
  <2>1. CASE Tick
    BY <2>1, AssignedValues DEF Tick, TypeOK
  <2>2. CASE ReadState
    BY <2>2 DEF ReadState, TypeOK
  <2>3. ASSUME NEW c \in Callers, Check(c)
        PROVE  TypeOK'
    BY <2>3 DEF Check, TypeOK
  <2>4. ASSUME NEW c \in Callers, ReportSuccess(c)
        PROVE  TypeOK'
    BY <2>4 DEF ReportSuccess, Reports, TypeOK
  <2>5. ASSUME NEW c \in Callers, ReportFailure(c)
        PROVE  TypeOK'
    BY <2>5 DEF ReportFailure, Reports, TypeOK
  <2>6. ASSUME NEW c \in Callers, Leave(c)
        PROVE  TypeOK'
    BY <2>6 DEF Leave, TypeOK
  <2>7. CASE UNCHANGED vars
    BY <2>7 DEF vars, TypeOK
  <2> QED
    BY <2>1, <2>2, <2>3, <2>4, <2>5, <2>6, <2>7 DEF Next
<1> QED
  BY <1>1, <1>2, PTL DEF Spec

-----------------------------------------------------------------------------
(* The inductive invariant *)

\* The code's time of the last trip is the time the history saw it.
AgeIsRested == breaker.state # "closed" => breaker.opened_ago = rested

IInv == TypeOK /\ StampedIffTripped /\ AgeIsRested /\ NoMissedTrip

\* A new breaker satisfies it.
LEMMA InitKeeps == Init => IInv
<1>1. Init => TypeOK
  BY InitTyped
<1>2. Init => StampedIffTripped /\ AgeIsRested
  BY DEF Init, InitBreaker, StampedIffTripped, AgeIsRested
<1>3. Init => NoMissedTrip
  BY BreakerConfigAssumption DEF Init, InitBreaker, NoMissedTrip, TrippedByStreak
<1> QED
  BY <1>1, <1>2, <1>3 DEF IInv

\* check() and the property `state` at most go from open to half-open, and only when the
\* circuit has rested for the cooldown.
LEMMA HalfOpening ==
    ASSUME IInv, Becomes(MaybeHalfOpen(breaker))
    PROVE  /\ StampedIffTripped' /\ AgeIsRested' /\ NoMissedTrip'
           /\ breaker.state = "open" /\ breaker'.state # "open"
                 => rested >= breaker.cooldown /\ breaker'.state = "half_open"
<1>1. CASE breaker' = breaker
  <2>1. rested' = rested
    BY <1>1 DEF Becomes, MaybeHalfOpen, Trips
  <2> QED
    BY <1>1, <2>1 DEF IInv, StampedIffTripped, AgeIsRested, NoMissedTrip
<1>2. CASE breaker' # breaker
  <2>1. /\ breaker.state = "open" /\ breaker.opened_ago # NoStamp
        /\ breaker.opened_ago >= breaker.cooldown
        /\ breaker' = [breaker EXCEPT !.state = "half_open"]
    BY <1>2 DEF Becomes, MaybeHalfOpen
  <2>2. breaker'.state = "half_open" /\ breaker'.opened_ago = breaker.opened_ago
    BY <2>1 DEF IInv, TypeOK, IsBreaker, BreakerRecords
  <2>3. rested' = rested
    BY <2>1, <2>2 DEF Becomes, Trips
  <2> QED
    BY <2>1, <2>2, <2>3 DEF IInv, StampedIffTripped, AgeIsRested, NoMissedTrip
<1> QED
  BY <1>1, <1>2

\* A success ends the streak, and closes the circuit if it is half-open.
LEMMA Succeeding ==
    ASSUME IInv, Becomes(BreakerSuccess(breaker))
    PROVE  /\ StampedIffTripped' /\ AgeIsRested' /\ NoMissedTrip'
           /\ breaker.state = "open" => breaker'.state = "open"
<1> DEFINE window == Remember(breaker.recent, "success")
<1>1. window[Len(window)] = "success"
  BY RememberNotes DEF IInv, TypeOK, IsBreaker, BreakerRecords, Outcomes
<1>2. breaker' = BreakerSuccess(breaker)
  BY DEF Becomes
<1>3. breaker'.recent = window /\ breaker'.consecutive_failures = 0
  BY <1>2 DEF BreakerSuccess, IInv, TypeOK, IsBreaker, BreakerRecords
<1>4. IF breaker.state = "half_open"
      THEN breaker'.state = "closed" /\ breaker'.opened_ago = NoStamp
      ELSE breaker'.state = breaker.state /\ breaker'.opened_ago = breaker.opened_ago
  BY <1>2 DEF BreakerSuccess, IInv, TypeOK, IsBreaker, BreakerRecords
<1>5. rested' = rested
  BY <1>4, <1>2 DEF Becomes, Trips
<1>6. NoMissedTrip'
  BY <1>1, <1>3, BreakerConfigAssumption DEF NoMissedTrip, TrippedByStreak
<1> QED
  BY <1>4, <1>5, <1>6 DEF IInv, StampedIffTripped, AgeIsRested

\* A failure opens a half-open circuit, and a closed one that meets a threshold.
LEMMA Failing ==
    ASSUME IInv, Becomes(BreakerFailure(breaker))
    PROVE  /\ StampedIffTripped' /\ AgeIsRested' /\ NoMissedTrip'
           /\ breaker.state = "open" => breaker'.state = "open"
<1> DEFINE noted == NoteFailure(breaker)
<1>1. breaker' = BreakerFailure(breaker)
  BY DEF Becomes
<1>2. /\ noted.state = breaker.state /\ noted.opened_ago = breaker.opened_ago
      /\ noted \in BreakerRecords
  <2>1. IsBreaker(noted)
    <3>1. Remember(breaker.recent, "failure") \in Seq(Outcomes)
          /\ Len(Remember(breaker.recent, "failure")) <= ErrorRateWindow
      BY RememberNotes DEF IInv, TypeOK, IsBreaker, BreakerRecords, Outcomes
    <3> QED
      BY <3>1, AssignedValues DEF NoteFailure, IInv, TypeOK, IsBreaker, BreakerRecords
  <2> QED
    BY <2>1 DEF NoteFailure, IInv, TypeOK, IsBreaker, BreakerRecords
<1> HIDE DEF noted
<1>3. CASE breaker.state = "half_open"
  <2>1. breaker'.state = "open" /\ breaker'.opened_ago = 0
    BY <1>1, <1>2, <1>3 DEF BreakerFailure, Open, BreakerRecords, noted
  <2>2. rested' = 0
    BY <1>1, <1>3, <2>1 DEF Becomes, Trips
  <2> QED
    BY <1>3, <2>1, <2>2 DEF StampedIffTripped, AgeIsRested, NoMissedTrip, NoStamp
<1>4. CASE breaker.state = "open"
  <2>1. breaker'.state = "open" /\ breaker'.opened_ago = breaker.opened_ago
    BY <1>1, <1>2, <1>4 DEF BreakerFailure, noted
  <2>2. rested' = rested
    BY <1>4 DEF Becomes, Trips
  <2> QED
    BY <1>4, <2>1, <2>2 DEF IInv, StampedIffTripped, AgeIsRested, NoMissedTrip
<1>5. CASE breaker.state = "closed"
  <2>1. CASE TrippedByStreak(noted) \/ TrippedByRate(noted)
    <3>1. breaker'.state = "open" /\ breaker'.opened_ago = 0
      BY <1>1, <1>2, <1>5, <2>1 DEF BreakerFailure, Open, BreakerRecords, noted
    <3>2. rested' = 0
      BY <1>1, <1>5, <3>1 DEF Becomes, Trips
    <3> QED
      BY <1>5, <3>1, <3>2 DEF StampedIffTripped, AgeIsRested, NoMissedTrip, NoStamp
  <2>2. CASE ~(TrippedByStreak(noted) \/ TrippedByRate(noted))
    <3>1. breaker' = noted
      BY <1>1, <1>5, <2>2 DEF BreakerFailure, noted
    <3>2. NoMissedTrip'
      BY <2>2, <3>1 DEF NoMissedTrip, TrippedByStreak, TrippedByRate
    <3> QED
      BY <1>2, <1>5, <3>1, <3>2 DEF IInv, StampedIffTripped, AgeIsRested
  <2> QED
    BY <2>1, <2>2
<1> QED
  BY <1>3, <1>4, <1>5 DEF IInv, TypeOK, IsBreaker, BreakerRecords, BreakerStates

\* Every step keeps the invariant, and only a rested circuit half-opens.
LEMMA StepKeeps ==
    ASSUME IInv, TypeOK', [Next]_vars
    PROVE  /\ IInv'
           /\ breaker.state = "open" /\ breaker'.state # "open"
                 => rested >= breaker.cooldown /\ breaker'.state = "half_open"
<1>1. CASE Tick
  <2>1. breaker'.state = breaker.state
        /\ breaker'.recent = breaker.recent
        /\ breaker'.consecutive_failures = breaker.consecutive_failures
    BY <1>1 DEF Tick, BreakerTick, IInv, TypeOK, IsBreaker, BreakerRecords
  <2>2. breaker'.opened_ago = IF breaker.opened_ago = NoStamp THEN NoStamp
                              ELSE Smaller(breaker.opened_ago + 1, LongestCooldown)
    BY <1>1 DEF Tick, BreakerTick, IInv, TypeOK, IsBreaker, BreakerRecords
  <2>3. rested' = Smaller(rested + 1, LongestCooldown) /\ rested' # NoStamp
    BY <1>1 DEF Tick, TypeOK, NoStamp
  <2>4. StampedIffTripped' /\ AgeIsRested'
    BY <2>1, <2>2, <2>3 DEF IInv, StampedIffTripped, AgeIsRested
  <2>5. NoMissedTrip'
    BY <2>1 DEF IInv, NoMissedTrip, TrippedByStreak, TrippedByRate
  <2> QED
    BY <2>1, <2>4, <2>5 DEF IInv
<1>2. CASE ReadState
  BY <1>2, HalfOpening DEF ReadState, IInv
<1>3. ASSUME NEW c \in Callers, Check(c)
      PROVE  /\ IInv'
             /\ breaker.state = "open" /\ breaker'.state # "open"
                   => rested >= breaker.cooldown /\ breaker'.state = "half_open"
  BY <1>3, HalfOpening DEF Check, IInv
<1>4. ASSUME NEW c \in Callers, ReportSuccess(c)
      PROVE  IInv' /\ (breaker.state = "open" => breaker'.state = "open")
  BY <1>4, Succeeding DEF ReportSuccess, Reports, IInv
<1>5. ASSUME NEW c \in Callers, ReportFailure(c)
      PROVE  IInv' /\ (breaker.state = "open" => breaker'.state = "open")
  BY <1>5, Failing DEF ReportFailure, Reports, IInv
<1>6. CASE UNCHANGED <<breaker, rested, failedProbes>>
  BY <1>6 DEF IInv, StampedIffTripped, AgeIsRested, NoMissedTrip, TrippedByStreak, TrippedByRate
<1>7. ASSUME NEW c \in Callers, Leave(c)
      PROVE  UNCHANGED <<breaker, rested, failedProbes>>
  BY <1>7 DEF Leave
<1>8. UNCHANGED vars => UNCHANGED <<breaker, rested, failedProbes>>
  BY DEF vars
<1> QED
  BY <1>1, <1>2, <1>3, <1>4, <1>5, <1>6, <1>7, <1>8 DEF Next

(* The invariant holds in every reachable state. *)
THEOREM InvariantHolds == Spec => []IInv
<1>1. Init => IInv
  BY InitKeeps
<1>2. IInv /\ TypeOK' /\ [Next]_vars => IInv'
  BY StepKeeps
<1> QED
  BY <1>1, <1>2, TypeCorrect, PTL DEF Spec

-----------------------------------------------------------------------------
(* The properties *)

(* No trip is missed: see NoMissedTrip.  It holds for every threshold and   *)
(* window, also those that a single failure meets.                          *)
THEOREM NoTripIsMissed == Spec => []NoMissedTrip
<1>1. IInv => NoMissedTrip
  BY DEF IInv
<1> QED
  BY <1>1, InvariantHolds, PTL

(* A breaker has a time of the last trip exactly while it is not closed.    *)
THEOREM StampFollowsState == Spec => []StampedIffTripped
<1>1. IInv => StampedIffTripped
  BY DEF IInv
<1> QED
  BY <1>1, InvariantHolds, PTL

(* Requests are refused for the whole cooldown after the last trip: see     *)
(* RestBeforeProbe.                                                         *)
THEOREM RestIsKept == Spec => RestBeforeProbe
<1>1. IInv /\ TypeOK' /\ [Next]_vars =>
        [breaker.state = "open" /\ breaker'.state # "open"
         => rested >= breaker.cooldown /\ breaker'.state = "half_open"]_vars
  BY StepKeeps
<1> QED
  BY <1>1, TypeCorrect, InvariantHolds, PTL DEF Spec, RestBeforeProbe

(* ... and for no longer, whoever reports what in the meantime: see         *)
(* NoOverstay.                                                              *)
THEOREM RestIsNotProlonged == Spec => []NoOverstay
<1>1. IInv => NoOverstay
  <2> SUFFICES ASSUME IInv, breaker.state = "open", rested >= breaker.cooldown
               PROVE  Allows(breaker)
    BY DEF NoOverstay
  <2>1. breaker.opened_ago = rested /\ breaker.opened_ago # NoStamp
    BY DEF IInv, AgeIsRested, StampedIffTripped
  <2>2. MaybeHalfOpen(breaker).state = "half_open"
    BY <2>1 DEF MaybeHalfOpen, IInv, TypeOK, IsBreaker, BreakerRecords
  <2> QED
    BY <2>2 DEF Allows
<1> QED
  BY <1>1, InvariantHolds, PTL

-----------------------------------------------------------------------------
(* The streak and the window *)

\* n is the length of the run of failures that the window ends with.
IsRun(recent, n) == n \in FailureRuns(recent) /\ \A m \in FailureRuns(recent) : m <= n

\* What StreakMatchesWindow says of a streak and a run of n failures.
StreakOf(streak, n) ==
    IF n < ErrorRateWindow THEN streak = Smaller(n, ConsecutiveFailures)
    ELSE streak >= Smaller(n, ConsecutiveFailures)

(* The inductive invariant has the run as a witness, since that there is a  *)
(* longest one could otherwise only be shown by induction.                  *)
RunKnown ==
    \E n \in Nat : IsRun(breaker.recent, n) /\ StreakOf(breaker.consecutive_failures, n)

\* There is one such run.
LEMMA RunIsTrailing ==
    ASSUME NEW recent \in Seq(Outcomes), NEW n \in Nat, IsRun(recent, n)
    PROVE  TrailingFailures(recent) = n
<1>1. IsRun(recent, TrailingFailures(recent))
  BY DEF IsRun, TrailingFailures
<1>2. TrailingFailures(recent) \in Nat
  BY <1>1 DEF IsRun, FailureRuns
<1> QED
  BY <1>1, <1>2 DEF IsRun

\* A success ends it.
LEMMA SuccessEndsRun ==
    ASSUME NEW recent \in Seq(Outcomes), Len(recent) <= ErrorRateWindow
    PROVE  IsRun(Remember(recent, "success"), 0)
<1> DEFINE window == Remember(recent, "success")
<1>1. Len(window) \in Nat \ {0} /\ window[Len(window)] # "failure"
  BY RememberNotes, BreakerConfigAssumption DEF Outcomes
<1> HIDE DEF window
<1>2. 0 \in FailureRuns(window)
  BY <1>1 DEF FailureRuns
<1>3. ASSUME NEW m \in FailureRuns(window) PROVE m <= 0
  BY <1>1, <1>3 DEF FailureRuns
<1> QED
  BY <1>2, <1>3 DEF IsRun, window

\* A failure makes it longer, until it fills the window.
LEMMA FailureLengthensRun ==
    ASSUME NEW recent \in Seq(Outcomes), Len(recent) <= ErrorRateWindow,
           NEW n \in Nat, IsRun(recent, n)
    PROVE  IsRun(Remember(recent, "failure"), IF n < ErrorRateWindow THEN n + 1 ELSE n)
           /\ n <= ErrorRateWindow
<1> DEFINE window == Remember(recent, "failure")
           longer == IF n < ErrorRateWindow THEN n + 1 ELSE n
<1>1. n <= Len(recent) /\ \A i \in 1..Len(recent) : i > Len(recent) - n => recent[i] = "failure"
  BY DEF IsRun, FailureRuns
<1>2. CASE Len(recent) < ErrorRateWindow
  <2>1. /\ Len(window) = Len(recent) + 1 /\ window[Len(window)] = "failure"
        /\ \A i \in 1..Len(recent) : window[i] = recent[i]
    BY <1>2 DEF Remember, Outcomes
  <2>2. longer = n + 1
    BY <1>1, <1>2, BreakerConfigAssumption
  <2> HIDE DEF window, longer
  <2>3. n + 1 \in FailureRuns(window)
    BY <1>1, <2>1 DEF FailureRuns
  <2>4. ASSUME NEW m \in FailureRuns(window) PROVE m <= n + 1
    <3>1. CASE m = 0
      BY <3>1
    <3>2. CASE m # 0
      <4>1. m - 1 \in Nat /\ m - 1 <= Len(recent)
        BY <2>1, <2>4, <3>2 DEF FailureRuns
      <4>2. ASSUME NEW i \in 1..Len(recent), i > Len(recent) - (m - 1)
            PROVE  recent[i] = "failure"
        BY <2>1, <2>4, <4>2 DEF FailureRuns
      <4>3. m - 1 \in FailureRuns(recent)
        BY <4>1, <4>2 DEF FailureRuns
      <4>4. m - 1 <= n
        BY <4>3 DEF IsRun
      <4> QED
        BY <2>4, <4>4 DEF FailureRuns
    <3> QED
      BY <3>1, <3>2
  <2> QED
    BY <1>1, <1>2, <2>2, <2>3, <2>4, BreakerConfigAssumption DEF IsRun, window, longer
<1>3. CASE Len(recent) = ErrorRateWindow
  <2>1. recent # <<>>
    BY <1>3, BreakerConfigAssumption
  <2>2. /\ Tail(recent) \in Seq(Outcomes) /\ Len(Tail(recent)) = Len(recent) - 1
        /\ \A i \in 1..(Len(recent) - 1) : Tail(recent)[i] = recent[i + 1]
    BY <2>1
  <2>3. /\ Len(window) = Len(recent) /\ window[Len(recent)] = "failure"
        /\ \A i \in 1..(Len(recent) - 1) : window[i] = recent[i + 1]
    BY <1>3, <2>2, BreakerConfigAssumption DEF Remember, Outcomes
  <2>4. longer \in Nat /\ longer <= Len(recent) /\ (n < Len(recent) => longer = n + 1)
        /\ (n = Len(recent) => longer = n)
    BY <1>1, <1>3, BreakerConfigAssumption
  <2> HIDE DEF window, longer
  <2>5. longer \in FailureRuns(window)
    <3>1. ASSUME NEW i \in 1..Len(window), i > Len(window) - longer PROVE window[i] = "failure"
      <4>1. CASE i = Len(recent)
        BY <2>3, <4>1
      <4>2. CASE i < Len(recent)
        <5>1. i + 1 \in 1..Len(recent) /\ i + 1 > Len(recent) - n
          BY <1>1, <2>3, <2>4, <3>1, <4>2
        <5> QED
          BY <1>1, <2>3, <4>2, <5>1
      <4> QED
        BY <2>3, <4>1, <4>2
    <3> QED
      BY <2>3, <2>4, <3>1 DEF FailureRuns
  <2>6. ASSUME NEW m \in FailureRuns(window) PROVE m <= longer
    <3>1. CASE m = 0 \/ n = Len(recent)
      BY <2>3, <2>4, <2>6, <3>1 DEF FailureRuns
    <3>2. CASE m # 0 /\ n < Len(recent)
      <4>1. m - 1 \in Nat /\ m - 1 <= Len(recent)
        BY <2>3, <2>6, <3>2 DEF FailureRuns
      <4>2. ASSUME NEW i \in 1..Len(recent), i > Len(recent) - (m - 1)
            PROVE  recent[i] = "failure"
        <5>1. i - 1 \in 1..(Len(recent) - 1) /\ i - 1 > Len(window) - m
          BY <2>3, <2>6, <4>1, <4>2 DEF FailureRuns
        <5> QED
          BY <2>3, <2>6, <5>1 DEF FailureRuns
      <4>3. m - 1 \in FailureRuns(recent)
        BY <4>1, <4>2 DEF FailureRuns
      <4>4. m - 1 <= n
        BY <4>3 DEF IsRun
      <4> QED
        BY <2>4, <2>6, <3>2, <4>4 DEF FailureRuns
    <3> QED
      BY <1>1, <3>1, <3>2
  <2> QED
    BY <1>1, <1>3, <2>5, <2>6 DEF IsRun, window, longer
<1> QED
  BY <1>2, <1>3, BreakerConfigAssumption

\* Streak and run grow together.
LEMMA StreakGrows ==
    ASSUME NEW streak \in 0..ConsecutiveFailures, NEW n \in Nat, n <= ErrorRateWindow,
           StreakOf(streak, n)
    PROVE  StreakOf(Smaller(streak + 1, ConsecutiveFailures),
                    IF n < ErrorRateWindow THEN n + 1 ELSE n)
BY BreakerConfigAssumption DEF StreakOf, Smaller

\* Every step keeps the run known.
LEMMA StepKeepsRun == ASSUME TypeOK, RunKnown, [Next]_vars PROVE RunKnown'
<1> USE DEF TypeOK, IsBreaker, BreakerRecords
<1>1. PICK n \in Nat : IsRun(breaker.recent, n) /\ StreakOf(breaker.consecutive_failures, n)
  BY DEF RunKnown
<1>2. ASSUME breaker'.recent = breaker.recent,
             breaker'.consecutive_failures = breaker.consecutive_failures
      PROVE  RunKnown'
  BY <1>1, <1>2 DEF RunKnown
<1>3. ASSUME Becomes(MaybeHalfOpen(breaker)) PROVE RunKnown'
  BY <1>2, <1>3 DEF Becomes, MaybeHalfOpen
<1>4. ASSUME Becomes(BreakerSuccess(breaker)) PROVE RunKnown'
  <2>1. breaker'.recent = Remember(breaker.recent, "success")
        /\ breaker'.consecutive_failures = 0
    BY <1>4 DEF Becomes, BreakerSuccess
  <2>2. StreakOf(0, 0)
    BY BreakerConfigAssumption DEF StreakOf, Smaller
  <2> QED
    BY <2>1, <2>2, SuccessEndsRun DEF RunKnown
<1>5. ASSUME Becomes(BreakerFailure(breaker)) PROVE RunKnown'
  <2> DEFINE noted == NoteFailure(breaker)
             longer == IF n < ErrorRateWindow THEN n + 1 ELSE n
  <2>1. /\ noted.recent = Remember(breaker.recent, "failure")
        /\ noted.consecutive_failures
             = Smaller(breaker.consecutive_failures + 1, ConsecutiveFailures)
    BY DEF NoteFailure
  <2>2. breaker' \in {noted, Open(noted),
                      [Open(noted) EXCEPT !.cooldown = Smaller(MaxCooldownSeconds, 2 * @)]}
    BY <1>5 DEF Becomes, BreakerFailure
  <2>3. breaker'.recent = noted.recent
        /\ breaker'.consecutive_failures = noted.consecutive_failures
    BY <2>2 DEF Open, NoteFailure
  <2>4. IsRun(Remember(breaker.recent, "failure"), longer) /\ n <= ErrorRateWindow
    BY <1>1, FailureLengthensRun
  <2>5. StreakOf(Smaller(breaker.consecutive_failures + 1, ConsecutiveFailures), longer)
    BY <1>1, <2>4, StreakGrows
  <2>6. longer \in Nat
    OBVIOUS
  <2> QED
    BY <2>1, <2>3, <2>4, <2>5, <2>6 DEF RunKnown
<1>6. CASE Tick
  BY <1>2, <1>6 DEF Tick, BreakerTick
<1>7. CASE UNCHANGED vars
  BY <1>2, <1>7 DEF vars
<1> QED
  BY <1>2, <1>3, <1>4, <1>5, <1>6, <1>7
  DEF Next, ReadState, Check, ReportSuccess, ReportFailure, Reports, Leave

(* The streak is the run of failures at the end of the window, or longer    *)
(* where that fills the window: see StreakMatchesWindow.                    *)
THEOREM StreakIsTheRun == Spec => []StreakMatchesWindow
<1>1. Init => RunKnown
  <2> SUFFICES ASSUME Init PROVE RunKnown
    OBVIOUS
  <2>1. breaker.recent = <<>> /\ breaker.consecutive_failures = 0
    BY DEF Init, InitBreaker
  <2>2. IsRun(<<>>, 0) /\ StreakOf(0, 0)
    BY BreakerConfigAssumption DEF IsRun, FailureRuns, StreakOf, Smaller
  <2> QED
    BY <2>1, <2>2 DEF RunKnown
<1>2. TypeOK /\ RunKnown /\ [Next]_vars => RunKnown'
  BY StepKeepsRun
<1>3. TypeOK /\ RunKnown => StreakMatchesWindow
  <2> SUFFICES ASSUME TypeOK, RunKnown PROVE StreakMatchesWindow
    OBVIOUS
  <2>1. PICK n \in Nat : IsRun(breaker.recent, n) /\ StreakOf(breaker.consecutive_failures, n)
    BY DEF RunKnown
  <2>2. TrailingFailures(breaker.recent) = n
    BY <2>1, RunIsTrailing DEF TypeOK, IsBreaker, BreakerRecords
  <2> QED
    BY <2>1, <2>2 DEF StreakMatchesWindow, StreakOf
<1> QED
  BY <1>1, <1>2, <1>3, TypeCorrect, PTL DEF Spec

-----------------------------------------------------------------------------
(* The backoff *)

\* g doubles from 1 on, as far as n.
DoublesTo(g, n) ==
    /\ g \in [0..n -> Nat]
    /\ g[0] = 1
    /\ \A i \in 1..n : g[i] = 2 * g[i - 1]

\* There is a g for every n: else there would be a least n without one, and the g of the
\* number before could be continued.
LEMMA DoublingExists == \A n \in Nat : \E g : DoublesTo(g, n)
<1> DEFINE Without == {n \in Nat : ~\E g : DoublesTo(g, n)}
<1>1. ASSUME Without # {} PROVE FALSE
  <2>1. PICK n \in Without : \A m \in Without : n <= m
    BY <1>1, LeastMember
  <2>2. CASE n = 0
    <3>1. DoublesTo([i \in 0..0 |-> 1], 0)
      BY DEF DoublesTo
    <3> QED
      BY <2>2, <3>1
  <2>3. CASE n # 0
    <3>1. n - 1 \in Nat /\ n - 1 \notin Without
      BY <2>1, <2>3
    <3>2. PICK g : DoublesTo(g, n - 1)
      BY <3>1
    <3> DEFINE longer == [i \in 0..n |-> IF i = n THEN 2 * g[n - 1] ELSE g[i]]
    <3>3. \A i \in 0..(n - 1) : longer[i] = g[i]
      BY <3>1
    <3>4. longer \in [0..n -> Nat] /\ longer[0] = 1
      BY <2>3, <3>1, <3>2 DEF DoublesTo
    <3>5. ASSUME NEW i \in 1..n PROVE longer[i] = 2 * longer[i - 1]
      <4>1. i - 1 \in 0..(n - 1) /\ longer[i - 1] = g[i - 1]
        BY <3>1, <3>3
      <4>2. CASE i = n
        BY <4>1, <4>2
      <4>3. CASE i # n
        <5>1. i \in 1..(n - 1) /\ longer[i] = g[i]
          BY <3>1, <3>3, <4>3
        <5> QED
          BY <3>2, <4>1, <5>1 DEF DoublesTo
      <4> QED
        BY <4>2, <4>3
    <3>6. DoublesTo(longer, n)
      BY <3>4, <3>5 DEF DoublesTo
    <3> QED
      BY <3>6
  <2> QED
    BY <2>2, <2>3
<1> QED
  BY <1>1

\* And but one: two of them would part at a least place.
LEMMA DoublingIsUnique ==
    ASSUME NEW n \in Nat, NEW k \in Nat, n <= k, NEW g, NEW h, DoublesTo(g, n), DoublesTo(h, k)
    PROVE  \A i \in 0..n : g[i] = h[i]
<1> DEFINE Parted == {i \in 0..n : g[i] # h[i]}
<1>1. ASSUME Parted # {} PROVE FALSE
  <2>1. PICK i \in Parted : \A j \in Parted : i <= j
    <3>1. Parted \in SUBSET Nat
      OBVIOUS
    <3> QED
      BY <1>1, <3>1, LeastMember
  <2>2. i # 0
    BY DEF DoublesTo
  <2>3. i - 1 \in 0..n /\ g[i - 1] = h[i - 1]
    BY <2>1, <2>2
  <2>4. g[i] = 2 * g[i - 1] /\ h[i] = 2 * h[i - 1]
    BY <2>2 DEF DoublesTo
  <2> QED
    BY <2>3, <2>4
<1> QED
  BY <1>1

\* So the recursive function is what its equation says.
LEMMA DoublingsDouble ==
    /\ \A n \in Nat : Doublings[n] \in Nat
    /\ Doublings[0] = 1
    /\ \A n \in Nat : Doublings[n + 1] = 2 * Doublings[n]
<1> DEFINE to(n) == CHOOSE g : DoublesTo(g, n)
           all == [n \in Nat |-> to(n)[n]]
<1>1. \A n \in Nat : DoublesTo(to(n), n)
  BY DoublingExists
<1> HIDE DEF to
<1>2. all[0] = 1 /\ \A n \in Nat : all[n] \in Nat
  <2>1. ASSUME NEW n \in Nat PROVE to(n)[n] \in Nat
    BY <1>1, <2>1 DEF DoublesTo
  <2>2. to(0)[0] = 1
    BY <1>1 DEF DoublesTo
  <2> QED
    BY <2>1, <2>2
<1>3. ASSUME NEW n \in Nat PROVE all[n + 1] = 2 * all[n]
  <2>1. DoublesTo(to(n), n) /\ DoublesTo(to(n + 1), n + 1)
    BY <1>1
  <2>2. to(n)[n] = to(n + 1)[n]
    BY <2>1, DoublingIsUnique
  <2>3. to(n + 1)[n + 1] = 2 * to(n + 1)[n]
    <3>1. n + 1 \in 1..(n + 1) /\ (n + 1) - 1 = n
      OBVIOUS
    <3> QED
      BY <2>1, <3>1 DEF DoublesTo
  <2> QED
    BY <2>2, <2>3
<1> DEFINE Equation(f) == f = [n \in Nat |-> IF n = 0 THEN 1 ELSE 2 * f[n - 1]]
<1>4. Equation(all)
  <2>1. ASSUME NEW n \in Nat PROVE all[n] = IF n = 0 THEN 1 ELSE 2 * all[n - 1]
    BY <1>2, <1>3, <2>1
  <2> HIDE DEF all
  <2>2. all = [n \in Nat |-> all[n]]
    BY DEF all
  <2> QED
    BY <2>1, <2>2
<1> HIDE DEF all
<1>5. Equation(Doublings)
  BY <1>4 DEF Doublings
<1>6. Doublings[0] = 1 /\ \A n \in Nat : Doublings[n + 1] = 2 * Doublings[n]
  BY <1>5
<1>7. \A n \in Nat : Doublings[n] \in Nat
  <2> DEFINE Odd == {n \in Nat : Doublings[n] \notin Nat}
  <2>1. ASSUME Odd # {} PROVE FALSE
    <3>1. PICK n \in Odd : \A m \in Odd : n <= m
      BY <2>1, LeastMember
    <3>2. n # 0
      BY <1>6
    <3>3. n - 1 \in Nat /\ Doublings[n - 1] \in Nat
      BY <3>1, <3>2
    <3>4. Doublings[n] = 2 * Doublings[n - 1]
      BY <1>6, <3>3
    <3> QED
      BY <3>3, <3>4
  <2> QED
    BY <2>1
<1> QED
  BY <1>6, <1>7

\* The cooldown after n failed probes in a row.
CooldownAfter(n) ==
    IF n = 0 THEN CooldownSeconds ELSE Smaller(MaxCooldownSeconds, CooldownSeconds * Doublings[n])

\* One more failed probe doubles it up to its cap, also where the count stops.
LEMMA OneMoreDoubling ==
    ASSUME NEW n \in 0..DoublingBound
    PROVE  Smaller(MaxCooldownSeconds, 2 * CooldownAfter(n)) = CooldownAfter(Smaller(n + 1, DoublingBound))
<1> DEFINE base == CooldownSeconds * Doublings[n]
           next == CooldownSeconds * Doublings[n + 1]
           last == CooldownSeconds * Doublings[DoublingBound]
<1>1. n \in Nat /\ Doublings[n] \in Nat /\ Doublings[n + 1] = 2 * Doublings[n]
  BY DoublingsDouble, CircuitAssumption
<1>2. base \in Nat /\ next = 2 * base
  BY <1>1, BreakerConfigAssumption
<1>3. n = 0 => base = CooldownSeconds
  BY DoublingsDouble, BreakerConfigAssumption
<1>4. last >= MaxCooldownSeconds /\ (n = DoublingBound => last = base)
  BY CircuitAssumption
<1>5. DoublingBound \in Nat \ {0}
  BY CircuitAssumption
<1>6. CooldownAfter(n) = IF n = 0 THEN CooldownSeconds ELSE Smaller(MaxCooldownSeconds, base)
  BY DEF CooldownAfter
<1>7. n < DoublingBound => CooldownAfter(Smaller(n + 1, DoublingBound)) = Smaller(MaxCooldownSeconds, next)
  BY <1>1, <1>5 DEF CooldownAfter, Smaller
<1>8. n = DoublingBound => CooldownAfter(Smaller(n + 1, DoublingBound)) = Smaller(MaxCooldownSeconds, base)
  BY <1>1, <1>5 DEF CooldownAfter, Smaller
<1> HIDE DEF base, next, last
<1> QED
  BY <1>1, <1>2, <1>3, <1>4, <1>5, <1>6, <1>7, <1>8, BreakerConfigAssumption DEF Smaller

(* The cooldown is that of the failed probes, and a closed circuit has      *)
(* none: a failure reported late, to a closed or an open one, must not find *)
(* a count left over.                                                       *)
BInv ==
    /\ breaker.cooldown = CooldownAfter(failedProbes)
    /\ breaker.state = "closed" => failedProbes = 0

\* Every step keeps it.
LEMMA StepKeepsBackoff == ASSUME TypeOK, BInv, [Next]_vars PROVE BInv'
<1> USE DEF TypeOK, IsBreaker, BreakerRecords, BreakerStates
<1>1. ASSUME breaker'.state = breaker.state, breaker'.cooldown = breaker.cooldown,
             failedProbes' = failedProbes
      PROVE  BInv'
  BY <1>1 DEF BInv, CooldownAfter
<1>2. ASSUME Becomes(MaybeHalfOpen(breaker)) PROVE BInv'
  <2>1. /\ breaker'.cooldown = breaker.cooldown
        /\ breaker'.state # breaker.state => breaker'.state = "half_open" /\ breaker.state = "open"
    BY <1>2 DEF Becomes, MaybeHalfOpen
  <2>2. failedProbes' = failedProbes
    BY <1>2, <2>1 DEF Becomes, BInv
  <2> QED
    BY <2>1, <2>2 DEF BInv, CooldownAfter
<1>3. ASSUME Becomes(BreakerSuccess(breaker)) PROVE BInv'
  <2>1. breaker' = BreakerSuccess(breaker)
    BY <1>3 DEF Becomes
  <2>2. CASE breaker.state = "half_open"
    <3>1. breaker'.state = "closed" /\ breaker'.cooldown = CooldownSeconds
      BY <2>1, <2>2 DEF BreakerSuccess
    <3>2. failedProbes' = 0
      BY <1>3, <2>1, <3>1 DEF Becomes
    <3> QED
      BY <3>1, <3>2 DEF BInv, CooldownAfter
  <2>3. CASE breaker.state # "half_open"
    <3>1. breaker'.state = breaker.state /\ breaker'.cooldown = breaker.cooldown
      BY <2>1, <2>3 DEF BreakerSuccess
    <3>2. failedProbes' = failedProbes
      BY <1>3, <2>1, <2>3, <3>1 DEF Becomes, BInv
    <3> QED
      BY <1>1, <3>1, <3>2
  <2> QED
    BY <2>2, <2>3
<1>4. ASSUME Becomes(BreakerFailure(breaker)) PROVE BInv'
  <2> DEFINE noted == NoteFailure(breaker)
  <2>1. noted.state = breaker.state /\ noted.cooldown = breaker.cooldown
        /\ DOMAIN noted = DOMAIN breaker
    BY DEF NoteFailure
  <2>2. breaker' = BreakerFailure(breaker)
    BY <1>4 DEF Becomes
  <2>3. CASE breaker.state = "half_open"
    <3>1. breaker'.state = "open"
          /\ breaker'.cooldown = Smaller(MaxCooldownSeconds, 2 * breaker.cooldown)
      BY <2>2, <2>3 DEF BreakerFailure, Open, NoteFailure
    <3>2. failedProbes' = Smaller(failedProbes + 1, DoublingBound)
      BY <1>4, <2>2, <2>3, <3>1 DEF Becomes
    <3> QED
      BY <3>1, <3>2, OneMoreDoubling DEF BInv, CooldownAfter
  <2>4. CASE breaker.state # "half_open"
    <3>1. breaker' \in {noted, Open(noted)}
      BY <2>2, <2>4 DEF BreakerFailure
    <3>2. breaker'.cooldown = breaker.cooldown
          /\ (breaker'.state = breaker.state \/ breaker'.state = "open")
      BY <3>1 DEF Open, NoteFailure
    <3>3. failedProbes' = failedProbes
      BY <1>4, <2>2, <2>4, <3>2 DEF Becomes, BInv
    <3> QED
      BY <3>2, <3>3 DEF BInv, CooldownAfter
  <2> QED
    BY <2>3, <2>4
<1>5. CASE Tick
  BY <1>1, <1>5 DEF Tick, BreakerTick
<1>6. CASE UNCHANGED vars
  BY <1>1, <1>6 DEF vars
<1> QED
  BY <1>1, <1>2, <1>3, <1>4, <1>5, <1>6
  DEF Next, ReadState, Check, ReportSuccess, ReportFailure, Reports, Leave

(* The cooldown is the configured one, doubled by every failed probe since  *)
(* the circuit was last closed, up to its cap: see CooldownIsBackoff.       *)
THEOREM CooldownBacksOff == Spec => []CooldownIsBackoff
<1>1. Init => BInv
  BY DEF Init, InitBreaker, BInv, CooldownAfter
<1>2. TypeOK /\ BInv /\ [Next]_vars => BInv'
  BY StepKeepsBackoff
<1>3. BInv => CooldownIsBackoff
  BY DEF BInv, CooldownIsBackoff, CooldownAfter
<1> QED
  BY <1>1, <1>2, <1>3, TypeCorrect, PTL DEF Spec

-----------------------------------------------------------------------------
(* The abstract specification *)

\* Someone asks or looks, and may be let through unless the circuit stays open.
LEMMA AskIsAbstract ==
    ASSUME TypeOK, Stamped(breaker), AskedTo(breaker, breaker'), outdated' = outdated,
           \/ inside' = inside
           \/ breaker'.state # "open" /\ \E c \in Callers \ inside : inside' = inside \cup {c}
    PROVE  [Backoff!NextWithLate]_(Backoff!vars)
<1>1. Backoff!Inside = inside
  BY DEF Backoff!Inside, TypeOK
<1>2. CASE Unseen(breaker, breaker') /\ inside' = inside
  BY <1>2 DEF Unseen, Backoff!vars
<1>3. ASSUME Unseen(breaker, breaker'), breaker'.state # "open",
             NEW c \in Callers \ inside, inside' = inside \cup {c}
      PROVE  Backoff!Enter(c)
  BY <1>1, <1>3 DEF Unseen, Backoff!Enter, TypeOK
<1>4. CASE HalfOpensTo(breaker, breaker')
  <2>1. (inside \ outdated)' = inside \ outdated
        \/ \E c \in Callers \ inside : (inside \ outdated)' = (inside \ outdated) \cup {c}
    BY DEF TypeOK
  <2> QED
    BY <1>1, <1>4, <2>1 DEF HalfOpensTo, Backoff!Probe, Backoff!Next, Backoff!NextWithLate
<1> QED
  BY <1>2, <1>3, <1>4 DEF AskedTo, Backoff!Next, Backoff!NextWithLate

\* A report, of a probe or of someone let through before the trip, or none.
LEMMA ReportIsAbstract ==
    ASSUME TypeOK, Stamped(breaker), Stamped(breaker'), ReportedTo(breaker, breaker'),
           NEW c \in inside, inside' = inside \ {c},
           outdated' = (IF Trips(breaker') THEN inside ELSE outdated) \ {c}
    PROVE  Backoff!NextWithLate
<1>1. c \in Callers /\ Backoff!Inside = inside /\ outdated \subseteq inside
  BY DEF Backoff!Inside, TypeOK
<1>2. (inside \ outdated)' = IF Trips(breaker') THEN {} ELSE (inside \ outdated) \ {c}
  OBVIOUS
<1>3. CASE Unseen(breaker, breaker')
  <2>1. ~Trips(breaker')
    BY <1>3 DEF Unseen, Trips
  <2>2. Backoff!Done(c)
    BY <1>1, <1>2, <1>3, <2>1 DEF Unseen, Backoff!Done, Backoff!IsDone
  <2> QED
    BY <1>1, <2>2 DEF Backoff!Next, Backoff!NextWithLate
<1>4. CASE TripsTo(breaker, breaker')
  <2>1. Trips(breaker')
    BY <1>4 DEF TripsTo, Trips
  <2>2. Backoff!Trip(c)
    BY <1>1, <1>2, <1>4, <2>1 DEF TripsTo, Backoff!Trip, Backoff!Opens
  <2> QED
    BY <1>1, <2>2 DEF Backoff!Next, Backoff!NextWithLate
<1>5. CASE ClosesTo(breaker, breaker')
  <2>1. ~Trips(breaker')
    BY <1>5 DEF ClosesTo, Trips
  <2>2. Backoff!Closes(c)
    BY <1>1, <1>2, <1>5, <2>1 DEF ClosesTo, Backoff!Closes, Backoff!IsDone
  <2> QED
    BY <1>1, <2>2
    DEF Backoff!Next, Backoff!NextWithLate, Backoff!ProbeSucceeds, Backoff!LateSucceeds
<1>6. CASE ReopensTo(breaker, breaker')
  <2>1. Trips(breaker')
    BY <1>6 DEF ReopensTo, Trips
  <2>2. Backoff!Reopens(c)
    BY <1>1, <1>2, <1>6, <2>1
    DEF ReopensTo, Backoff!Reopens, Backoff!Opens, Backoff!Least, Smaller
  <2> QED
    BY <1>1, <2>2
    DEF Backoff!Next, Backoff!NextWithLate, Backoff!ProbeFails, Backoff!LateFails
<1> QED
  BY <1>3, <1>4, <1>5, <1>6 DEF ReportedTo

\* Time passes.
LEMMA TickIsAbstract ==
    ASSUME AgesTo(breaker, breaker'), UNCHANGED <<inside, outdated>>
    PROVE  [Backoff!NextWithLate]_(Backoff!vars)
<1>1. CASE Unseen(breaker, breaker')
  BY <1>1 DEF Unseen, Backoff!vars
<1>2. CASE RestsTo(breaker, breaker')
  <2>1. Backoff!Rest
    BY <1>2 DEF RestsTo, Backoff!Rest, Backoff!Least, Backoff!LongestRest,
                Smaller, Larger, LongestCooldown
  <2> QED
    BY <2>1 DEF Backoff!Next, Backoff!NextWithLate
<1> QED
  BY <1>1, <1>2 DEF AgesTo

(* CircuitBreaker implements BackoffCircuit: however many callers report    *)
(* whatever, and whatever the thresholds, what they see is a circuit that   *)
(* trips, rests for its cooldown, lets probes through, and doubles the      *)
(* cooldown or closes when one of them, or one let through before the trip, *)
(* reports.  (BacksOff without its fairness, which is TLC's.)               *)
THEOREM ImplementsBackoff == Spec => Backoff!Safety
<1>1. Init => Backoff!Init
  BY DEF Init, InitBreaker, Backoff!Init
<1>2. TypeOK /\ StampedIffTripped /\ StampedIffTripped' /\ [Next]_vars
        => [Backoff!NextWithLate]_(Backoff!vars)
  <2> SUFFICES ASSUME TypeOK, StampedIffTripped, StampedIffTripped', [Next]_vars
               PROVE  [Backoff!NextWithLate]_(Backoff!vars)
    OBVIOUS
  <2>1. IsBreaker(breaker) /\ Stamped(breaker) /\ Stamped(breaker')
    BY DEF TypeOK, StampedIffTripped, Stamped
  <2>2. CASE Tick
    BY <2>1, <2>2, MethodsBackOff, TickIsAbstract DEF Tick
  <2>3. CASE ReadState
    BY <2>1, <2>3, MethodsBackOff, AskIsAbstract DEF ReadState, Becomes
  <2>4. ASSUME NEW c \in Callers, Check(c)
        PROVE  [Backoff!NextWithLate]_(Backoff!vars)
    BY <2>1, <2>4, MethodsBackOff, AskIsAbstract DEF Check, Becomes, Allows
  <2>5. ASSUME NEW c \in Callers, ReportSuccess(c) \/ ReportFailure(c)
        PROVE  [Backoff!NextWithLate]_(Backoff!vars)
    BY <2>1, <2>5, MethodsBackOff, ReportIsAbstract
    DEF ReportSuccess, ReportFailure, Reports, Becomes
  <2>6. ASSUME NEW c \in Callers, Leave(c)
        PROVE  [Backoff!NextWithLate]_(Backoff!vars)
    <3>1. Unseen(breaker, breaker') /\ ~Trips(breaker')
      BY <2>6 DEF Leave, Unseen, Trips
    <3> QED
      BY <2>1, <2>6, <3>1, ReportIsAbstract DEF Leave, ReportedTo
  <2>7. CASE UNCHANGED vars
    BY <2>1, <2>7, AskIsAbstract DEF vars, AskedTo, Unseen
  <2> QED
    BY <2>2, <2>3, <2>4, <2>5, <2>6, <2>7 DEF Next
<1> QED
  BY <1>1, <1>2, TypeCorrect, StampFollowsState, PTL DEF Spec, Backoff!Safety

=============================================================================

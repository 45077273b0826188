------------------------------ MODULE Breaker ------------------------------
(***************************************************************************)
(* The methods of breaker.py's CircuitBreaker as operators on a breaker    *)
(* record.  Every method runs under self._lock, so each is one atomic      *)
(* transformation of the record; the modules that own a breaker decide     *)
(* when the methods are called (CircuitBreaker, RequestPipeline).          *)
(*                                                                         *)
(* Three data abstractions, none of which changes an answer of the code:   *)
(*  - _opened_at is kept as its age opened_ago, which stops counting at    *)
(*    LongestCooldown: the code only compares the age with _cooldown;      *)
(*  - _consecutive_failures stops counting at ConsecutiveFailures: the     *)
(*    code only asks whether it has reached that number;                   *)
(*  - error_rate_threshold is the fraction ErrorNum / ErrorDen.            *)
(* The reason string of the last trip is left out.                         *)
(***************************************************************************)
EXTENDS Integers, Sequences, FiniteSets

CONSTANTS
    ConsecutiveFailures,    \* failures in a row that trip the circuit
    ErrorNum, ErrorDen,     \* the error rate that trips it
    ErrorRateWindow,        \* outcomes remembered, and needed before the rate counts
    CooldownSeconds,        \* the first cooldown
    MaxCooldownSeconds      \* the cap of the doubled ones

ASSUME BreakerConfigAssumption ==
    /\ ConsecutiveFailures \in Nat \ {0}
    /\ ErrorNum \in Nat /\ ErrorDen \in Nat \ {0}
    /\ ErrorRateWindow \in Nat \ {0}
    /\ CooldownSeconds \in Nat
    /\ MaxCooldownSeconds \in Nat

BreakerStates == {"closed", "open", "half_open"}
Outcomes == {"success", "failure"}

\* _opened_at is None
NoStamp == -1

Smaller(a, b) == IF a <= b THEN a ELSE b
Larger(a, b) == IF a >= b THEN a ELSE b

LongestCooldown == Larger(CooldownSeconds, MaxCooldownSeconds)

BreakerRecords ==
    [ state : BreakerStates,
      consecutive_failures : 0..ConsecutiveFailures,
      recent : Seq(Outcomes),
      opened_ago : {NoStamp} \cup (0..LongestCooldown),
      cooldown : 0..LongestCooldown ]

\* What a breaker record is, with the bound of the deque(maxlen=...)
IsBreaker(b) ==
    /\ b \in BreakerRecords
    /\ Len(b.recent) <= ErrorRateWindow

InitBreaker ==
    [ state |-> "closed", consecutive_failures |-> 0, recent |-> <<>>,
      opened_ago |-> NoStamp, cooldown |-> CooldownSeconds ]

-----------------------------------------------------------------------------
(* Helpers of the methods *)

\* Fault: the window of outcomes has no bound
RememberAll(recent, o) == Append(recent, o)

\* deque(maxlen=error_rate_window).append: a full window forgets its oldest
Remember(recent, o) ==
    IF Len(recent) < ErrorRateWindow
    THEN Append(recent, o)
    ELSE Append(Tail(recent), o)

Errors(recent) == Cardinality({i \in DOMAIN recent : recent[i] = "failure"})

TrippedByStreak(b) == b.consecutive_failures >= ConsecutiveFailures

TrippedByRate(b) ==
    /\ Len(b.recent) >= ErrorRateWindow
    /\ Errors(b.recent) * ErrorDen >= ErrorNum * Len(b.recent)

\* Fault: a trip that leaves the time of the previous one in place
OpenKeepsStamp(b) ==
    [b EXCEPT !.state = "open", !.opened_ago = Larger(@, 0)]

\* _open_locked
Open(b) == [b EXCEPT !.state = "open", !.opened_ago = 0]

\* _maybe_transition_to_half_open_locked
MaybeHalfOpen(b) ==
    IF b.state = "open" /\ b.opened_ago # NoStamp /\ b.opened_ago >= b.cooldown
    THEN [b EXCEPT !.state = "half_open"]
    ELSE b

-----------------------------------------------------------------------------
(* The public methods *)

\* check() leaves MaybeHalfOpen(b) behind and allows the caller unless open
Allows(b) == MaybeHalfOpen(b).state # "open"

\* Fault: a successful probe leaves the doubled cooldown in place
SuccessKeepsBackoff(b) ==
    LET noted == [b EXCEPT !.recent = Remember(@, "success"),
                           !.consecutive_failures = 0]
    IN  IF b.state = "half_open"
        THEN [noted EXCEPT !.state = "closed", !.opened_ago = NoStamp]
        ELSE noted

\* Fault: a success does not end the streak of failures
SuccessKeepsStreak(b) ==
    LET noted == [b EXCEPT !.recent = Remember(@, "success")]
    IN  IF b.state = "half_open"
        THEN [noted EXCEPT !.state = "closed", !.cooldown = CooldownSeconds,
                           !.opened_ago = NoStamp]
        ELSE noted

\* Fault: a success in any state forgets when the circuit tripped
SuccessClearsStamp(b) ==
    [b EXCEPT !.recent = Remember(@, "success"), !.consecutive_failures = 0,
              !.state = IF @ = "half_open" THEN "closed" ELSE @,
              !.cooldown = CooldownSeconds, !.opened_ago = NoStamp]

\* Fault: a late success closes the circuit while it rests, too
SuccessClosesAny(b) ==
    [b EXCEPT !.recent = Remember(@, "success"), !.consecutive_failures = 0,
              !.state = "closed", !.cooldown = CooldownSeconds, !.opened_ago = NoStamp]

\* report_success
BreakerSuccess(b) ==
    LET noted == [b EXCEPT !.recent = Remember(@, "success"),
                           !.consecutive_failures = 0]
    IN  IF b.state = "half_open"
        THEN [noted EXCEPT !.state = "closed",
                           !.cooldown = CooldownSeconds,
                           !.opened_ago = NoStamp]
        ELSE noted

\* A failure as the methods record it, whatever the state
NoteFailure(b) ==
    [b EXCEPT !.recent = Remember(@, "failure"),
              !.consecutive_failures = Smaller(@ + 1, ConsecutiveFailures)]

\* Fault: only the streak is looked at, the error rate never trips
FailureIgnoresRate(b) ==
    LET noted == NoteFailure(b)
    IN  CASE b.state = "half_open" ->
               [Open(noted) EXCEPT !.cooldown = Smaller(MaxCooldownSeconds, 2 * @)]
          [] b.state = "open" -> noted
          [] OTHER -> IF TrippedByStreak(noted) THEN Open(noted) ELSE noted

\* Fault: a failure reported late, while open, restarts the cooldown
FailureRestartsCooldown(b) ==
    LET noted == NoteFailure(b)
    IN  IF b.state \in {"half_open", "open"}
        THEN [Open(noted) EXCEPT !.cooldown = Smaller(MaxCooldownSeconds, 2 * @)]
        ELSE IF TrippedByStreak(noted) \/ TrippedByRate(noted)
             THEN Open(noted)
             ELSE noted

\* report_failure
BreakerFailure(b) ==
    LET noted == NoteFailure(b)
    IN  CASE b.state = "half_open" ->
               [Open(noted) EXCEPT !.cooldown = Smaller(MaxCooldownSeconds, 2 * @)]
          [] b.state = "open" -> noted
          [] OTHER -> IF TrippedByStreak(noted) \/ TrippedByRate(noted)
                      THEN Open(noted)
                      ELSE noted

\* One second passes: the age of the last trip grows
BreakerTick(b) ==
    IF b.opened_ago = NoStamp
    THEN b
    ELSE [b EXCEPT !.opened_ago = Smaller(@ + 1, LongestCooldown)]

=============================================================================

--------------------------- MODULE CircuitBreaker ---------------------------
(***************************************************************************)
(* One host's CircuitBreaker and the callers of the clients that use it.   *)
(*                                                                         *)
(* A caller asks check(), and if it is let through it is at some later     *)
(* time done: it reports a success or a failure, or leaves without any     *)
(* report (the task is cancelled, or an exception other than a timeout or  *)
(* a transport error escapes _request_once).  Between the two it may wait  *)
(* for the semaphore, sleep for a token and wait for the server, so any    *)
(* number of other callers' calls and any time may pass in between.        *)
(* The history variables are not in the code; the properties need them.     *)
(***************************************************************************)
EXTENDS Breaker

CONSTANTS
    Callers,        \* threads or tasks that send requests to the host
    DoublingBound   \* failures in a row while half-open that are told apart

\* What n failures in a row, each while half-open, multiply the cooldown by
Doublings[n \in Nat] == IF n = 0 THEN 1 ELSE 2 * Doublings[n - 1]

ASSUME CircuitAssumption ==
    /\ DoublingBound \in Nat \ {0}
    /\ CooldownSeconds * Doublings[DoublingBound] >= MaxCooldownSeconds

VARIABLES
    breaker,        \* the CircuitBreaker object
    inside,         \* the callers let through that are not done yet
    outdated,       \* history: those of them let through before the last trip
    rested,         \* history: seconds since the circuit last tripped
    failedProbes    \* history: times it reopened since it was last closed

vars == <<breaker, inside, outdated, rested, failedProbes>>

TypeOK ==
    /\ IsBreaker(breaker)
    /\ inside \subseteq Callers /\ outdated \subseteq inside
    /\ rested \in 0..LongestCooldown
    /\ failedProbes \in 0..DoublingBound

Init ==
    /\ breaker = InitBreaker
    /\ inside = {} /\ outdated = {}
    /\ rested = 0
    /\ failedProbes = 0

-----------------------------------------------------------------------------

Trips(b) == breaker.state # "open" /\ b.state = "open"

\* A method of the breaker leaves b behind; what the histories see of it
Becomes(b) ==
    /\ breaker' = b
    /\ rested' = IF Trips(b) THEN 0 ELSE rested
    /\ failedProbes' =
           CASE b.state = "closed" -> 0
             [] breaker.state = "half_open" /\ b.state = "open" ->
                    Smaller(failedProbes + 1, DoublingBound)
             [] OTHER -> failedProbes

\* Fault: check() looks at the state without the transition to half-open
CheckWithoutTransition(c) ==
    /\ c \notin inside
    /\ Becomes(breaker)
    /\ inside' = IF breaker.state # "open" THEN inside \cup {c} ELSE inside
    /\ UNCHANGED outdated

\* check(), by a request that is about to be sent
Check(c) ==
    /\ c \notin inside
    /\ Becomes(MaybeHalfOpen(breaker))
    /\ inside' = IF Allows(breaker) THEN inside \cup {c} ELSE inside
    /\ UNCHANGED outdated

\* The property `state`, read by snapshot(): it makes the transition too
ReadState == Becomes(MaybeHalfOpen(breaker)) /\ UNCHANGED <<inside, outdated>>

\* c is done, and its report leaves b behind
Reports(c, b) ==
    /\ c \in inside
    /\ Becomes(b)
    /\ inside' = inside \ {c}
    /\ outdated' = (IF Trips(b) THEN inside ELSE outdated) \ {c}

ReportSuccess(c) == Reports(c, BreakerSuccess(breaker))

ReportFailure(c) == Reports(c, BreakerFailure(breaker))

\* A request that ends without a report
Leave(c) ==
    /\ c \in inside
    /\ inside' = inside \ {c} /\ outdated' = outdated \ {c}
    /\ UNCHANGED <<breaker, rested, failedProbes>>

Tick ==
    /\ breaker' = BreakerTick(breaker)
    /\ rested' = Smaller(rested + 1, LongestCooldown)
    /\ UNCHANGED <<inside, outdated, failedProbes>>

Finish(c) == ReportSuccess(c) \/ ReportFailure(c) \/ Leave(c)

Next ==
    \/ Tick
    \/ ReadState
    \/ \E c \in Callers : Check(c) \/ ReportSuccess(c) \/ ReportFailure(c) \/ Leave(c)

(* Time passes, the agent keeps asking (no caller in particular), and a     *)
(* request that was let through ends: httpx gives every phase a timeout.    *)
Fairness ==
    /\ WF_vars(Tick)
    /\ WF_vars(\E c \in Callers : Check(c))
    /\ \A c \in Callers : WF_vars(Finish(c))

Spec == Init /\ [][Next]_vars /\ Fairness

-----------------------------------------------------------------------------
(* The failing outcomes at the end of the window *)

FailureRuns(recent) ==
    {n \in 0..Len(recent) : \A i \in 1..Len(recent) : i > Len(recent) - n => recent[i] = "failure"}

TrailingFailures(recent) == CHOOSE n \in FailureRuns(recent) : \A m \in FailureRuns(recent) : m <= n

(* The streak counter and the sliding window are two memories of one        *)
(* history and agree on it: the streak is the run of failures at the end of *)
(* the window, or longer when that run fills the window.  The state the     *)
(* circuit is in, and who reported, makes no difference.                    *)
StreakMatchesWindow ==
    LET seen == Smaller(TrailingFailures(breaker.recent), ConsecutiveFailures)
    IN  IF TrailingFailures(breaker.recent) < ErrorRateWindow
        THEN breaker.consecutive_failures = seen
        ELSE breaker.consecutive_failures >= seen

(* A trip is never missed: while the circuit is closed the streak is below  *)
(* its threshold, and if the last thing that happened was a failure the     *)
(* error rate is too.  (After a success the rate may still be over the      *)
(* threshold: only a failure makes report_failure look at it.)              *)
NoMissedTrip ==
    breaker.state = "closed" =>
        /\ ~TrippedByStreak(breaker)
        /\ LET n == Len(breaker.recent)
           IN  n > 0 /\ breaker.recent[n] = "failure" => ~TrippedByRate(breaker)

(* A cooldown runs exactly as long as the circuit is not closed: without a  *)
(* time of the last trip an open circuit would never half-open, and with    *)
(* one left over the next trip would be measured from the wrong moment.     *)
StampedIffTripped == (breaker.state = "closed") <=> (breaker.opened_ago = NoStamp)

(* The cooldown is the configured one after the first trip, doubles with    *)
(* every failure reported while half-open (a probe's, or one of a caller    *)
(* let through before the trip) up to its cap, and is back to the           *)
(* configured one as soon as the circuit closes.  Late reports that come in *)
(* while it is open change nothing.                                         *)
CooldownIsBackoff ==
    breaker.cooldown =
        IF failedProbes = 0
        THEN CooldownSeconds
        ELSE Smaller(MaxCooldownSeconds, CooldownSeconds * Doublings[failedProbes])

(* Requests are refused for the whole cooldown: the circuit leaves the open *)
(* state only when the cooldown has gone by since it last tripped.          *)
RestBeforeProbe ==
    [][breaker.state = "open" /\ breaker'.state # "open"
       => /\ rested >= breaker.cooldown
          /\ breaker'.state = "half_open"]_vars

(* And no longer than that: no report of a caller let through before the    *)
(* trip prolongs the refusal.                                               *)
NoOverstay ==
    breaker.state = "open" /\ rested >= breaker.cooldown => Allows(breaker)

(* An open circuit does not stay open: someone asks again after the         *)
(* cooldown and is let through as a probe.                                  *)
EventuallyProbes == breaker.state = "open" ~> breaker.state = "half_open"

(* A host that is well again gets its traffic back: when from some time on  *)
(* no failure is reported and no probe leaves without a report, the circuit *)
(* closes for good.                                                         *)
Recovers ==
    <>[][\A c \in Callers :
            ~(ReportFailure(c) \/ (breaker.state = "half_open" /\ Leave(c)))]_vars
        => <>[](breaker.state = "closed")

-----------------------------------------------------------------------------
(* What callers see of the breaker: the window and the streak are left out.  *)
Backoff == INSTANCE BackoffCircuit WITH
    state <- breaker.state,
    cooldown <- breaker.cooldown,
    rested <- IF breaker.state = "closed" THEN 0 ELSE breaker.opened_ago,
    fresh <- inside \ outdated,
    late <- outdated

(* Whoever calls check() and reports in whatever order, the breaker trips,   *)
(* rests, probes, and backs off as BackoffCircuit says, and it does not rest *)
(* for ever.  That some report of a caller let through before the trip       *)
(* decides in place of a probe's is a step of Spec with a name of its own:   *)
(* LateSucceeds, LateFails.                                                  *)
BacksOff == Backoff!Spec

(* SPEC.md section 1.1: resuming requires an explicit successful probe;      *)
(* section 5: the probe's success closes the circuit.  breaker.py: stops     *)
(* until a single cooldown probe succeeds.  Only the report of a caller let  *)
(* through since the trip closes a half-open circuit or opens it again.  The *)
(* code does not keep this.                                                  *)
OnlyProbesDecide == Backoff!Documented

=============================================================================

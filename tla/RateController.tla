--------------------------- MODULE RateController ---------------------------
(***************************************************************************)
(* One AimdController and the senders that share it: the pacing of the     *)
(* requests and the feedback of their responses, as _request_once runs     *)
(* them inside its semaphore.  A sender asks wait_time(), sleeps that long *)
(* and calls consume(); nothing holds the token for it in between, so the  *)
(* other senders may take it, and the rate may change under its sleep.     *)
(*                                                                         *)
(* Two methods of DomainState set the rate as well.  The first response    *)
(* with a status (client.py:127) runs apply_inference(), which pulls the   *)
(* rate halfway to that of the tier the response suggests, whatever        *)
(* timeouts have done to it before; apply_policy() gives the rate of the   *)
(* policy to a host that is not calibrated yet, and caps that of one that  *)
(* is.  refresh_effective_ceiling() sets the ceiling again before each     *)
(* request: a crawl window of the policy that opens or closes moves it.    *)
(*                                                                         *)
(* A response is found to be the first in one step and inferred from in    *)
(* another, as threads may do; apply_inference() and apply_policy() are a  *)
(* step each.  RequestPipeline interleaves their parts.                    *)
(***************************************************************************)
EXTENDS Aimd, FiniteSets

CONSTANTS
    Senders,        \* the requests the semaphore lets in at once
    TierLimits,     \* [rate, ceiling]: tier_rates and tier_ceilings of each tier
    Rules,          \* what policies declare: [rate, burst, ceilings], a burst of 0 is none,
                    \* ceilings are its rate times the multipliers of its crawl windows
    NoPolicy,       \* policy = None
    Lanes, Spare,   \* the bucket Paced promises: Lanes times the rate, Spare tokens more
    Burst,          \* 3 in _domain.py
    CleanBound      \* clean responses that are told apart

\* The ceilings that the config and the policies set
Ceilings == {tier.ceiling : tier \in TierLimits} \cup UNION {rule.ceilings : rule \in Rules}

\* The rates that the config and the policies name
Rates == {MinRate} \cup Ceilings \cup {tier.rate : tier \in TierLimits}
                   \cup {rule.rate : rule \in Rules}

TopRate == CHOOSE m \in Rates : \A n \in Rates : n <= m

ASSUME RateAssumption ==
    /\ IsFiniteSet(Senders)
    /\ \A tier \in TierLimits : tier.rate \in Nat \ {0} /\ tier.ceiling \in Nat \ {0}
    /\ \A rule \in Rules :
          /\ rule.rate \in Nat \ {0}
          /\ rule.burst \in 0..LargestBurst
          /\ rule.ceilings \subseteq Nat \ {0}
    /\ \E m \in Rates : \A n \in Rates : n <= m
    /\ NoPolicy \notin Rules
    /\ Lanes \in Nat \ {0} /\ Spare \in Nat
    /\ Burst \in 1..LargestBurst
    /\ CleanBound \in Nat

VARIABLES
    controller,     \* the AimdController
    ceiling,        \* config.max_rate
    calibrated,     \* the host's calibrated
    policy,         \* the rule of the host's policy; hard_ceiling is that there is one
    sender,         \* where each sender is in wait_time, sleep, consume, response
    sleep,          \* seconds each sleeping sender has left
    allowance,      \* history: credit of the bucket that Paced promises
    hurt,           \* history: the rate that the last decrease found, or twice
                    \* the rate that the host has been given since
    clean           \* history: clean responses since then

vars == <<controller, ceiling, calibrated, policy, sender, sleep, allowance, hurt, clean>>
host == <<calibrated, policy>>
histories == <<allowance, hurt, clean>>

SenderStates == {"idle", "asleep", "sent", "first", "answered"}

AllowanceCap == (LargestBurst + Spare) * Unit

TypeOK ==
    /\ controller \in ControllerRecords
    /\ controller.capacity <= LargestBurst
    /\ ceiling \in Ceilings
    /\ calibrated \in BOOLEAN
    /\ policy \in Rules \cup {NoPolicy}
    /\ sender \in [Senders -> SenderStates]
    /\ sleep \in [Senders -> Nat]
    /\ allowance \in Int
    /\ hurt \in Nat
    /\ clean \in 0..CleanBound

Init ==
    /\ \E tier \in TierLimits :
          /\ ceiling = tier.ceiling
          /\ controller = CeilingSet(InitController(tier.rate, Burst), tier.ceiling)
    /\ calibrated = FALSE
    /\ policy = NoPolicy
    /\ sender = [s \in Senders |-> "idle"]
    /\ sleep = [s \in Senders |-> 0]
    /\ allowance = AllowanceCap
    /\ hurt = 2 * controller.rate
    /\ clean = 0

-----------------------------------------------------------------------------
(* The pacing of a request *)

\* wait_time(), and the sleep that follows it begins
WaitTime(s) ==
    /\ sender[s] = "idle"
    /\ controller' = Refilled(controller)
    /\ sleep' = [sleep EXCEPT ![s] = WaitSeconds(Refilled(controller))]
    /\ sender' = [sender EXCEPT ![s] = "asleep"]
    /\ UNCHANGED <<ceiling, host, histories>>

\* The sleep is over: consume(), and the request goes out
Consume(s) ==
    /\ sender[s] = "asleep"
    /\ sleep[s] = 0
    /\ controller' = Consumed(controller)
    /\ sender' = [sender EXCEPT ![s] = "sent"]
    /\ allowance' = allowance - Unit
    /\ UNCHANGED <<ceiling, host, sleep, hurt, clean>>

\* Cancelled in the sleep or in flight: nothing is reported, a token taken is lost
Leave(s) ==
    /\ sender[s] \in {"asleep", "sent"}
    /\ sender' = [sender EXCEPT ![s] = "idle"]
    /\ sleep' = [sleep EXCEPT ![s] = 0]
    /\ UNCHANGED <<controller, ceiling, host, histories>>

-----------------------------------------------------------------------------
(* The feedback of a response *)

\* What the histories see of a response, and of a rate the host is given
Decreases == hurt' = controller.rate /\ clean' = 0
Clean == hurt' = hurt /\ clean' = Least(clean + 1, CleanBound)
Restarts == hurt' = 2 * controller'.rate /\ clean' = Least(controller.streak, CleanBound)

\* _record_outcome() finds the host not calibrated
First(s) ==
    /\ sender[s] = "sent"
    /\ ~calibrated
    /\ sender' = [sender EXCEPT ![s] = "first"]
    /\ UNCHANGED <<controller, ceiling, host, sleep, histories>>

\* What apply_inference() makes of the controller when it finds this tier
Inferred(k, tier) ==
    [CeilingSet(k, tier.ceiling) EXCEPT !.rate = (@ + tier.rate) \div 2]

\* apply_inference()
Infer(s, tier) ==
    /\ sender[s] = "first"
    /\ calibrated' = TRUE
    /\ IF policy = NoPolicy
       THEN /\ ceiling' = tier.ceiling
            /\ controller' = Inferred(controller, tier)
            /\ Restarts
       ELSE UNCHANGED <<ceiling, controller, hurt, clean>>
    /\ sender' = [sender EXCEPT ![s] = "answered"]
    /\ UNCHANGED <<policy, sleep, allowance>>

\* The response is there, and inferred from if it is the first
Answered(s) == sender[s] = "answered" \/ (sender[s] = "sent" /\ calibrated)

\* report_success(latency) with the latency of a response that is fine, or degraded
Success(s, degraded) ==
    /\ Answered(s)
    /\ controller' = ControllerSuccess(controller, ceiling, degraded)
    /\ sender' = [sender EXCEPT ![s] = "idle"]
    /\ IF degraded /\ controller.baseline THEN Decreases ELSE Clean
    /\ UNCHANGED <<ceiling, host, sleep, allowance>>

\* report_failure(): a 429 or a 5xx, or, without a response, a timeout or transport error
Failure(s) ==
    /\ sender[s] \in {"sent", "answered"}
    /\ controller' = ControllerFailure(controller)
    /\ sender' = [sender EXCEPT ![s] = "idle"]
    /\ Decreases
    /\ UNCHANGED <<ceiling, host, sleep, allowance>>

-----------------------------------------------------------------------------
(* The ceiling *)

\* apply_policy() of a policy with this rule, under which the ceiling is m now
ApplyPolicy(rule, m) ==
    /\ m \in rule.ceilings
    /\ ceiling' = m
    /\ policy' = rule
    /\ controller' =
          CeilingSet([controller EXCEPT
                         !.rate = IF calibrated THEN Least(@, rule.rate) ELSE rule.rate,
                         !.capacity = IF rule.burst = 0 THEN @ ELSE rule.burst], m)
    /\ IF calibrated THEN UNCHANGED <<hurt, clean>> ELSE Restarts
    /\ UNCHANGED <<calibrated, sender, sleep, allowance>>

\* refresh_effective_ceiling() before a request: another window of the policy may be open,
\* and a rate that a failure left at min_rate, over its ceiling, is capped again
Refresh(m) ==
    /\ m \in IF policy = NoPolicy THEN {ceiling} ELSE policy.ceilings
    /\ ceiling' = m
    /\ controller' = CeilingSet(controller, m)
    /\ UNCHANGED <<host, sender, sleep, histories>>

Tick ==
    /\ controller' = ControllerTick(controller)
    /\ sleep' = [s \in Senders |-> Most(0, sleep[s] - 1)]
    /\ allowance' = Least(AllowanceCap, allowance + Lanes * TopRate)
    /\ UNCHANGED <<ceiling, host, sender, hurt, clean>>

Next ==
    \/ Tick
    \/ \E m \in Ceilings : Refresh(m) \/ \E rule \in Rules : ApplyPolicy(rule, m)
    \/ \E s \in Senders :
          \/ WaitTime(s) \/ Consume(s) \/ Leave(s)
          \/ First(s) \/ \E tier \in TierLimits : Infer(s, tier)
          \/ Failure(s) \/ \E degraded \in BOOLEAN : Success(s, degraded)

Respond(s) ==
    \/ First(s) \/ \E tier \in TierLimits : Infer(s, tier)
    \/ Failure(s) \/ \E degraded \in BOOLEAN : Success(s, degraded)

(* Time passes, the agent keeps sending, a sleep ends, a response comes in  *)
(* and is handled.                                                          *)
Fairness ==
    /\ WF_vars(Tick)
    /\ \A s \in Senders : WF_vars(WaitTime(s)) /\ WF_vars(Consume(s)) /\ WF_vars(Respond(s))

Spec == Init /\ [][Next]_vars /\ Fairness

-----------------------------------------------------------------------------
(* The rate stays in the range of what the config and the policy allow,     *)
(* through every mixture of responses, inferences, policies and windows.    *)
(* It is never under all of the rates they name.  With a policy it is at    *)
(* most the ceiling of the moment, or min_rate where a failure lifts it     *)
(* over a ceiling that is lower still (_decrease_locked() does not look at  *)
(* the ceiling); without one a tier whose rate is above its own ceiling may *)
(* have pulled it there (apply_inference() sets the rate after the ceiling).*)
RateInRange ==
    /\ \E low \in Rates : low <= controller.rate
    /\ IF policy = NoPolicy
       THEN \E tier \in TierLimits :
               tier.ceiling = ceiling /\ controller.rate <= Most(MinRate, Most(ceiling, tier.rate))
       ELSE controller.rate <= Most(MinRate, ceiling)

(* "Speed up slowly, slow down immediately and by a lot": since the last    *)
(* sign of trouble, which found the rate at hurt, the rate has gained no    *)
(* more than one step per full streak of clean responses over one half of   *)
(* hurt, whoever reported them and in whatever order.  Where the host has   *)
(* been given a rate since, by the inference from its first response or by  *)
(* a policy before that, the steps count from that rate: neither looks at   *)
(* the trouble there has been.                                              *)
RecoveryEnvelope ==
    clean < CleanBound =>
        controller.rate <= Most(MinRate, hurt \div 2) + AdditiveStep * (clean \div SuccessStreak)

(* The pacing: counted from any moment on, the requests sent stay within a  *)
(* token bucket that refills Lanes times as fast as the highest of the      *)
(* configured and declared rates and holds Spare tokens more than the       *)
(* largest burst.  What a site declares is Lanes = 1.  Senders that sleep   *)
(* for the same token are each let go when it is there, so what the code    *)
(* keeps is one lane for each of them.                                      *)
Paced == allowance >= 0

(* The controller converges: when from some time on every response is clean *)
(* and no policy or window moves the ceiling, the rate reaches the ceiling  *)
(* and stays.                                                               *)
Converges ==
    <>[][/\ ceiling' = ceiling
         /\ \A rule \in Rules, m \in Ceilings : ~ApplyPolicy(rule, m)
         /\ \A s \in Senders : ~(Leave(s) \/ Failure(s) \/ Success(s, TRUE))]_vars
        => <>[](controller.rate = ceiling)

=============================================================================

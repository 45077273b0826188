--------------------------- MODULE BackoffCircuit ---------------------------
(***************************************************************************)
(* What breaker.py's CircuitBreaker promises to those who ask it, whatever *)
(* it remembers of the outcomes: it trips when it likes, then refuses for  *)
(* a cooldown, lets probes through, and a report closes it or opens it for *)
(* a cooldown twice as long.  CircuitBreaker and RequestPipeline implement *)
(* this specification.                                                     *)
(*                                                                         *)
(* Whose report that may be is where the documents and the code part.  The *)
(* documents have a probe decide: someone let through since the trip       *)
(* (Documented).  The code does not know who reports, so the report of one *)
(* let through before the trip decides as well (Safety, Spec).             *)
(***************************************************************************)
EXTENDS Integers

CONSTANTS
    Callers,                \* those who ask
    CooldownSeconds,        \* the first cooldown
    MaxCooldownSeconds      \* the cap of the doubled ones

VARIABLES
    state,                  \* "closed", "open" or "half_open"
    cooldown,               \* seconds to refuse after a trip
    rested,                 \* seconds since the trip, 0 when closed
    fresh,                  \* let through since the last trip and not done
    late                    \* let through before the last trip and not done

vars == <<state, cooldown, rested, fresh, late>>

Least(a, b) == IF a <= b THEN a ELSE b

\* Longer rests are not told apart
LongestRest == IF CooldownSeconds >= MaxCooldownSeconds THEN CooldownSeconds ELSE MaxCooldownSeconds

Init ==
    /\ state = "closed" /\ cooldown = CooldownSeconds /\ rested = 0
    /\ fresh = {} /\ late = {}

Inside == fresh \cup late

\* c is let through
Enter(c) ==
    /\ state # "open"
    /\ c \notin Inside
    /\ fresh' = fresh \cup {c}
    /\ UNCHANGED <<state, cooldown, rested, late>>

IsDone(c) == c \in Inside /\ fresh' = fresh \ {c} /\ late' = late \ {c}

\* c is done, with a report that changes nothing or without any
Done(c) == IsDone(c) /\ UNCHANGED <<state, cooldown, rested>>

\* The circuit opens, and all that are still out have become late
Opens(c) ==
    /\ c \in Inside
    /\ state' = "open" /\ rested' = 0
    /\ fresh' = {} /\ late' = Inside \ {c}

Trip(c) == state = "closed" /\ Opens(c) /\ UNCHANGED cooldown

Rest ==
    /\ state # "closed"
    /\ rested' = Least(rested + 1, LongestRest)
    /\ UNCHANGED <<state, cooldown, fresh, late>>

\* The cooldown is over: someone asks and is let through as a probe, or only looks
Probe ==
    /\ state = "open" /\ rested >= cooldown
    /\ state' = "half_open"
    /\ fresh' = fresh \/ \E c \in Callers \ Inside : fresh' = fresh \cup {c}
    /\ UNCHANGED <<cooldown, rested, late>>

Closes(c) ==
    /\ state = "half_open"
    /\ state' = "closed" /\ cooldown' = CooldownSeconds /\ rested' = 0
    /\ IsDone(c)

Reopens(c) ==
    /\ state = "half_open"
    /\ cooldown' = Least(MaxCooldownSeconds, 2 * cooldown)
    /\ Opens(c)

ProbeSucceeds(c) == c \in fresh /\ Closes(c)
ProbeFails(c) == c \in fresh /\ Reopens(c)

\* What the documents do not provide for: no probe has answered
LateSucceeds(c) == c \in late /\ Closes(c)
LateFails(c) == c \in late /\ Reopens(c)

Next ==
    \/ Rest \/ Probe
    \/ \E c \in Callers : Enter(c) \/ Done(c) \/ Trip(c) \/ ProbeSucceeds(c) \/ ProbeFails(c)

NextWithLate == Next \/ \E c \in Callers : LateSucceeds(c) \/ LateFails(c)

\* Only a probe closes the circuit or opens it again
Documented == Init /\ [][Next]_vars

Safety == Init /\ [][NextWithLate]_vars

\* It does not rest for ever: a probe is let through when the cooldown is over
Spec == Safety /\ WF_vars(Rest) /\ WF_vars(Probe)

=============================================================================

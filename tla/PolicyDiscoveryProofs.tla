----------------------- MODULE PolicyDiscoveryProofs -----------------------
(***************************************************************************)
(* Theorems about PolicyDiscovery, for any number of requests, any ttl and *)
(* any restarts, failures and changes of the site.                         *)
(*                                                                         *)
(* What is out of date may be in the answer that a request has got, in the *)
(* memory of the process, and on disk.  The invariants RInv and PInv bound *)
(* for each of these places how long ago, in steady ticks, the site can    *)
(* have changed when it still is: what a request has is no older than the  *)
(* request, what is in memory or on disk adds its own age.                 *)
(***************************************************************************)
EXTENDS PolicyDiscovery, TLAPS

\* The ranges that the counters are in.
LEMMA Counters ==
    /\ Ttl \in Nat \ {0} /\ MaxLag \in Nat /\ SteadyBound \in Nat
    /\ 0 \in 0..Expired /\ Expired \in 0..Expired
    /\ 0 \in 0..MaxLag /\ 0 \in 0..SteadyBound
    /\ \A n \in 0..Expired : (IF n < Expired THEN n + 1 ELSE n) \in 0..Expired
    /\ \A n \in 0..SteadyBound : (IF n < SteadyBound THEN n + 1 ELSE n) \in 0..SteadyBound
BY DiscoveryAssumption DEF Expired

\* What is taken from disk is a policy that was written there.
LEMMA DiskPolicyTyped == TypeOK => DiskPolicy \in Policies \cup {None}
BY DEF TypeOK, DiskPolicy

\* Every step keeps the types.
LEMMA StepTyped == TypeOK /\ [Next]_vars => TypeOK'
<1> SUFFICES ASSUME TypeOK, [Next]_vars
             PROVE  TypeOK'
  OBVIOUS
<1> USE DEF TypeOK, locals, Steps
<1>1. ASSUME NEW r \in Requests, Ensure(r) PROVE TypeOK'
  BY <1>1, Counters, DiskPolicyTyped DEF Ensure, Goes
<1>2. ASSUME NEW r \in Requests, WellKnown(r) \/ WellKnownError(r) \/ WellKnownFailure(r)
      PROVE  TypeOK'
  BY <1>2, Counters DEF WellKnown, WellKnownError, WellKnownFailure, Answered
<1>3. ASSUME NEW r \in Requests, Robots(r) \/ RobotsFailure(r) PROVE TypeOK'
  BY <1>3, Counters DEF Robots, RobotsFailure, Answered
<1>4. ASSUME NEW r \in Requests, Parse(r) PROVE TypeOK'
  BY <1>4 DEF Parse, ParserOf, PolicyOf, Goes
<1>5. ASSUME NEW r \in Requests, Apply(r) PROVE TypeOK'
  BY <1>5, Counters DEF Apply, Goes
<1>6. ASSUME NEW r \in Requests, Persist(r) PROVE TypeOK'
  BY <1>6, Counters DEF Persist, Goes
<1>7. ASSUME NEW r \in Requests, Decide(r) PROVE TypeOK'
  BY <1>7, Counters DEF Decide, Left, Goes
<1>8. ASSUME NEW r \in Requests, Cancel(r) PROVE TypeOK'
  BY <1>8, Counters DEF Cancel, Left, Answered
<1>9. CASE SiteChanges
  BY <1>9, Counters DEF SiteChanges
<1>10. CASE Restart
  BY <1>10, Counters DEF Restart, NewDomain
<1>11. CASE Tick
  <2>1. \A r \in Requests : (IF pc[r] = "idle" THEN 0 ELSE lag[r] + 1) \in 0..MaxLag
    BY <1>11, Counters DEF Tick, Discovering
  <2> QED
    BY <1>11, <2>1, Counters DEF Tick
<1>12. CASE UNCHANGED vars
  BY <1>12 DEF vars
<1> QED
  BY <1>1, <1>2, <1>3, <1>4, <1>5, <1>6, <1>7, <1>8, <1>9, <1>10, <1>11, <1>12 DEF Next

(* Type correctness: ages and lags stay in their ranges, and a row on disk  *)
(* never has a policy that is derived from robots.txt.                      *)
THEOREM TypeCorrect == Spec => []TypeOK
<1>1. Init => TypeOK
  BY Counters DEF Init, TypeOK, NewDomain, NoRow, Steps
<1> QED
  BY <1>1, StepTyped, PTL DEF Spec

-----------------------------------------------------------------------------
(* robots.txt *)

ParserIsOld == domain.parser # ParserOf(site.robots)

(* An answer is out of date no longer than its request runs; the parser, no *)
(* longer than a request that has parsed something, or one more behind the  *)
(* policy that lets requests return at once.                                *)
RInv ==
    /\ \A r \in Requests : pc[r] = "parse" => robots[r] = site.robots \/ steady <= lag[r]
    /\ ParserIsOld =>
          /\ \A r \in Requests : pc[r] \in {"apply", "persist"} => steady <= MaxLag + lag[r]
          /\ domain.fetched_ago < Ttl => steady <= 2 * MaxLag + domain.fetched_ago

\* Every step keeps these bounds, and a request that returns is within them.
LEMMA StepKeepsRobots ==
    ASSUME TypeOK, RInv, [Next]_vars
    PROVE  /\ RInv'
           /\ \A r \in Requests :
                 Returns(r) /\ steady > (Ttl - 1) + 2 * MaxLag => domain'.parser = ParserOf(site.robots)
<1> DEFINE Obeyed == \A r \in Requests :
                        Returns(r) /\ steady > (Ttl - 1) + 2 * MaxLag
                        => domain'.parser = ParserOf(site.robots)
<1> USE Counters DEF TypeOK, locals
<1>1. ASSUME NEW r \in Requests, Ensure(r) PROVE RInv' /\ Obeyed
  BY <1>1 DEF Ensure, Goes, RInv, ParserIsOld, Returns, PolicyIsFresh
<1>2. ASSUME NEW r \in Requests, WellKnown(r) \/ WellKnownError(r) \/ WellKnownFailure(r)
      PROVE  RInv' /\ Obeyed
  BY <1>2 DEF WellKnown, WellKnownError, WellKnownFailure, Answered, RInv, ParserIsOld, Returns
<1>3. ASSUME NEW r \in Requests, Robots(r) \/ RobotsFailure(r) PROVE RInv' /\ Obeyed
  BY <1>3 DEF Robots, RobotsFailure, Answered, RInv, ParserIsOld, Returns
<1>4. ASSUME NEW r \in Requests, Parse(r) PROVE RInv' /\ Obeyed
  BY <1>4 DEF Parse, Goes, RInv, ParserIsOld, Returns
<1>5. ASSUME NEW r \in Requests, Apply(r) PROVE RInv' /\ Obeyed
  BY <1>5 DEF Apply, Goes, RInv, ParserIsOld, Returns
<1>6. ASSUME NEW r \in Requests, Persist(r) PROVE RInv' /\ Obeyed
  BY <1>6 DEF Persist, Goes, RInv, ParserIsOld, Returns
<1>7. ASSUME NEW r \in Requests, Decide(r) PROVE RInv' /\ Obeyed
  BY <1>7 DEF Decide, Left, Goes, RInv, ParserIsOld, Returns
<1>8. ASSUME NEW r \in Requests, Cancel(r) PROVE RInv' /\ Obeyed
  BY <1>8 DEF Cancel, Left, Answered, RInv, ParserIsOld, Returns
<1>9. CASE SiteChanges
  BY <1>9 DEF SiteChanges, RInv, ParserIsOld, Returns
<1>10. CASE Restart
  BY <1>10 DEF Restart, NewDomain, RInv, ParserIsOld, Returns, Expired
<1>11. CASE Tick
  BY <1>11 DEF Tick, RInv, ParserIsOld, Returns, Expired
<1>12. CASE UNCHANGED vars
  BY <1>12 DEF vars, RInv, ParserIsOld, Returns
<1> QED
  BY <1>1, <1>2, <1>3, <1>4, <1>5, <1>6, <1>7, <1>8, <1>9, <1>10, <1>11, <1>12 DEF Next

(* A robots.txt that stays what it is, and whose fetches do not fail, is    *)
(* obeyed after one ttl and twice what a discovery takes: see RobotsObeyed. *)
THEOREM RobotsAreObeyed == Spec => RobotsObeyed
<1>1. Init => RInv
  BY Counters DEF Init, RInv, NewDomain
<1>2. TypeOK /\ RInv /\ [Next]_vars =>
        /\ RInv'
        /\ [\A r \in Requests :
              Returns(r) /\ steady > (Ttl - 1) + 2 * MaxLag
              => domain'.parser = ParserOf(site.robots)]_vars
  BY StepKeepsRobots
<1> QED
  BY <1>1, <1>2, TypeCorrect, PTL DEF Spec, RobotsObeyed

-----------------------------------------------------------------------------
(* The policy *)

\* Requests that know what the site or the disk has to say
Knowing == {r \in Requests : pc[r] \in {"robots", "parse", "apply", "persist"}}

(* Where the site has a policy: what a request has found is out of date no  *)
(* longer than the request runs, and if it is from disk a ttl longer; a row *)
(* on disk, no longer than a request before it was written; the policy in   *)
(* memory, no longer than what was found before it was applied.             *)
PInv ==
    /\ \A r \in Requests : pc[r] = "persist" => domain.fetched_ago <= lag[r]
    /\ site.policy # None =>
          /\ \A r \in Knowing :
                found[r] # site.policy =>
                    steady <= lag[r] + (IF from_disk[r] THEN MaxLag + Ttl - 1 ELSE 0)
          /\ RowIsFresh /\ row.policy # site.policy => steady <= MaxLag + row.ago
          /\ domain.policy # site.policy /\ domain.fetched_ago < Ttl =>
                steady <= 2 * MaxLag + Ttl - 1 + domain.fetched_ago

\* Every step keeps these bounds, and a request that returns is within them.
LEMMA StepKeepsPolicy ==
    ASSUME MaxLag < Ttl, TypeOK, PInv, [Next]_vars
    PROVE  /\ PInv'
           /\ \A r \in Requests :
                 Returns(r) /\ site.policy # None /\ steady > 2 * (Ttl - 1) + 2 * MaxLag
                 => domain'.policy = site.policy
<1> DEFINE Used == \A r \in Requests :
                      Returns(r) /\ site.policy # None /\ steady > 2 * (Ttl - 1) + 2 * MaxLag
                      => domain'.policy = site.policy
<1> USE Counters DEF TypeOK, locals
<1>1. ASSUME NEW r \in Requests, Ensure(r) PROVE PInv' /\ Used
  <2>1. /\ pc[r] = "idle" /\ UNCHANGED <<site, domain, row, steady>>
        /\ found' = [found EXCEPT ![r] = DiskPolicy]
        /\ from_disk' = [from_disk EXCEPT ![r] = DiskPolicy # None]
        /\ lag' = [lag EXCEPT ![r] = 0]
        /\ \A q \in Requests : q # r => pc'[q] = pc[q]
    BY <1>1 DEF Ensure, Goes
  <2>2. pc'[r] = IF PolicyIsFresh THEN "decide"
                 ELSE IF FetchesWellKnown THEN "well_known" ELSE "robots"
    BY <1>1 DEF Ensure, Goes
  <2>3. pc'[r] = "robots" =>
            DiskPolicy = row.policy /\ RowIsFresh /\ from_disk'[r] /\ found'[r] = row.policy
    BY <2>1, <2>2 DEF FetchesWellKnown, DiskPolicy, RowIsFresh
  <2>4. pc'[r] = "robots" /\ site.policy # None /\ found'[r] # site.policy =>
            steady' <= lag'[r] + (IF from_disk'[r] THEN MaxLag + Ttl - 1 ELSE 0)
    BY <2>1, <2>3 DEF PInv, RowIsFresh
  <2>5. \A q \in Requests : q # r =>
            found'[q] = found[q] /\ from_disk'[q] = from_disk[q] /\ lag'[q] = lag[q]
    BY <2>1
  <2>6. PInv'
    BY <2>1, <2>2, <2>4, <2>5 DEF PInv, Knowing, RowIsFresh
  <2>7. Used
    BY <2>1, <2>2 DEF PInv, Returns, PolicyIsFresh
  <2> QED
    BY <2>6, <2>7
<1>2. ASSUME NEW r \in Requests, WellKnown(r) \/ WellKnownError(r) \/ WellKnownFailure(r)
      PROVE  PInv' /\ Used
  BY <1>2 DEF WellKnown, WellKnownError, WellKnownFailure, Answered, PInv, Knowing, RowIsFresh, Returns
<1>3. ASSUME NEW r \in Requests, Robots(r) \/ RobotsFailure(r) PROVE PInv' /\ Used
  BY <1>3 DEF Robots, RobotsFailure, Answered, PInv, Knowing, RowIsFresh, Returns
<1>4. ASSUME NEW r \in Requests, Parse(r) PROVE PInv' /\ Used
  BY <1>4 DEF Parse, Goes, PInv, Knowing, RowIsFresh, Returns
<1>5. ASSUME NEW r \in Requests, Apply(r) PROVE PInv' /\ Used
  BY <1>5 DEF Apply, Goes, PInv, Knowing, RowIsFresh, Returns
<1>6. ASSUME NEW r \in Requests, Persist(r) PROVE PInv' /\ Used
  BY <1>6 DEF Persist, Goes, PInv, Knowing, RowIsFresh, Returns
<1>7. ASSUME NEW r \in Requests, Decide(r) PROVE PInv' /\ Used
  BY <1>7 DEF Decide, Left, Goes, PInv, Knowing, RowIsFresh, Returns
<1>8. ASSUME NEW r \in Requests, Cancel(r) PROVE PInv' /\ Used
  BY <1>8 DEF Cancel, Left, Answered, PInv, Knowing, RowIsFresh, Returns
<1>9. CASE SiteChanges
  BY <1>9 DEF SiteChanges, PInv, Knowing, RowIsFresh, Returns
<1>10. CASE Restart
  BY <1>10 DEF Restart, NewDomain, PInv, Knowing, RowIsFresh, Returns, Expired
<1>11. CASE Tick
  BY <1>11 DEF Tick, PInv, Knowing, RowIsFresh, Returns, Expired, Discovering
<1>12. CASE UNCHANGED vars
  BY <1>12 DEF vars, PInv, Knowing, RowIsFresh, Returns
<1> QED
  BY <1>1, <1>2, <1>3, <1>4, <1>5, <1>6, <1>7, <1>8, <1>9, <1>10, <1>11, <1>12 DEF Next

(* A policy that the site has replaced is used no longer than two ttls and  *)
(* twice what a discovery takes, when that is less than a ttl: see          *)
(* SupersededAgesOut.                                                       *)
THEOREM PoliciesAgeOut == ASSUME MaxLag < Ttl PROVE Spec => SupersededAgesOut
<1>1. Init => PInv
  BY Counters DEF Init, PInv, Knowing, RowIsFresh, NewDomain, NoRow
<1>2. TypeOK /\ PInv /\ [Next]_vars =>
        /\ PInv'
        /\ [\A r \in Requests :
              Returns(r) /\ site.policy # None /\ steady > 2 * (Ttl - 1) + 2 * MaxLag
              => domain'.policy = site.policy]_vars
  BY StepKeepsPolicy
<1> QED
  BY <1>1, <1>2, TypeCorrect, PTL DEF Spec, SupersededAgesOut

=============================================================================

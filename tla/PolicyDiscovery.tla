-------------------------- MODULE PolicyDiscovery --------------------------
(***************************************************************************)
(* client.py's _ensure_policy, run for one host by several requests at a   *)
(* time: the policy a process keeps in memory (_domain.py), the row it     *)
(* keeps on disk (_cache.py), the site that changes both of its files, and *)
(* restarts of the process.                                                *)
(*                                                                         *)
(* The process runs one of the clients.  The requests of the sync one are  *)
(* threads; those of the async one are coroutines, which run from await to *)
(* await, here from one fetch to the next, and so are the navigations of   *)
(* browser.py.  They differ in what a policy found on disk is good for, see *)
(* FetchesWellKnown and HasCache.                                          *)
(*                                                                         *)
(* A policy is a value: which of its rules apply, and what they do to the  *)
(* controller, is left out.  A robots.txt disallows the path, or has a     *)
(* Crawl-delay that makes it a policy.                                     *)
(* Both flags fetch_well_known and respect_robots_txt are on, and there is *)
(* a policy_cache_path.                                                    *)
(***************************************************************************)
EXTENDS Naturals, FiniteSets

CONSTANTS
    Requests,       \* threads or tasks that request from the host
    Kinds,          \* the clients that programs use, of {"sync", "async", "browser"}
    Policies,       \* well-known policies the site may publish
    CrawlDelay,     \* the policy derived from a Crawl-delay
    None,           \* no policy, no parser
    Nobody,         \* no request
    Ttl,            \* policy_cache_ttl
    MaxLag,         \* ticks that a discovery may last at most
    SteadyBound     \* ticks without a change that are told apart

ASSUME DiscoveryAssumption ==
    /\ Kinds \subseteq {"sync", "async", "browser"} /\ Kinds # {}
    /\ CrawlDelay \notin Policies /\ None \notin Policies \cup {CrawlDelay}
    /\ Nobody \notin Requests
    /\ Ttl \in Nat \ {0} /\ MaxLag \in Nat
    /\ SteadyBound \in Nat

VARIABLES
    site,           \* what the host serves: its policy and its robots.txt
    kind,           \* the client that runs
    domain,         \* DomainState: policy, age of policy_fetched_at, robots_parser
    row,            \* the host's row of the persistent cache, and its age
    pc,             \* the step of _ensure_policy each request is at
    found,          \* its well_known_policy
    from_disk,      \* its used_disk_cache
    robots,         \* the answer about robots.txt on its way to it
    lag,            \* ticks since it began
    running,        \* the coroutine that has the event loop
    steady          \* history: ticks since the site changed or a fetch failed

locals == <<found, from_disk, robots, lag>>
vars == <<site, kind, domain, row, pc, locals, running, steady>>

\* The age of what is not there counts as expired
Expired == Ttl

RobotsFiles == {"crawl-delay", "disallow"}
Failed == "failed"
Absent == "absent"

NoRow == [policy |-> None, ago |-> Expired]
NewDomain == [policy |-> None, fetched_ago |-> Expired, parser |-> None]

Steps == {"idle", "well_known", "robots", "parse", "apply", "persist", "decide"}
Discovering == {r \in Requests : pc[r] # "idle"}

TypeOK ==
    /\ site \in [policy : Policies \cup {None}, robots : RobotsFiles \cup {Absent}]
    /\ kind \in Kinds
    /\ domain \in [ policy : Policies \cup {CrawlDelay, None}, fetched_ago : 0..Expired,
                    parser : RobotsFiles \cup {None} ]
    /\ row \in [policy : Policies \cup {None}, ago : 0..Expired]
    /\ pc \in [Requests -> Steps]
    /\ found \in [Requests -> Policies \cup {CrawlDelay, None}]
    /\ from_disk \in [Requests -> BOOLEAN]
    /\ robots \in [Requests -> RobotsFiles \cup {Absent, Failed}]
    /\ lag \in [Requests -> 0..MaxLag]
    /\ running \in Requests \cup {Nobody}
    /\ steady \in 0..SteadyBound

Init ==
    /\ site \in [policy : Policies \cup {None}, robots : RobotsFiles \cup {Absent}]
    /\ kind \in Kinds
    /\ domain = NewDomain
    /\ row = NoRow
    /\ pc = [r \in Requests |-> "idle"]
    /\ found = [r \in Requests |-> None]
    /\ from_disk = [r \in Requests |-> FALSE]
    /\ robots = [r \in Requests |-> Absent]
    /\ lag = [r \in Requests |-> 0]
    /\ running = Nobody
    /\ steady = 0

-----------------------------------------------------------------------------
(* Who may take the next step: as in RequestPipeline *)

Goes(r, from, to) ==
    /\ pc[r] = from
    /\ kind = "sync" \/ running \in {r, Nobody}
    /\ pc' = [pc EXCEPT ![r] = to]
    /\ running' = IF kind = "sync" \/ to \in {"idle", "well_known", "robots"} THEN Nobody ELSE r

\* The server's part: the request r waits, whoever runs
Answered(r, from, to) ==
    /\ pc[r] = from
    /\ running = Nobody
    /\ pc' = [pc EXCEPT ![r] = to]
    /\ UNCHANGED running

-----------------------------------------------------------------------------

PolicyIsFresh == domain.fetched_ago < Ttl

\* The browser pages leave policy_cache_path alone
HasCache == kind # "browser"

\* load_fresh()
RowIsFresh == row.policy # None /\ row.ago < Ttl

\* What a stale policy is replaced with before anything is fetched
DiskPolicy == IF HasCache /\ RowIsFresh /\ ~PolicyIsFresh THEN row.policy ELSE None

\* The async client fetches the well-known file whatever it found on disk
FetchesWellKnown == kind = "async" \/ DiskPolicy = None

\* Fault: a policy on disk stands for robots.txt as well
EnsureTrustsDisk(r) ==
    /\ found' = [found EXCEPT ![r] = DiskPolicy]
    /\ from_disk' = [from_disk EXCEPT ![r] = DiskPolicy # None]
    /\ lag' = [lag EXCEPT ![r] = 0]
    /\ UNCHANGED <<site, kind, domain, row, robots, steady>>
    /\ Goes(r, "idle", CASE PolicyIsFresh -> "decide"
                         [] ~PolicyIsFresh /\ FetchesWellKnown -> "well_known"
                         [] OTHER -> "apply")

\* _ensure_policy() up to its first fetch; a fresh policy ends it
Ensure(r) ==
    /\ found' = [found EXCEPT ![r] = DiskPolicy]
    /\ from_disk' = [from_disk EXCEPT ![r] = DiskPolicy # None]
    /\ lag' = [lag EXCEPT ![r] = 0]
    /\ UNCHANGED <<site, kind, domain, row, robots, steady>>
    /\ Goes(r, "idle", CASE PolicyIsFresh -> "decide"
                         [] ~PolicyIsFresh /\ FetchesWellKnown -> "well_known"
                         [] OTHER -> "robots")

\* The well-known file: a policy, or none where it is absent or malformed
WellKnown(r) ==
    /\ found' = [found EXCEPT ![r] = site.policy]
    /\ UNCHANGED <<site, kind, domain, row, from_disk, robots, lag, steady>>
    /\ Answered(r, "well_known", "robots")

\* ... a status other than 200 though there is one, which counts as none
WellKnownError(r) ==
    /\ found' = [found EXCEPT ![r] = None]
    /\ steady' = 0
    /\ UNCHANGED <<site, kind, domain, row, from_disk, robots, lag>>
    /\ Answered(r, "well_known", "robots")

\* ... or no answer at all, which changes nothing
WellKnownFailure(r) ==
    /\ steady' = 0
    /\ UNCHANGED <<site, kind, domain, row, locals>>
    /\ Answered(r, "well_known", "robots")

\* robots.txt as it is now is on its way
Robots(r) ==
    /\ robots' = [robots EXCEPT ![r] = site.robots]
    /\ UNCHANGED <<site, kind, domain, row, found, from_disk, lag, steady>>
    /\ Answered(r, "robots", "parse")

\* ... or a failure is
RobotsFailure(r) ==
    /\ robots' = [robots EXCEPT ![r] = Failed]
    /\ steady' = 0
    /\ UNCHANGED <<site, kind, domain, row, found, from_disk, lag>>
    /\ Answered(r, "robots", "parse")

\* The parser of an answer: none for a failure and for a status other than 200.  (A browser
\* page parses the body of an error, too: its parser has no rules and counts as none.)
ParserOf(answer) == IF answer \in RobotsFiles THEN answer ELSE None

\* parse_robots_crawl_delay(): a Crawl-delay makes a policy
PolicyOf(answer) == IF answer = "crawl-delay" THEN CrawlDelay ELSE None

\* state.robots_parser is replaced, by None too; a Crawl-delay stands in for a policy
Parse(r) ==
    /\ domain' = [domain EXCEPT !.parser = ParserOf(robots[r])]
    /\ found' = [found EXCEPT ![r] = IF @ = None THEN PolicyOf(robots[r]) ELSE @]
    /\ UNCHANGED <<site, kind, row, from_disk, robots, lag, steady>>
    /\ Goes(r, "parse", "apply")

\* apply_policy(), or just the time when there is nothing to apply
Apply(r) ==
    /\ domain' = [domain EXCEPT !.policy = IF found[r] = None THEN @ ELSE found[r],
                                !.fetched_ago = 0]
    /\ UNCHANGED <<site, kind, row, locals, steady>>
    /\ Goes(r, "apply", IF found[r] = None THEN "decide" ELSE "persist")

\* Fault: every policy is written to disk, the derived ones too
PersistAnySource(r) ==
    /\ row' = IF ~from_disk[r] THEN [policy |-> found[r], ago |-> 0] ELSE row
    /\ UNCHANGED <<site, kind, domain, locals, steady>>
    /\ Goes(r, "persist", "decide")

\* Fault: a policy that was read from disk is written back, as fetched now
PersistFromDisk(r) ==
    /\ row' = IF found[r] # CrawlDelay THEN [policy |-> found[r], ago |-> 0] ELSE row
    /\ UNCHANGED <<site, kind, domain, locals, steady>>
    /\ Goes(r, "persist", "decide")

\* PersistentPolicyCache.set() of an explicit policy that was fetched
Persist(r) ==
    /\ row' = IF HasCache /\ ~from_disk[r] /\ found[r] # CrawlDelay
              THEN [policy |-> found[r], ago |-> 0] ELSE row
    /\ UNCHANGED <<site, kind, domain, locals, steady>>
    /\ Goes(r, "persist", "decide")

\* The locals of a request that has left
Left(r) ==
    /\ found' = [found EXCEPT ![r] = None]
    /\ from_disk' = [from_disk EXCEPT ![r] = FALSE]
    /\ robots' = [robots EXCEPT ![r] = Absent]
    /\ lag' = [lag EXCEPT ![r] = 0]

\* can_fetch() is asked; the request goes on into the pipeline, or is refused
Decide(r) ==
    /\ Left(r)
    /\ UNCHANGED <<site, kind, domain, row, steady>>
    /\ Goes(r, "decide", "idle")

\* Cancelled, or failed with what _fetch_meta does not catch, while it waits for an answer
Cancel(r) ==
    \E at \in {"well_known", "robots", "parse"} :
        /\ Left(r)
        /\ UNCHANGED <<site, kind, domain, row, steady>>
        /\ Answered(r, at, "idle")

-----------------------------------------------------------------------------
(* The surroundings *)

\* The operator of the site changes one of its files
SiteChanges ==
    /\ \/ \E p \in (Policies \cup {None}) \ {site.policy} : site' = [site EXCEPT !.policy = p]
       \/ \E f \in (RobotsFiles \cup {Absent}) \ {site.robots} : site' = [site EXCEPT !.robots = f]
    /\ steady' = 0
    /\ UNCHANGED <<kind, domain, row, pc, locals, running>>

\* The process ends anywhere and is started again; the file on disk stays
Restart ==
    /\ kind' \in Kinds
    /\ domain' = NewDomain
    /\ pc' = [r \in Requests |-> "idle"]
    /\ found' = [r \in Requests |-> None]
    /\ from_disk' = [r \in Requests |-> FALSE]
    /\ robots' = [r \in Requests |-> Absent]
    /\ lag' = [r \in Requests |-> 0]
    /\ running' = Nobody
    /\ UNCHANGED <<site, row, steady>>

Tick ==
    /\ running = Nobody
    /\ \A r \in Discovering : lag[r] < MaxLag
    /\ lag' = [r \in Requests |-> IF pc[r] = "idle" THEN 0 ELSE lag[r] + 1]
    /\ domain' = [domain EXCEPT !.fetched_ago = IF @ < Expired THEN @ + 1 ELSE @]
    /\ row' = [row EXCEPT !.ago = IF @ < Expired THEN @ + 1 ELSE @]
    /\ steady' = IF steady < SteadyBound THEN steady + 1 ELSE steady
    /\ UNCHANGED <<site, kind, pc, found, from_disk, robots, running>>

Next ==
    \/ Tick \/ SiteChanges \/ Restart
    \/ \E r \in Requests :
          \/ Ensure(r) \/ WellKnown(r) \/ WellKnownError(r) \/ WellKnownFailure(r)
          \/ Robots(r) \/ RobotsFailure(r)
          \/ Parse(r) \/ Apply(r) \/ Persist(r) \/ Decide(r) \/ Cancel(r)

Spec == Init /\ [][Next]_vars

-----------------------------------------------------------------------------

\* _ensure_policy() returns
Returns(r) == pc[r] # "decide" /\ pc'[r] = "decide"

(* A policy that the site has replaced is used no longer than two ttls, and  *)
(* twice what a discovery takes, after the change: one ttl on disk and one   *)
(* in memory, over any number of restarts, concurrent discoveries that end   *)
(* in another order than they began, and changes between the two clients.    *)
(* (What is younger than a ttl is at most Ttl - 1 ticks old.)                *)
SupersededAgesOut ==
    [][\A r \in Requests :
         Returns(r) /\ site.policy # None /\ steady > 2 * (Ttl - 1) + 2 * MaxLag
         => domain'.policy = site.policy]_vars

(* A robots.txt that stays what it is, and whose fetches do not fail, is     *)
(* obeyed after one ttl and what a discovery takes: a policy on disk, or one *)
(* another request has fetched, never stands in for it.                      *)
RobotsObeyed ==
    [][\A r \in Requests :
         Returns(r) /\ steady > (Ttl - 1) + 2 * MaxLag => domain'.parser = ParserOf(site.robots)]_vars

=============================================================================

---------------------------- MODULE CrawlPolicy ----------------------------
(***************************************************************************)
(* How the crawler behaves towards a host: RobotsTxt (robots.rs), read     *)
(* line by line, and RateLimiter (rate_limit.rs), which hands out one      *)
(* fetch slot after the other to callers that sleep until theirs.  A       *)
(* caller reads the clock before it takes the lock, so others may come in  *)
(* between and it may take its slot with an old reading.                   *)
(***************************************************************************)
EXTENDS Integers, Sequences, FiniteSetsExt, SequencesExt

CONSTANTS
    RobotsLines,      \* directives of a robots.txt: [key, value]
    MaxRobots,        \* bound: its lines
    Agent,            \* the crawler's user agent, a sequence of letters
    SitePaths,        \* paths that are asked for
    DefaultInterval,  \* RateLimiter::default_interval
    Delays,           \* Crawl-delay values of a host
    Fetchers,         \* callers of acquire_wait
    MaxSlots,         \* bound: slots handed out
    MaxNow            \* bound: the clock

\* A Duration is not negative.
ASSUME PolicyAssumption == DefaultInterval \in Nat /\ Delays \subseteq Nat

\* Names and paths are texts; the crawler is not called by the star.
ASSUME RobotsAssumption ==
    /\ MaxRobots \in Nat
    /\ Agent \in Seq(STRING) /\ ~IsPrefix(<<"*">>, Agent)
    /\ SitePaths \subseteq Seq(STRING)
    /\ \A l \in RobotsLines :
         l.key \in {"user-agent", "allow", "disallow"} => l.value \in Seq(STRING)

VARIABLES
    robots,           \* the lines of robots.txt
    line,             \* lines read
    groups,           \* RobotsTxt::groups
    agents,           \* current_agents
    sawRule,          \* just_saw_directive
    now,              \* the clock
    bucket,           \* the host's BucketState, <<>> when there is none
    fetcher,          \* fetcher[f]: what a caller is at, and the times it has
    slots             \* history: slots handed out, each with its interval

robotsVars == <<robots, line, groups, agents, sawRule>>
limitVars == <<now, bucket, fetcher, slots>>
pvars == <<robotsVars, limitVars>>

NoGroup == [allow |-> <<>>, disallow |-> <<>>, delay |-> -1]
Idle == [pc |-> "idle", seen |-> 0, wake |-> 0, slot |-> 0]

PolicyInit ==
    /\ robots \in UNION {[1..n -> RobotsLines] : n \in 0..MaxRobots}
    /\ line = 0
    /\ groups = [a \in {} |-> NoGroup]
    /\ agents = <<>>
    /\ sawRule = FALSE
    /\ now = 0
    /\ bucket = <<>>
    /\ fetcher = [f \in Fetchers |-> Idle]
    /\ slots = <<>>

-----------------------------------------------------------------------------

\* What a rule does to the group of one agent; an empty path is no rule.
Ruled(g, rule) ==
    LET path(key, old) == IF rule.key = key /\ rule.value # <<>> THEN Append(old, rule.value) ELSE old
    IN [allow |-> path("allow", g.allow),
        disallow |-> path("disallow", g.disallow),
        delay |-> IF rule.key = "crawl-delay" /\ rule.value \in Nat THEN rule.value ELSE g.delay]

GroupOf(a) == IF a \in DOMAIN groups THEN groups[a] ELSE NoGroup

\* A rule applies to every agent of the current group.  An agent named twice
\* in it gets the rule twice, which changes nothing.
ReadRule(l) ==
    /\ groups' = [a \in DOMAIN groups \cup ToSet(agents) |->
                    IF Contains(agents, a) THEN Ruled(GroupOf(a), l) ELSE groups[a]]
    /\ sawRule' = TRUE
    /\ UNCHANGED agents

\* Adjacent user-agent lines form a group; after a rule a new one starts.
ReadAgent(l) ==
    /\ agents' = Append(IF sawRule THEN <<>> ELSE agents, l.value)
    /\ sawRule' = FALSE
    /\ UNCHANGED groups

\* One round of RobotsTxt::parse.
ReadLine ==
    /\ line < Len(robots)
    /\ line' = line + 1
    /\ LET l == robots[line + 1]
       IN \/ l.key = "user-agent" /\ ReadAgent(l)
          \/ l.key \in {"allow", "disallow", "crawl-delay"} /\ ReadRule(l)
          \/ l.key = "unknown" /\ UNCHANGED <<groups, agents, sawRule>>
    /\ UNCHANGED <<robots, limitVars>>

Longest(names) == CHOOSE a \in names : \A b \in names : Len(b) <= Len(a)

\* matching_group: the agent itself, its longest listed prefix, or the star.
MatchingGroup ==
    LET listed == {a \in DOMAIN groups : a # <<"*">> /\ IsPrefix(a, Agent)}
    IN IF listed # {} THEN groups[Longest(listed)] ELSE GroupOf(<<"*">>)

\* longest_prefix_match, -1 when no rule matches.
LongestMatch(rules, path) ==
    Max({-1} \cup {Len(r) : r \in {r \in ToSet(rules) : IsPrefix(r, path)}})

\* Mutant: a disallow as long as the allow wins.
IsAllowedTie(path) ==
    LongestMatch(MatchingGroup.allow, path) > LongestMatch(MatchingGroup.disallow, path)

\* is_allowed
IsAllowed(path) ==
    LongestMatch(MatchingGroup.allow, path) >= LongestMatch(MatchingGroup.disallow, path)

-----------------------------------------------------------------------------

\* set_interval
SetInterval(interval) ==
    /\ bucket' = IF bucket = <<>> THEN [ready |-> now, interval |-> interval]
                 ELSE [bucket EXCEPT !.interval = interval]
    /\ UNCHANGED <<robotsVars, now, fetcher, slots>>

\* interval_of
IntervalOf == IF bucket = <<>> THEN DefaultInterval ELSE bucket.interval

\* acquire_wait, Instant::now(): the lock is not held yet.
ReadClock(f) ==
    /\ fetcher[f].pc = "idle"
    /\ fetcher' = [fetcher EXCEPT ![f] = [pc |-> "asked", seen |-> now, wake |-> 0, slot |-> 0]]
    /\ UNCHANGED <<robotsVars, now, bucket, slots>>

\* The caller has its slot and sleeps for wait from now on.
Sleep(f, slot, wait) ==
    /\ slots' = Append(slots, [at |-> slot, interval |-> IntervalOf])
    /\ fetcher' = [fetcher EXCEPT ![f] = [pc |-> "sleeping", seen |-> 0, wake |-> now + wait,
                                          slot |-> Len(slots) + 1]]

\* Mutant: the next slot counts from the reading, also when slots are planned.
AcquireWaitFromNow(f) ==
    LET seen == fetcher[f].seen
        ready == IF bucket = <<>> THEN seen ELSE bucket.ready
    IN /\ fetcher[f].pc = "asked" /\ Len(slots) < MaxSlots
       /\ bucket' = [ready |-> seen + IntervalOf, interval |-> IntervalOf]
       /\ Sleep(f, Max({ready, seen}), IF seen >= ready THEN 0 ELSE ready - seen)
       /\ UNCHANGED <<robotsVars, now>>

\* acquire_wait under the lock, with the time the caller read before.
AcquireWait(f) ==
    LET seen == fetcher[f].seen
        ready == IF bucket = <<>> THEN seen ELSE bucket.ready
        base == Max({ready, seen})
    IN /\ fetcher[f].pc = "asked" /\ Len(slots) < MaxSlots
       /\ bucket' = [ready |-> base + IntervalOf, interval |-> IntervalOf]
       /\ Sleep(f, base, IF seen >= ready THEN 0 ELSE ready - seen)
       /\ UNCHANGED <<robotsVars, now>>

\* A caller is never woken early, but it may be late.
Fetch(f) ==
    /\ fetcher[f].pc = "sleeping" /\ now >= fetcher[f].wake
    /\ fetcher' = [fetcher EXCEPT ![f].pc = "fetching"]
    /\ UNCHANGED <<robotsVars, now, bucket, slots>>

\* The fetch is over, or the caller was cancelled and its slot is wasted.
Leave(f) ==
    /\ fetcher[f].pc \in {"sleeping", "fetching"}
    /\ fetcher' = [fetcher EXCEPT ![f] = Idle]
    /\ UNCHANGED <<robotsVars, now, bucket, slots>>

ClockTick == now < MaxNow /\ now' = now + 1 /\ UNCHANGED <<robotsVars, bucket, fetcher, slots>>

LimiterNext ==
    \/ ClockTick
    \/ \E d \in Delays : SetInterval(d)
    \/ \E f \in Fetchers : ReadClock(f) \/ AcquireWait(f) \/ Fetch(f) \/ Leave(f)

\* The parser and the limiter are separate; the limiter is examined once.
PolicyNext ==
    \/ ReadLine
    \/ robots = <<>> /\ LimiterNext
    \/ line = Len(robots) /\ UNCHANGED pvars

PolicySpec == PolicyInit /\ [][PolicyNext]_pvars

-----------------------------------------------------------------------------

\* The agents a rule at line i is for: those of the user-agent lines above it
\* with no rule between that another user-agent line follows.
AgentsAt(i) ==
    {robots[j].value : j \in {j \in 1..(i - 1) :
        /\ robots[j].key = "user-agent"
        /\ ~\E k, m \in (j + 1)..(i - 1) :
              /\ k < m /\ robots[m].key = "user-agent"
              /\ robots[k].key \in {"allow", "disallow", "crawl-delay"}}}

\* The rules for the crawler: those that name its longest listed prefix, or
\* the star when no rule names one.
RulesForUs ==
    LET rules == {i \in 1..Len(robots) : robots[i].key \in {"allow", "disallow", "crawl-delay"}}
        named == {a \in Prefixes(Agent) : \E i \in rules : a \in AgentsAt(i)}
        us == IF named = {} THEN <<"*">> ELSE Longest(named)
    IN {i \in rules : us \in AgentsAt(i)}

\* The verdict on a path is that of the longest rule for the crawler that
\* matches it, an allow before a disallow, however the file spreads and
\* repeats its groups (robots.rs:44-140).
RobotsObeyed ==
    line = Len(robots) => \A path \in SitePaths :
      LET hits(key) == {Len(robots[i].value) : i \in
             {i \in RulesForUs : robots[i].key = key /\ robots[i].value # <<>>
                                 /\ IsPrefix(robots[i].value, path)}}
      IN IsAllowed(path) <=> \A d \in hits("disallow") : \E a \in hits("allow") : a >= d

\* The slots of a host are at least the interval apart that was in force when
\* the earlier one was handed out, and no caller fetches before its slot, in
\* whatever order callers read the clock, take the lock, sleep, give up and
\* change the interval.  So never more fetches have begun than slots have come
\* (rate_limit.rs:44-73); a caller that is late may fetch together with the
\* next.
SlotsSpaced ==
    /\ \A k \in 1..(Len(slots) - 1) : slots[k + 1].at >= slots[k].at + slots[k].interval
    /\ \A f \in Fetchers : fetcher[f].pc = "fetching" => now >= slots[fetcher[f].slot].at
=============================================================================

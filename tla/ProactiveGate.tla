---- MODULE ProactiveGate ----
(***************************************************************************)
(* ProactiveEngine.allow (services/proactive_engine.py), called by         *)
(* EventDrivenAgent.emit and HandlerContext.emit_info from ARQ jobs that   *)
(* run concurrently in one asyncio worker.  A step of a job is one await:  *)
(* one Redis command, one Postgres statement, or the call of the router;   *)
(* between two of them other jobs run.  The gate's rows live in Postgres   *)
(* (table agent_state), with a read-through copy in Redis for the dedup    *)
(* and cooldown rows.                                                      *)
(***************************************************************************)
EXTENDS Integers, FiniteSets

CONSTANTS
  Jobs,         \* ARQ jobs, each of which makes one emission
  MaxJobs,      \* jobs the worker runs at once (ARQ's max_jobs)
  MaxTries,     \* times ARQ starts a job that a worker restart cut short
  Agents,       \* agents and handlers that emit
  Keys,         \* dedup keys
  Requests,     \* the emissions the jobs may make
  Global,       \* GLOBAL_AGENT, the owner of the daily counter
  DailyLimit,   \* GLOBAL_DAILY_RATE_LIMIT
  InfoCap,      \* PER_AGENT_INFO_DAILY_CAP
  CooldownAny,  \* PER_AGENT_COOLDOWN_ANY, in units of the model's clock
  CooldownCrit, \* PER_AGENT_COOLDOWN_CRIT
  DedupWindow,  \* DEDUP_WINDOW
  CacheTTL,     \* CACHE_TTL_SECONDS
  DayLength,    \* length of a UTC day
  MaxTime,      \* bound on the clock
  CacheOn,      \* redis.client is not None
  RedisFaults,  \* a Redis command may raise (each one is swallowed)
  Failures      \* restarts of the worker, job timeouts, errors of Postgres

Severity == {"info", "warn", "critical"}

\* listed: reason_code is in the agent's CRITICAL_REASONS.
Request == [agent: Agents, key: Keys, severity: Severity, listed: BOOLEAN]

ASSUME LimitsAssumption ==
  /\ DailyLimit \in Nat \ {0}
  /\ InfoCap \in Nat \ {0}
  /\ CooldownAny \in Nat \ {0}
  /\ CooldownCrit \in Nat \ {0}
  /\ DedupWindow \in Nat \ {0}
  /\ CacheTTL \in Nat \ {0}
  /\ DayLength \in Nat \ {0}
  /\ MaxTime \in Nat

ASSUME JobsAssumption ==
  /\ MaxJobs \in Nat \ {0}
  /\ MaxTries \in Nat \ {0}
  /\ Requests \subseteq Request
  /\ Global \notin Agents

ASSUME ModeAssumption ==
  /\ CacheOn \in BOOLEAN
  /\ RedisFaults \in BOOLEAN
  /\ Failures \in BOOLEAN

VARIABLES
  now,      \* the clock: time.time() and Postgres NOW()
  store,    \* rows "_gate" of agent_state
  count,    \* counter rows of agent_state, per owner and day
  cache,    \* Redis entries cruz:gate:*
  sent,     \* notifications handed to the router, a history
  mixed,    \* owners that two jobs worked on at once, or whose copy is stale:
            \* a history, for the properties
  clashes,  \* increments begun inside another one, per counter: a history
  req,      \* the GateRequest of each job
  tries,    \* how often ARQ has started the job
  pc,       \* what the job awaits next
  step,     \* the row that _decide probes or _post_decision writes
  seen,     \* what StateService.get returned to _cached_get
  verdict,  \* the GateDecision
  stamp,    \* when today was taken: for the budget check, then now_ts
  cnt       \* cnt of the counter's read-modify-write

jobVars == <<req, tries, pc, step, seen, verdict, stamp, cnt>>
vars == <<now, store, count, cache, sent, mixed, clashes, jobVars>>

----
\* Rows

Times == 0..MaxTime
Day(t) == t \div DayLength
Days == {Day(t) : t \in Times}

Owners == Agents \cup {Global}

RowKey ==
  ({"any", "critical"} \X Agents) \cup ({"dedup"} \X (Agents \X Keys))

\* A row is visible while until > now; a row never written has until = 0.
Row == [at: Nat, until: Nat]
NoRow == [at |-> 0, until |-> 0]
Live(r) == r.until > now

\* A cache entry holds a timestamp or the __MISSING__ marker.
Entry == [missing: BOOLEAN, at: Nat, until: Nat]
NoEntry == [missing |-> TRUE, at |-> 0, until |-> 0]

Found == [found: BOOLEAN, at: Nat]
NotFound == [found |-> FALSE, at |-> 0]

KeyOf(r, s) ==
  IF s = "dedup" THEN <<s, <<r.agent, r.key>>>> ELSE <<s, r.agent>>

\* Seeded bug: the dedup row gets the lifetime of the critical cooldown.
TTL_Short(s) == IF s = "any" THEN CooldownAny ELSE CooldownCrit

TTL(s) ==
  CASE s = "any" -> CooldownAny
    [] s = "critical" -> CooldownCrit
    [] OTHER -> DedupWindow

Idle == {"queued", "done", "failed"}
Running == {j \in Jobs : pc[j] \notin Idle}

\* Seeded bug: the decision itself is routed instead of a severity.
EffectiveSeverity_Raw(severity, decision) ==
  IF decision = "allow" THEN severity ELSE decision

\* _effective_severity
EffectiveSeverity(severity, decision) ==
  CASE decision = "demote_warn" -> "warn"
    [] decision = "demote_info" -> "info"
    [] OTHER -> severity

\* Whose rows or counter the emission of job j may read or write: those of its
\* agent, and the daily counter unless it is an info.
Contends(o, j) ==
  o = req[j].agent \/ (o = Global /\ req[j].severity # "info")

\* The counter a notification of severity s of agent a is charged to.
Owner(a, s) == IF s = "info" THEN a ELSE Global
Cap(s) == IF s = "info" THEN InfoCap ELSE DailyLimit

\* Seeded bug: one notification more than the limit.
Exhausted_OffByOne(c, cap) == c > cap

Exhausted(c, cap) == c >= cap

----
\* Init

Init ==
  /\ now = 0
  /\ store = [k \in RowKey |-> NoRow]
  /\ count = [o \in Owners |-> [d \in Days |-> 0]]
  /\ cache = [k \in RowKey |-> NoEntry]
  /\ sent = {}
  /\ mixed = {}
  /\ clashes = [o \in Owners |-> [d \in Days |-> 0]]
  /\ req \in [Jobs -> Requests]
  /\ tries = [j \in Jobs |-> 0]
  /\ pc = [j \in Jobs |-> "queued"]
  /\ step = [j \in Jobs |-> "dedup"]
  /\ seen = [j \in Jobs |-> NotFound]
  /\ verdict = [j \in Jobs |-> "none"]
  /\ stamp = [j \in Jobs |-> 0]
  /\ cnt = [j \in Jobs |-> 0]

----
\* Where _decide goes next.  Each of these sets pc, step, verdict, stamp.

\* await self._cached_get(...) for the row of step s
GoProbe(j, s) ==
  /\ pc' = [pc EXCEPT ![j] = IF CacheOn THEN "get" ELSE "load"]
  /\ step' = [step EXCEPT ![j] = s]
  /\ UNCHANGED <<verdict, stamp>>

Suppress(j) ==
  /\ verdict' = [verdict EXCEPT ![j] = "suppress"]
  /\ pc' = [pc EXCEPT ![j] = "log"]
  /\ UNCHANGED <<step, stamp>>

\* A non-suppressed decision: _post_decision takes the time and the day and
\* starts with the any-cooldown row.
Pass(j, decision) ==
  /\ verdict' = [verdict EXCEPT ![j] = decision]
  /\ stamp' = [stamp EXCEPT ![j] = now]
  /\ step' = [step EXCEPT ![j] = "any"]
  /\ pc' = [pc EXCEPT ![j] = "set"]

GoBudget(j) ==
  /\ pc' = [pc EXCEPT ![j] = "budget"]
  /\ stamp' = [stamp EXCEPT ![j] = now]
  /\ UNCHANGED <<step, verdict>>

Cooling(f, window) == f.found /\ now - f.at < window

\* _decide, from the answer f of the probe of step[j] to its next await.
Continue(j, f) ==
  LET r == req[j] IN
  \/ /\ step[j] = "dedup" /\ f.found
     /\ Suppress(j)
  \/ /\ step[j] = "dedup" /\ ~f.found
     /\ GoProbe(j, IF r.severity = "critical" THEN "critical" ELSE "any")
  \/ /\ step[j] = "critical" /\ Cooling(f, CooldownCrit)
     /\ Suppress(j)
  \/ /\ step[j] = "critical" /\ ~Cooling(f, CooldownCrit)
     /\ GoProbe(j, "any")
  \/ /\ step[j] = "any" /\ Cooling(f, CooldownAny) /\ r.severity # "info"
     /\ Pass(j, "demote_info")
  \/ /\ step[j] = "any" /\ (r.severity = "info" \/ ~Cooling(f, CooldownAny))
     /\ GoBudget(j)

----
\* Steps of a job

\* Rule 1 of the gate: a critical must come with a whitelisted reason.
\* Seeded bug: any reason code will do.
WhitelistFails_Never(r) == FALSE

WhitelistFails(r) == r.severity = "critical" /\ ~r.listed

\* The worker starts a queued job, up to its first await in the gate.  A
\* critical without a whitelisted reason is demoted before anything is read.
Start(j) ==
  /\ pc[j] = "queued"
  /\ Cardinality(Running) < MaxJobs
  /\ tries' = [tries EXCEPT ![j] = @ + 1]
  /\ IF WhitelistFails(req[j])
     THEN Pass(j, "demote_warn")
     ELSE GoProbe(j, "dedup")
  /\ mixed' = mixed \cup {o \in Owners :
                Contends(o, j) /\ \E i \in Running : Contends(o, i)}
  /\ UNCHANGED <<now, store, count, cache, sent, clashes, req, seen, cnt>>

CacheHit(j) ==
  LET e == cache[KeyOf(req[j], step[j])] IN
  /\ pc[j] = "get"
  /\ Live(e)
  /\ Continue(j, [found |-> ~e.missing, at |-> e.at])
  /\ UNCHANGED <<now, store, count, cache, sent, mixed, clashes, req, tries,
                 seen, cnt>>

\* No entry, or redis.get raised.
CacheMiss(j) ==
  /\ pc[j] = "get"
  /\ RedisFaults \/ ~Live(cache[KeyOf(req[j], step[j])])
  /\ pc' = [pc EXCEPT ![j] = "load"]
  /\ UNCHANGED <<now, store, count, cache, sent, mixed, clashes, req, tries,
                 step, seen, verdict, stamp, cnt>>

\* StateService.get of a gate row
Answer(r) == IF Live(r) THEN [found |-> TRUE, at |-> r.at] ELSE NotFound

Load(j) ==
  LET a == Answer(store[KeyOf(req[j], step[j])]) IN
  /\ pc[j] = "load"
  /\ IF CacheOn
     THEN /\ seen' = [seen EXCEPT ![j] = a]
          /\ pc' = [pc EXCEPT ![j] = "fill"]
          /\ UNCHANGED <<step, verdict, stamp>>
     ELSE /\ Continue(j, a)
          /\ UNCHANGED seen
  /\ UNCHANGED <<now, store, count, cache, sent, mixed, clashes, req, tries,
                 cnt>>

\* redis.set(..., ex=CACHE_TTL_SECONDS) of what Load returned
Fill(j) ==
  /\ pc[j] = "fill"
  /\ \/ cache' = [cache EXCEPT ![KeyOf(req[j], step[j])] =
                    [missing |-> ~seen[j].found, at |-> seen[j].at,
                     until |-> now + CacheTTL]]
     \/ RedisFaults /\ UNCHANGED cache
  /\ Continue(j, seen[j])
  /\ seen' = [seen EXCEPT ![j] = NotFound]
  /\ UNCHANGED <<now, store, count, sent, mixed, clashes, req, tries, cnt>>

\* The uncached counter check: the info cap of the agent, or the daily limit.
CheckBudget(j) ==
  LET r == req[j] IN
  /\ pc[j] = "budget"
  /\ IF Exhausted(count[Owner(r.agent, r.severity)][Day(stamp[j])],
                  Cap(r.severity))
     THEN Suppress(j)
     ELSE Pass(j, "allow")
  /\ UNCHANGED <<now, store, count, cache, sent, mixed, clashes, req, tries,
                 seen, cnt>>

\* What _post_decision awaits once the row of step[j] is written and its
\* cache entry deleted.
NextWrite(j) ==
  CASE step[j] = "any" /\ verdict[j] = "allow" /\ req[j].severity = "critical"
         -> /\ step' = [step EXCEPT ![j] = "critical"]
            /\ pc' = [pc EXCEPT ![j] = "set"]
    [] step[j] = "dedup"
         -> /\ pc' = [pc EXCEPT ![j] = "count"]
            /\ UNCHANGED step
    [] OTHER
         -> /\ step' = [step EXCEPT ![j] = "dedup"]
            /\ pc' = [pc EXCEPT ![j] = "set"]

\* StateService.set of a gate row: the value is now_ts, the expiry counts
\* from the statement's own NOW().
SetRow(j) ==
  /\ pc[j] = "set"
  /\ store' = [store EXCEPT ![KeyOf(req[j], step[j])] =
                 [at |-> stamp[j], until |-> now + TTL(step[j])]]
  /\ IF CacheOn
     THEN pc' = [pc EXCEPT ![j] = "del"] /\ UNCHANGED step
     ELSE NextWrite(j)
  /\ UNCHANGED <<now, count, cache, sent, mixed, clashes, req, tries, seen,
                 verdict, stamp, cnt>>

\* _cache_invalidate.  When redis.delete raises, the old copy stays.
Invalidate(j) ==
  /\ pc[j] = "del"
  /\ \/ /\ cache' = [cache EXCEPT ![KeyOf(req[j], step[j])] = NoEntry]
        /\ UNCHANGED mixed
     \/ /\ RedisFaults
        /\ mixed' = mixed \cup {req[j].agent}
        /\ UNCHANGED cache
  /\ NextWrite(j)
  /\ UNCHANGED <<now, store, count, sent, clashes, req, tries, seen, verdict,
                 stamp, cnt>>

\* Seeded bug: the counter of the requested severity is charged.
Charged_Requested(j) == Owner(req[j].agent, req[j].severity)

Charged(j) ==
  Owner(req[j].agent, EffectiveSeverity(req[j].severity, verdict[j]))

\* The jobs between the read and the write of counter o of day d
Incrementing(o, d) ==
  {j \in Jobs : pc[j] = "charge" /\ Charged(j) = o /\ Day(stamp[j]) = d}

\* The counter's increment: one read, then one write.
ReadCount(j) ==
  LET o == Charged(j)
      d == Day(stamp[j])
  IN
  /\ pc[j] = "count"
  /\ cnt' = [cnt EXCEPT ![j] = count[o][d]]
  /\ pc' = [pc EXCEPT ![j] = "charge"]
  /\ clashes' = IF Incrementing(o, d) = {}
                THEN clashes
                ELSE [clashes EXCEPT ![o][d] = @ + 1]
  /\ UNCHANGED <<now, store, count, cache, sent, mixed, req, tries, step, seen,
                 verdict, stamp>>

WriteCount(j) ==
  /\ pc[j] = "charge"
  /\ count' = [count EXCEPT ![Charged(j)][Day(stamp[j])] = cnt[j] + 1]
  /\ cnt' = [cnt EXCEPT ![j] = 0]
  /\ pc' = [pc EXCEPT ![j] = "log"]
  /\ UNCHANGED <<now, store, cache, sent, mixed, clashes, req, tries, step,
                 seen, verdict, stamp>>

\* Seeded bug: emit routes on ALLOW only.
Silent_UnlessAllowed(decision) == decision # "allow"

\* The decisions on which emit routes nothing
Silent(decision) == decision = "suppress"

\* _log_decision: the row of agent_logs itself is left out.
LogDecision(j) ==
  /\ pc[j] = "log"
  /\ pc' = [pc EXCEPT ![j] = IF Silent(verdict[j]) THEN "return" ELSE "route"]
  /\ UNCHANGED <<now, store, count, cache, sent, mixed, clashes, req, tries,
                 step, seen, verdict, stamp, cnt>>

Notice(j) ==
  [id |-> <<j, tries[j]>>, agent |-> req[j].agent, key |-> req[j].key,
   asked |-> req[j].severity,
   severity |-> EffectiveSeverity(req[j].severity, verdict[j]),
   at |-> stamp[j]]

\* emit hands the notification to the router after the gate has recorded it.
Route(j) ==
  /\ pc[j] = "route"
  /\ sent' = sent \cup {Notice(j)}
  /\ pc' = [pc EXCEPT ![j] = "return"]
  /\ UNCHANGED <<now, store, count, cache, mixed, clashes, req, tries, step,
                 seen, verdict, stamp, cnt>>

\* The frames of the jobs in J are gone, and their locals with them.
Unwind(J) ==
  /\ step' = [j \in Jobs |-> IF j \in J THEN "dedup" ELSE step[j]]
  /\ seen' = [j \in Jobs |-> IF j \in J THEN NotFound ELSE seen[j]]
  /\ verdict' = [j \in Jobs |-> IF j \in J THEN "none" ELSE verdict[j]]
  /\ stamp' = [j \in Jobs |-> IF j \in J THEN 0 ELSE stamp[j]]
  /\ cnt' = [j \in Jobs |-> IF j \in J THEN 0 ELSE cnt[j]]
  /\ UNCHANGED <<now, store, count, cache, sent, mixed, clashes, req, tries>>

\* The rest of process() after emit, and the end of the job.
Return(j) ==
  /\ pc[j] = "return"
  /\ pc' = [pc EXCEPT ![j] = "done"]
  /\ Unwind({j})

----
\* The environment

\* A statement of Postgres raises, or the job times out: the job ends where
\* it is (dispatch_event_to_agent answers success=False) and is not retried.
Fail(j) ==
  /\ Failures
  /\ pc[j] \notin Idle
  /\ pc' = [pc EXCEPT ![j] = "failed"]
  /\ Unwind({j})

\* The worker stops and starts again: ARQ runs its unfinished jobs again from
\* the beginning, up to MaxTries times.
AfterRestart(j) == IF tries[j] < MaxTries THEN "queued" ELSE "failed"

WorkerRestart ==
  /\ Failures
  /\ Running # {}
  /\ pc' = [j \in Jobs |-> IF j \in Running THEN AfterRestart(j) ELSE pc[j]]
  /\ Unwind(Running)

\* Time passes.  Redis drops the entries whose TTL is over.  A row of
\* agent_state whose expires_at is over is dropped with it: no reader sees it
\* any more, and whether agent_state_cleanup has deleted it makes no difference.
Unexpired(r, none, t) == IF r.until > t THEN r ELSE none

Tick ==
  /\ now < MaxTime
  /\ now' = now + 1
  /\ store' = [k \in RowKey |-> Unexpired(store[k], NoRow, now + 1)]
  /\ cache' = [k \in RowKey |-> Unexpired(cache[k], NoEntry, now + 1)]
  /\ UNCHANGED <<count, sent, mixed, clashes, jobVars>>

\* Nothing is left to do within the bounds of the model.
Quiescent ==
  /\ now = MaxTime
  /\ \A j \in Jobs : pc[j] \in {"done", "failed"}
  /\ UNCHANGED vars

JobStep(j) ==
  \/ Start(j) \/ CacheHit(j) \/ CacheMiss(j) \/ Load(j) \/ Fill(j)
  \/ CheckBudget(j) \/ SetRow(j) \/ Invalidate(j) \/ ReadCount(j)
  \/ WriteCount(j) \/ LogDecision(j) \/ Route(j) \/ Return(j)

Next ==
  \/ \E j \in Jobs : JobStep(j) \/ Fail(j)
  \/ WorkerRestart
  \/ Tick
  \/ Quiescent

Spec == Init /\ [][Next]_vars

\* The event loop runs every coroutine that can go on.
FairSpec == Spec /\ \A j \in Jobs : WF_vars(JobStep(j))

----
\* Properties

\* Type invariant.
TypeOK ==
  /\ now \in Times
  /\ store \in [RowKey -> Row]
  /\ count \in [Owners -> [Days -> Nat]]
  /\ cache \in [RowKey -> Entry]
  /\ sent \subseteq [id: Jobs \X Nat, agent: Agents, key: Keys,
                     asked: Severity, severity: Severity, at: Times]
  /\ mixed \subseteq Owners
  /\ clashes \in [Owners -> [Days -> Nat]]
  /\ req \in [Jobs -> Requests]
  /\ tries \in [Jobs -> 0..MaxTries]
  /\ pc \in [Jobs -> Idle \cup {"get", "load", "fill", "budget", "set", "del",
                                "count", "charge", "log", "route", "return"}]
  /\ step \in [Jobs -> {"dedup", "critical", "any"}]
  /\ seen \in [Jobs -> Found]
  /\ verdict \in [Jobs -> {"none", "suppress", "allow", "demote_warn",
                           "demote_info"}]
  /\ stamp \in [Jobs -> Times]
  /\ cnt \in [Jobs -> Nat]

\* The exit gate of the design: no critical reaches a channel unless the
\* agent asked for one with a reason on its whitelist, and then its dedup row
\* and its critical cooldown are on record, whatever interleaving, restart or
\* Redis error came before.
NoFalseCriticals ==
  \A n \in sent : n.severity = "critical" =>
    /\ req[n.id[1]].severity = "critical" /\ req[n.id[1]].listed
    /\ n.at + CooldownCrit > now
         => store[<<"critical", n.agent>>].until >= n.at + CooldownCrit
    /\ n.at + DedupWindow > now
         => store[<<"dedup", <<n.agent, n.key>>>>].until >= n.at + DedupWindow

\* _post_decision writes before emit routes: whoever asks Postgres for the
\* dedup row of a notification that was sent finds it for the whole window,
\* also after crashes, retries and later writers of the same row.
SentIsRecorded ==
  \A n \in sent : n.at + DedupWindow > now =>
    store[<<"dedup", <<n.agent, n.key>>>>].until >= n.at + DedupWindow

\* No notification is swallowed: a job that the gate silenced as a duplicate
\* was silenced for the sake of one that reaches the router.
SilencedAsDuplicate(j) ==
  pc[j] = "return" /\ verdict[j] = "suppress" /\ step[j] = "dedup"

OriginalSent(j) ==
  \E n \in sent : n.agent = req[j].agent /\ n.key = req[j].key

DuplicateHasOriginal ==
  \A j \in Jobs : SilencedAsDuplicate(j) ~> OriginalSent(j)

SentOn(o, d) ==
  {n \in sent : Owner(n.agent, n.severity) = o /\ Day(n.at) = d}

\* No budget is forgotten, however many jobs run: what was sent on a day is in
\* that day's counter, but for one at most for each increment that began while
\* another one of the same counter was between its read and its write.
CountersCoverSent ==
  \A o \in Owners, d \in Days :
    Cardinality(SentOn(o, d)) <= count[o][d] + clashes[o][d]

\* Header rule 2: the same (agent, dedup_key) within DEDUP_WINDOW is
\* suppressed.
NoDuplicateInWindow ==
  \A m, n \in sent :
    m # n /\ m.agent = n.agent /\ m.key = n.key /\ m.at <= n.at
      => n.at - m.at >= DedupWindow

\* Header rule 5: the global daily rate limit of non-info pings.
DailyRateLimit ==
  \A d \in Days : Cardinality(SentOn(Global, d)) <= DailyLimit

\* The gate keeps the policy, with any number of jobs at once, for every agent
\* of which no two jobs were at work at once and no deletion of a copy failed.
Policy == INSTANCE AlertPolicy
  WITH Ids <- Jobs \X (1..MaxTries), excused <- mixed

PolicySpec == Policy!Spec
====

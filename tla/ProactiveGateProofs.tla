---- MODULE ProactiveGateProofs ----
(***************************************************************************)
(* What TLAPS proves of ProactiveGate for every number of jobs, every      *)
(* concurrency limit, with or without the cache, Redis errors, restarts    *)
(* and failures: types, what is on record when something is sent, what the *)
(* counters cover, and that the gate implements AlertPolicy.               *)
(***************************************************************************)
EXTENDS ProactiveGate, FiniteSetTheorems, TLAPS

Pcs == Idle \cup {"get", "load", "fill", "budget", "set", "del", "count",
                  "charge", "log", "route", "return"}
Verdicts == {"none", "suppress", "allow", "demote_warn", "demote_info"}
Steps == {"dedup", "critical", "any"}

\* The job-local half of TypeOK.
LocalsOK ==
  /\ pc \in [Jobs -> Pcs]
  /\ step \in [Jobs -> Steps]
  /\ verdict \in [Jobs -> Verdicts]
  /\ stamp \in [Jobs -> Times]

\* A queued job has not used up its tries: what Start needs to stay in type.
CanStart == \A j \in Jobs : pc[j] = "queued" => tries[j] < MaxTries

TypeInv == TypeOK /\ CanStart

----
\* The key a request leads to is a key of the store.
LEMMA KeyOfType ==
  ASSUME NEW r \in Request, NEW s \in Steps
  PROVE  KeyOf(r, s) \in RowKey
BY DEF KeyOf, RowKey, Request, Steps

\* A request of a job has its types.
LEMMA ReqType ==
  ASSUME TypeOK, NEW j \in Jobs
  PROVE  req[j] \in Request
BY JobsAssumption DEF TypeOK

\* The time to live of a row is a natural number.
LEMMA TTLType ==
  ASSUME NEW s
  PROVE  TTL(s) \in Nat \ {0}
BY LimitsAssumption DEF TTL

\* The severity that _decide works with is a severity.
LEMMA EffectiveSeverityType ==
  ASSUME NEW s \in Severity, NEW d
  PROVE  EffectiveSeverity(s, d) \in Severity
BY DEF EffectiveSeverity, Severity

\* Where _decide goes next stays in type, whatever the probe answered.
LEMMA ContinueType ==
  ASSUME TypeOK, NEW j \in Jobs, NEW f, Continue(j, f)
  PROVE  LocalsOK' /\ pc'[j] # "queued" /\ \A i \in Jobs \ {j} : pc'[i] = pc[i]
<1>1. CASE Suppress(j)
  BY <1>1 DEF Suppress, TypeOK, LocalsOK, Pcs, Verdicts, Steps, Idle
<1>2. CASE \E s \in Steps : GoProbe(j, s)
  BY <1>2 DEF GoProbe, TypeOK, LocalsOK, Pcs, Verdicts, Steps, Idle
<1>3. CASE Pass(j, "demote_info")
  BY <1>3 DEF Pass, TypeOK, LocalsOK, Pcs, Verdicts, Steps, Idle
<1>4. CASE GoBudget(j)
  BY <1>4 DEF GoBudget, TypeOK, LocalsOK, Pcs, Verdicts, Steps, Idle
<1>5. QED
  BY <1>1, <1>2, <1>3, <1>4 DEF Continue, Steps

\* _post_decision goes from row to row until the counter.
LEMMA NextWriteType ==
  ASSUME TypeOK, NEW j \in Jobs, NextWrite(j)
  PROVE  /\ pc' \in [Jobs -> Pcs] /\ step' \in [Jobs -> Steps]
         /\ pc'[j] # "queued" /\ \A i \in Jobs \ {j} : pc'[i] = pc[i]
BY DEF NextWrite, TypeOK, Pcs, Steps, Idle

----
\* Each kind of step keeps the types.  First the steps of a job.
LEMMA JobStepType ==
  ASSUME TypeInv, NEW j \in Jobs, JobStep(j)
  PROVE  TypeInv'
<1> USE DEF TypeInv
<1>r. req[j] \in Request
  BY ReqType
<1>k. KeyOf(req[j], step[j]) \in RowKey
  BY <1>r, KeyOfType DEF TypeOK, Steps
<1>s. EffectiveSeverity(req[j].severity, verdict[j]) \in Severity
  BY <1>r, EffectiveSeverityType DEF Request
<1>o. Charged(j) \in Owners
  BY <1>r DEF Charged, Owner, Owners, Request
<1>d. Day(stamp[j]) \in Days
  BY DEF TypeOK, Days
<1>1. CASE Start(j)
  <2>1. tries' \in [Jobs -> 0..MaxTries]
    BY <1>1, JobsAssumption DEF Start, TypeOK, CanStart
  <2>2. LocalsOK' /\ pc'[j] # "queued" /\ \A i \in Jobs \ {j} : pc'[i] = pc[i]
    <3>1. CASE Pass(j, "demote_warn")
      BY <3>1 DEF Pass, TypeOK, LocalsOK, Pcs, Verdicts, Steps, Idle
    <3>2. CASE GoProbe(j, "dedup")
      BY <3>2 DEF GoProbe, TypeOK, LocalsOK, Pcs, Verdicts, Steps, Idle
    <3>3. QED
      BY <1>1, <3>1, <3>2 DEF Start
  <2>3. \A i \in Jobs \ {j} : tries'[i] = tries[i]
    BY <1>1 DEF Start, TypeOK
  <2>5. mixed' \subseteq Owners
    BY <1>1 DEF Start, TypeOK
  <2>4. QED
    BY <1>1, <2>1, <2>2, <2>3, <2>5
    DEF Start, TypeOK, CanStart, LocalsOK, Pcs, Verdicts, Steps
<1>2. CASE CacheHit(j)
  <2>1. PICK f : Continue(j, f)
    BY <1>2 DEF CacheHit
  <2>2. QED
    BY <1>2, <2>1, ContinueType
    DEF CacheHit, TypeOK, CanStart, LocalsOK, Pcs, Verdicts, Steps
<1>3. CASE CacheMiss(j)
  BY <1>3 DEF CacheMiss, TypeOK, CanStart, Idle
<1>4. CASE Load(j)
  <2>1. Answer(store[KeyOf(req[j], step[j])]) \in Found
    BY <1>k DEF Answer, TypeOK, Row, Found, NotFound
  <2>2. CASE CacheOn
    BY <1>4, <2>1, <2>2 DEF Load, TypeOK, CanStart, Idle
  <2>3. CASE ~CacheOn
    <3>1. PICK f : Continue(j, f)
      BY <1>4, <2>3 DEF Load
    <3>2. QED
      BY <1>4, <2>3, <3>1, ContinueType
      DEF Load, TypeOK, CanStart, LocalsOK, Pcs, Verdicts, Steps
  <2>4. QED
    BY <2>2, <2>3
<1>5. CASE Fill(j)
  <2>1. cache' \in [RowKey -> Entry]
    <3>1. seen[j].found \in BOOLEAN /\ seen[j].at \in Nat
      BY DEF TypeOK, Found
    <3>2. now + CacheTTL \in Nat
      BY LimitsAssumption DEF TypeOK, Times
    <3>3. [missing |-> ~seen[j].found, at |-> seen[j].at,
           until |-> now + CacheTTL] \in Entry
      BY <3>1, <3>2 DEF Entry
    <3>4. QED
      BY <1>5, <1>k, <3>3 DEF Fill, TypeOK
  <2>2. seen' \in [Jobs -> Found]
    BY <1>5 DEF Fill, TypeOK, Found, NotFound
  <2>3. Continue(j, seen[j])
    BY <1>5 DEF Fill
  <2>4. QED
    BY <1>5, <2>1, <2>2, <2>3, ContinueType
    DEF Fill, TypeOK, CanStart, LocalsOK, Pcs, Verdicts, Steps
<1>6. CASE CheckBudget(j)
  <2>1. LocalsOK' /\ pc'[j] # "queued" /\ \A i \in Jobs \ {j} : pc'[i] = pc[i]
    <3>1. CASE Suppress(j)
      BY <3>1 DEF Suppress, TypeOK, LocalsOK, Pcs, Verdicts, Steps, Idle
    <3>2. CASE Pass(j, "allow")
      BY <3>2 DEF Pass, TypeOK, LocalsOK, Pcs, Verdicts, Steps, Idle
    <3>3. QED
      BY <1>6, <3>1, <3>2 DEF CheckBudget
  <2>2. QED
    BY <1>6, <2>1
    DEF CheckBudget, TypeOK, CanStart, LocalsOK, Pcs, Verdicts, Steps
<1>7. CASE SetRow(j)
  <2>1. store' \in [RowKey -> Row]
    BY <1>7, <1>k, TTLType DEF SetRow, TypeOK, Row, Times
  <2>2. CASE CacheOn
    BY <1>7, <2>1, <2>2 DEF SetRow, TypeOK, CanStart, Idle
  <2>3. CASE ~CacheOn
    BY <1>7, <2>1, <2>3, NextWriteType
    DEF SetRow, TypeOK, CanStart, Pcs, Steps
  <2>4. QED
    BY <2>2, <2>3
<1>8. CASE Invalidate(j)
  <2>0. NoEntry \in Entry
    BY DEF NoEntry, Entry
  <2>1. cache' \in [RowKey -> Entry]
    BY <1>8, <2>0 DEF Invalidate, TypeOK
  <2>2. mixed' \subseteq Owners
    BY <1>8, <1>r DEF Invalidate, TypeOK, Owners, Request
  <2>3. QED
    BY <1>8, <2>1, <2>2, NextWriteType DEF Invalidate, TypeOK, CanStart, Pcs, Steps
<1>9. CASE ReadCount(j)
  <2>1. cnt' \in [Jobs -> Nat]
    BY <1>9, <1>o, <1>d DEF ReadCount, TypeOK
  <2>2. clashes' \in [Owners -> [Days -> Nat]]
    BY <1>9, <1>o, <1>d DEF ReadCount, TypeOK
  <2>3. QED
    BY <1>9, <2>1, <2>2 DEF ReadCount, TypeOK, CanStart, Idle
<1>10. CASE WriteCount(j)
  <2>1. count' \in [Owners -> [Days -> Nat]]
    BY <1>10, <1>o, <1>d DEF WriteCount, TypeOK
  <2>2. QED
    BY <1>10, <2>1 DEF WriteCount, TypeOK, CanStart, Idle
<1>11. CASE LogDecision(j)
  BY <1>11 DEF LogDecision, TypeOK, CanStart, Idle
<1>12. CASE Route(j)
  <2>1. Notice(j) \in [id: Jobs \X Nat, agent: Agents, key: Keys,
                       asked: Severity, severity: Severity, at: Times]
    BY <1>r, <1>s, JobsAssumption DEF Notice, Request, TypeOK
  <2>2. QED
    BY <1>12, <2>1 DEF Route, TypeOK, CanStart, Idle
<1>13. CASE Return(j)
  <2>1. 0 \in Times /\ NotFound \in Found
    BY LimitsAssumption DEF Times, Found, NotFound
  <2>2. QED
    BY <1>13, <2>1 DEF Return, Unwind, TypeOK, CanStart, Idle
<1>14. QED
  BY <1>1, <1>2, <1>3, <1>4, <1>5, <1>6, <1>7, <1>8, <1>9, <1>10, <1>11,
     <1>12, <1>13 DEF JobStep

\* Then the steps of the environment.
LEMMA EnvironmentType ==
  ASSUME TypeInv,
         \/ \E j \in Jobs : Fail(j)
         \/ WorkerRestart
         \/ Tick
         \/ UNCHANGED vars
  PROVE  TypeInv'
<1> USE DEF TypeInv
<1>z. 0 \in Times
  BY LimitsAssumption DEF Times
<1>1. ASSUME NEW j \in Jobs, Fail(j)
      PROVE  TypeInv'
  BY <1>1, <1>z DEF Fail, Unwind, TypeOK, CanStart, Idle, Found, NotFound
<1>2. CASE WorkerRestart
  <2>1. pc' \in [Jobs -> Pcs] /\ CanStart'
    BY <1>2 DEF WorkerRestart, AfterRestart, Running, Unwind, TypeOK,
                CanStart, Pcs, Idle
  <2>2. QED
    BY <1>2, <1>z, <2>1 DEF WorkerRestart, Unwind, TypeOK, Pcs, Found, NotFound
<1>3. CASE Tick
  <2>1. now' \in Times
    BY <1>3, LimitsAssumption DEF Tick, TypeOK, Times
  <2>2. store' \in [RowKey -> Row]
    BY <1>3 DEF Tick, TypeOK, Unexpired, Row, NoRow
  <2>3. cache' \in [RowKey -> Entry]
    BY <1>3 DEF Tick, TypeOK, Unexpired, Entry, NoEntry
  <2>4. QED
    BY <1>3, <2>1, <2>2, <2>3 DEF Tick, jobVars, TypeOK, CanStart
<1>4. CASE UNCHANGED vars
  BY <1>4 DEF vars, jobVars, TypeOK, CanStart
<1>5. QED
  BY <1>1, <1>2, <1>3, <1>4

\* The types hold at first.
LEMMA InitType == Init => TypeInv
<1> SUFFICES ASSUME Init PROVE TypeInv
  OBVIOUS
<1>1. 0 \in Times
  BY LimitsAssumption DEF Times
<1>2. QED
  BY <1>1, JobsAssumption
  DEF Init, TypeInv, TypeOK, CanStart, Row, NoRow, Entry, NoEntry, Found,
      NotFound, Idle

\* Every reachable state is well typed: in particular every counter and every
\* expiry stays a natural number, and no job is started more than MaxTries
\* times by the worker.
THEOREM TypeCorrect == Spec => []TypeOK
<1>1. Init => TypeInv
  BY InitType
<1>2. TypeInv /\ [Next]_vars => TypeInv'
  BY JobStepType, EnvironmentType DEF Next, Quiescent
<1>3. TypeInv => TypeOK
  BY DEF TypeInv
<1>4. QED
  BY <1>1, <1>2, <1>3, PTL DEF Spec

----
(***************************************************************************)
(* What is sent is on record.  SentIsRecorded and NoFalseCriticals are not *)
(* inductive: that a notification is recorded when it is sent depends on   *)
(* what its job has written so far, and that it stays recorded on every    *)
(* later write of the same row reaching at least as far.                   *)
(***************************************************************************)

\* The row k covers the whole lifetime of a notification of time t.
Covered(k, t) ==
  t + TTL(k[1]) > now => store[k].until >= t + TTL(k[1])

\* No row outlives a row written now: what makes every later write cover more.
RowsBounded == \A k \in RowKey : store[k].until <= now + TTL(k[1])

StampPast == \A j \in Jobs : stamp[j] <= now

Passed == {"allow", "demote_warn", "demote_info"}

\* A decision is taken before anything is written, and only a whitelisted
\* critical goes past the first rule.
DecisionInv ==
  \A j \in Jobs :
    /\ pc[j] \in {"set", "del", "count", "charge", "route"}
         => verdict[j] \in Passed
    /\ pc[j] = "log" => verdict[j] # "none"
    /\ pc[j] \in {"get", "load", "fill", "budget"} => ~WhitelistFails(req[j])
    /\ verdict[j] = "allow" => ~WhitelistFails(req[j])
    /\ verdict[j] = "demote_warn" => req[j].severity = "critical"
    /\ verdict[j] = "demote_info" => req[j].severity # "info"

\* The job has written its dedup row, its critical cooldown.
WroteDedup(j) ==
  \/ pc[j] \in {"count", "charge", "route"}
  \/ pc[j] = "log" /\ verdict[j] # "suppress"
  \/ pc[j] = "del" /\ step[j] = "dedup"

LoudestAllowed(j) == verdict[j] = "allow" /\ req[j].severity = "critical"

WroteCritical(j) ==
  /\ LoudestAllowed(j)
  /\ \/ WroteDedup(j)
     \/ pc[j] \in {"set", "del"} /\ step[j] = "dedup"
     \/ pc[j] = "del" /\ step[j] = "critical"

Recorded ==
  \A j \in Jobs :
    /\ WroteDedup(j) => Covered(KeyOf(req[j], "dedup"), stamp[j])
    /\ WroteCritical(j) => Covered(KeyOf(req[j], "critical"), stamp[j])

SentRecorded ==
  \A n \in sent :
    /\ n.at <= now
    /\ Covered(<<"dedup", <<n.agent, n.key>>>>, n.at)
    /\ n.severity = "critical" =>
         /\ req[n.id[1]].severity = "critical" /\ req[n.id[1]].listed
         /\ Covered(<<"critical", n.agent>>, n.at)

RecordInv ==
  TypeInv /\ RowsBounded /\ StampPast /\ DecisionInv /\ Recorded /\ SentRecorded

----
\* Every step keeps the types.
LEMMA TypeInvStep == TypeInv /\ [Next]_vars => TypeInv'
BY JobStepType, EnvironmentType DEF Next, Quiescent

\* Only a write of a gate row and the clock change what the store shows.
LEMMA StoreChange ==
  ASSUME [Next]_vars
  PROVE  \/ store' = store /\ now' = now
         \/ Tick
         \/ \E j \in Jobs : SetRow(j)
BY DEF Next, JobStep, Start, CacheHit, CacheMiss, Load, Fill, CheckBudget,
       Invalidate, ReadCount, WriteCount, LogDecision, Route, Return, Fail,
       WorkerRestart, Unwind, Quiescent, vars

\* No step changes what a job was asked to emit.
LEMMA RequestsFixed == [Next]_vars => req' = req
BY DEF Next, JobStep, Start, CacheHit, CacheMiss, Load, Fill, CheckBudget,
       SetRow, Invalidate, ReadCount, WriteCount, LogDecision, Route, Return,
       Fail, WorkerRestart, Unwind, Tick, Quiescent, vars, jobVars

\* A row written by job j: its lifetime starts now.
LEMMA SetRowEffect ==
  ASSUME TypeOK, NEW j \in Jobs, SetRow(j)
  PROVE  /\ KeyOf(req[j], step[j]) \in RowKey
         /\ KeyOf(req[j], step[j])[1] = step[j]
         /\ now' = now
         /\ store'[KeyOf(req[j], step[j])].until = now + TTL(step[j])
         /\ \A k \in RowKey : store'[k] # store[k] => k = KeyOf(req[j], step[j])
<1>1. KeyOf(req[j], step[j]) \in RowKey
  BY KeyOfType, ReqType DEF TypeOK, Steps
<1>2. KeyOf(req[j], step[j])[1] = step[j]
  BY DEF KeyOf
<1>3. QED
  BY <1>1, <1>2 DEF SetRow, TypeOK

\* What is covered stays covered, whoever writes the row again.
LEMMA CoveredStays ==
  ASSUME TypeOK, RowsBounded, [Next]_vars,
         NEW k \in RowKey, NEW t \in Nat, t <= now, Covered(k, t)
  PROVE  t + TTL(k[1]) > now' => store'[k].until >= t + TTL(k[1])
<1>0. now \in Nat /\ store[k].until \in Nat /\ TTL(k[1]) \in Nat
  BY TTLType DEF TypeOK, Times, Row
<1>1. CASE store' = store /\ now' = now
  BY <1>1 DEF Covered
<1>2. CASE Tick
  BY <1>0, <1>2 DEF Tick, Covered, Unexpired, TypeOK
<1>3. ASSUME NEW j \in Jobs, SetRow(j)
      PROVE  t + TTL(k[1]) > now' => store'[k].until >= t + TTL(k[1])
  <2>1. CASE k = KeyOf(req[j], step[j])
    BY <1>0, <1>3, <2>1, SetRowEffect
  <2>2. CASE k # KeyOf(req[j], step[j])
    BY <1>0, <1>3, <2>2, SetRowEffect DEF Covered
  <2>3. QED
    BY <2>1, <2>2
<1>4. QED
  BY <1>1, <1>2, <1>3, StoreChange

\* No step writes a row that outlives its time to live.
LEMMA RowsBoundedStep ==
  ASSUME TypeOK, RowsBounded, [Next]_vars
  PROVE  RowsBounded'
<1> SUFFICES ASSUME NEW k \in RowKey
             PROVE  store'[k].until <= now' + TTL(k[1])
  BY DEF RowsBounded
<1>0. now \in Nat /\ store[k].until \in Nat /\ TTL(k[1]) \in Nat
  BY TTLType DEF TypeOK, Times, Row
<1>1. CASE store' = store /\ now' = now
  BY <1>1 DEF RowsBounded
<1>2. CASE Tick
  BY <1>0, <1>2 DEF Tick, RowsBounded, Unexpired, TypeOK, NoRow
<1>3. ASSUME NEW j \in Jobs, SetRow(j)
      PROVE  store'[k].until <= now' + TTL(k[1])
  <2>1. CASE k = KeyOf(req[j], step[j])
    BY <1>0, <1>3, <2>1, SetRowEffect
  <2>2. CASE k # KeyOf(req[j], step[j])
    BY <1>0, <1>3, <2>2, SetRowEffect DEF RowsBounded
  <2>3. QED
    BY <2>1, <2>2
<1>4. QED
  BY <1>1, <1>2, <1>3, StoreChange

----
\* What one step does to the locals of a job.

\* A job keeps its locals, takes its own step, or is unwound.
LEMMA LocalsChange ==
  ASSUME TypeOK, [Next]_vars, NEW i \in Jobs
  PROVE  \/ /\ pc'[i] = pc[i] /\ step'[i] = step[i]
            /\ verdict'[i] = verdict[i] /\ stamp'[i] = stamp[i]
         \/ JobStep(i)
         \/ pc'[i] \in Idle /\ stamp'[i] = 0 /\ verdict'[i] = "none"
<1>1. ASSUME NEW j \in Jobs, JobStep(j), i # j
      PROVE  /\ pc'[i] = pc[i] /\ step'[i] = step[i]
             /\ verdict'[i] = verdict[i] /\ stamp'[i] = stamp[i]
  <2> USE DEF TypeOK
  <2> DEFINE Same == /\ pc'[i] = pc[i] /\ step'[i] = step[i]
                     /\ verdict'[i] = verdict[i] /\ stamp'[i] = stamp[i]
  <2>1. ASSUME NEW f, Continue(j, f) PROVE Same
    BY <1>1, <2>1 DEF Continue, GoProbe, Suppress, Pass, GoBudget
  <2>2. CASE Start(j)
    BY <1>1, <2>2 DEF Start, Pass, GoProbe
  <2>3. CASE CacheHit(j)
    BY <2>1, <2>3 DEF CacheHit
  <2>4. CASE Load(j)
    BY <1>1, <2>1, <2>4 DEF Load
  <2>5. CASE Fill(j)
    BY <2>1, <2>5 DEF Fill
  <2>6. CASE CheckBudget(j)
    BY <1>1, <2>6 DEF CheckBudget, Suppress, Pass
  <2>7. CASE SetRow(j) \/ Invalidate(j)
    BY <1>1, <2>7, NextWriteType DEF SetRow, Invalidate, NextWrite
  <2>8. CASE \/ CacheMiss(j) \/ ReadCount(j) \/ WriteCount(j)
             \/ LogDecision(j) \/ Route(j) \/ Return(j)
    BY <1>1, <2>8 DEF CacheMiss, ReadCount, WriteCount, LogDecision, Route,
                      Return, Unwind
  <2>9. QED
    BY <1>1, <2>2, <2>3, <2>4, <2>5, <2>6, <2>7, <2>8 DEF JobStep
<1>2. ASSUME NEW j \in Jobs, Fail(j)
      PROVE  \/ /\ pc'[i] = pc[i] /\ step'[i] = step[i]
                /\ verdict'[i] = verdict[i] /\ stamp'[i] = stamp[i]
             \/ pc'[i] \in Idle /\ stamp'[i] = 0 /\ verdict'[i] = "none"
  BY <1>2 DEF Fail, Unwind, TypeOK, Idle
<1>3. ASSUME WorkerRestart
      PROVE  \/ /\ pc'[i] = pc[i] /\ step'[i] = step[i]
                /\ verdict'[i] = verdict[i] /\ stamp'[i] = stamp[i]
             \/ pc'[i] \in Idle /\ stamp'[i] = 0 /\ verdict'[i] = "none"
  <2>1. CASE pc[i] \in Idle
    BY <1>3, <2>1 DEF WorkerRestart, Unwind, Running, TypeOK
  <2>2. CASE pc[i] \notin Idle
    <3>1. pc'[i] \in Idle
      BY <1>3, <2>2 DEF WorkerRestart, AfterRestart, Running, Idle
    <3>2. stamp'[i] = 0 /\ verdict'[i] = "none"
      BY <1>3, <2>2 DEF WorkerRestart, Unwind, Running
    <3>3. QED
      BY <3>1, <3>2
  <2>3. QED
    BY <2>1, <2>2
<1>4. CASE Tick \/ UNCHANGED vars
  BY <1>4 DEF Tick, vars, jobVars
<1>5. QED
  BY <1>1, <1>2, <1>3, <1>4 DEF Next, Quiescent

\* A decision is always stamped with the present.
LEMMA StampPastStep ==
  ASSUME TypeOK, StampPast, [Next]_vars
  PROVE  StampPast'
<1> SUFFICES ASSUME NEW i \in Jobs
             PROVE  stamp'[i] <= now'
  BY DEF StampPast
<1>1. now \in Nat /\ now' \in Nat /\ now <= now'
  BY StoreChange, SetRowEffect DEF TypeOK, Times, Tick
<1>2. ASSUME JobStep(i)
      PROVE  stamp'[i] \in {stamp[i], now, 0}
  <2> USE DEF TypeOK
  <2>1. ASSUME NEW f, Continue(i, f) PROVE stamp'[i] \in {stamp[i], now}
    BY <2>1 DEF Continue, GoProbe, Suppress, Pass, GoBudget
  <2>2. QED
    BY <1>2, <2>1 DEF JobStep, Start, Pass, GoProbe, CacheHit, CacheMiss, Load,
       Fill, CheckBudget, Suppress, SetRow, Invalidate, ReadCount,
       WriteCount, LogDecision, Route, Return, Unwind
<1>3. stamp'[i] \in {stamp[i], now, 0}
  BY <1>2, LocalsChange
<1>4. stamp[i] \in Nat /\ stamp[i] <= now
  BY DEF TypeOK, Times, StampPast
<1>5. QED
  BY <1>1, <1>3, <1>4

\* Only an emission that passes rule 1 goes on to the probes, and a decision
\* is taken before a row is written.
LEMMA DecisionStep ==
  ASSUME TypeOK, DecisionInv, [Next]_vars
  PROVE  DecisionInv'
<1> DEFINE Good(p, v, r) ==
      /\ p \in {"set", "del", "count", "charge", "route"} => v \in Passed
      /\ p = "log" => v # "none"
      /\ p \in {"get", "load", "fill", "budget"} => ~WhitelistFails(r)
      /\ v = "allow" => ~WhitelistFails(r)
      /\ v = "demote_warn" => r.severity = "critical"
      /\ v = "demote_info" => r.severity # "info"
<1> SUFFICES ASSUME NEW i \in Jobs
             PROVE  Good(pc'[i], verdict'[i], req[i])
  BY RequestsFixed DEF DecisionInv, WhitelistFails
<1>1. Good(pc[i], verdict[i], req[i])
  BY DEF DecisionInv
<1>2. ASSUME JobStep(i)
      PROVE  Good(pc'[i], verdict'[i], req[i])
  <2> USE DEF TypeOK, Passed
  <2> HIDE DEF WhitelistFails
  <2>1. ASSUME NEW f, Continue(i, f), pc[i] \in {"get", "load", "fill"}
        PROVE  Good(pc'[i], verdict'[i], req[i])
    BY <1>1, <2>1 DEF Continue, GoProbe, Suppress, Pass, GoBudget
  <2>2. CASE Start(i)
    BY <1>1, <2>2 DEF Start, Pass, GoProbe, WhitelistFails
  <2>3. CASE CacheHit(i) \/ Load(i) \/ Fill(i)
    BY <1>1, <2>1, <2>3 DEF CacheHit, Load, Fill
  <2>4. CASE CheckBudget(i)
    BY <1>1, <2>4 DEF CheckBudget, Suppress, Pass
  <2>5. CASE SetRow(i) \/ Invalidate(i)
    BY <1>1, <2>5 DEF SetRow, Invalidate, NextWrite
  <2>6. CASE CacheMiss(i) \/ ReadCount(i) \/ WriteCount(i) \/ Route(i)
    BY <1>1, <2>6 DEF CacheMiss, ReadCount, WriteCount, Route
  <2>7. CASE LogDecision(i)
    BY <1>1, <2>7 DEF LogDecision, Silent
  <2>8. CASE Return(i)
    BY <1>1, <2>8 DEF Return, Unwind
  <2>9. QED
    BY <1>2, <2>2, <2>3, <2>4, <2>5, <2>6, <2>7, <2>8 DEF JobStep
<1>3. QED
  BY <1>1, <1>2, LocalsChange DEF Idle

----
\* Where the written rows come from.

\* A job counts its dedup row as written from the step that wrote it.
LEMMA WroteDedupSource ==
  ASSUME TypeOK, DecisionInv, [Next]_vars, NEW i \in Jobs, WroteDedup(i)'
  PROVE  /\ stamp'[i] = stamp[i]
         /\ \/ WroteDedup(i)
            \/ SetRow(i) /\ step[i] = "dedup"
<1> USE DEF WroteDedup
<1>1. CASE /\ pc'[i] = pc[i] /\ step'[i] = step[i]
           /\ verdict'[i] = verdict[i] /\ stamp'[i] = stamp[i]
  BY <1>1
<1>2. CASE pc'[i] \in Idle
  BY <1>2 DEF Idle
<1>3. CASE JobStep(i)
  <2> USE DEF TypeOK
  <2>1. ASSUME NEW f, Continue(i, f) PROVE FALSE
    BY <2>1 DEF Continue, GoProbe, Suppress, Pass, GoBudget
  <2>2. ~Start(i) /\ ~CheckBudget(i)
    BY DEF Start, Pass, GoProbe, CheckBudget, Suppress
  <2>3. ~CacheHit(i) /\ ~CacheMiss(i) /\ ~Load(i) /\ ~Fill(i) /\ ~Return(i)
    BY <2>1 DEF CacheHit, CacheMiss, Load, Fill, Return
  <2>4. CASE SetRow(i)
    BY <2>4 DEF SetRow, NextWrite
  <2>5. CASE Invalidate(i)
    BY <2>5 DEF Invalidate, NextWrite
  <2>6. CASE ReadCount(i) \/ WriteCount(i) \/ Route(i)
    BY <2>6 DEF ReadCount, WriteCount, Route
  <2>7. CASE LogDecision(i)
    BY <2>7 DEF LogDecision, Silent
  <2>8. QED
    BY <1>3, <2>2, <2>3, <2>4, <2>5, <2>6, <2>7 DEF JobStep
<1>4. QED
  BY <1>1, <1>2, <1>3, LocalsChange

\* The same for the critical cooldown, written before the dedup row.
LEMMA WroteCriticalSource ==
  ASSUME TypeOK, DecisionInv, [Next]_vars, NEW i \in Jobs, WroteCritical(i)'
  PROVE  /\ stamp'[i] = stamp[i]
         /\ \/ WroteCritical(i)
            \/ SetRow(i) /\ step[i] = "critical"
<1> USE DEF WroteCritical, LoudestAllowed, WroteDedup
<1>0. req' = req
  BY RequestsFixed
<1>1. CASE /\ pc'[i] = pc[i] /\ step'[i] = step[i]
           /\ verdict'[i] = verdict[i] /\ stamp'[i] = stamp[i]
  BY <1>0, <1>1
<1>2. CASE pc'[i] \in Idle
  BY <1>2 DEF Idle
<1>3. CASE JobStep(i)
  <2> USE DEF TypeOK
  <2>1. ASSUME NEW f, Continue(i, f) PROVE FALSE
    BY <2>1 DEF Continue, GoProbe, Suppress, Pass, GoBudget
  <2>2. ~Start(i) /\ ~CheckBudget(i)
    BY DEF Start, Pass, GoProbe, CheckBudget, Suppress
  <2>3. ~CacheHit(i) /\ ~CacheMiss(i) /\ ~Load(i) /\ ~Fill(i) /\ ~Return(i)
    BY <2>1 DEF CacheHit, CacheMiss, Load, Fill, Return
  <2>4. CASE SetRow(i)
    BY <1>0, <2>4 DEF SetRow, NextWrite
  <2>5. CASE Invalidate(i)
    BY <1>0, <2>5 DEF Invalidate, NextWrite
  <2>6. CASE ReadCount(i) \/ WriteCount(i) \/ Route(i)
    BY <1>0, <2>6 DEF ReadCount, WriteCount, Route
  <2>7. CASE LogDecision(i)
    BY <1>0, <2>7 DEF LogDecision, Silent
  <2>8. QED
    BY <1>3, <2>2, <2>3, <2>4, <2>5, <2>6, <2>7 DEF JobStep
<1>4. QED
  BY <1>1, <1>2, <1>3, LocalsChange

\* A row that job i writes covers its stamp.
LEMMA SetRowCovers ==
  ASSUME TypeOK, StampPast, NEW i \in Jobs, SetRow(i)
  PROVE  store'[KeyOf(req[i], step[i])].until >= stamp[i] + TTL(step[i])
<1>1. now \in Nat /\ stamp[i] \in Nat /\ stamp[i] <= now /\ TTL(step[i]) \in Nat
  BY TTLType DEF TypeOK, Times, StampPast
<1>2. QED
  BY <1>1, SetRowEffect

\* Every step keeps the rows that the jobs have recorded.
LEMMA RecordedStep ==
  ASSUME TypeOK, RowsBounded, StampPast, DecisionInv, Recorded, [Next]_vars
  PROVE  Recorded'
<1> SUFFICES ASSUME NEW i \in Jobs
             PROVE  /\ WroteDedup(i)' => Covered(KeyOf(req[i], "dedup"), stamp[i])'
                    /\ WroteCritical(i)' => Covered(KeyOf(req[i], "critical"), stamp[i])'
  BY DEF Recorded
<1> DEFINE d == KeyOf(req[i], "dedup")
           c == KeyOf(req[i], "critical")
<1>1. d \in RowKey /\ d[1] = "dedup" /\ c \in RowKey /\ c[1] = "critical"
  BY KeyOfType, ReqType DEF KeyOf, Steps
<1>2. req' = req
  BY RequestsFixed
<1>3. stamp[i] \in Nat /\ stamp[i] <= now
  BY DEF TypeOK, Times, StampPast
<1>4. ASSUME WroteDedup(i)'
      PROVE  Covered(d, stamp[i])'
  <2>1. stamp'[i] = stamp[i]
    BY <1>4, WroteDedupSource
  <2>2. CASE WroteDedup(i)
    <3>1. Covered(d, stamp[i])
      BY <2>2 DEF Recorded
    <3>2. stamp[i] + TTL(d[1]) > now' => store'[d].until >= stamp[i] + TTL(d[1])
      BY <1>1, <1>3, <3>1, CoveredStays
    <3>3. QED
      BY <1>2, <2>1, <3>2 DEF Covered
  <2>3. CASE SetRow(i) /\ step[i] = "dedup"
    BY <1>1, <1>2, <2>1, <2>3, SetRowCovers DEF Covered
  <2>4. QED
    BY <1>4, <2>2, <2>3, WroteDedupSource
<1>5. ASSUME WroteCritical(i)'
      PROVE  Covered(c, stamp[i])'
  <2>1. stamp'[i] = stamp[i]
    BY <1>5, WroteCriticalSource
  <2>2. CASE WroteCritical(i)
    <3>1. Covered(c, stamp[i])
      BY <2>2 DEF Recorded
    <3>2. stamp[i] + TTL(c[1]) > now' => store'[c].until >= stamp[i] + TTL(c[1])
      BY <1>1, <1>3, <3>1, CoveredStays
    <3>3. QED
      BY <1>2, <2>1, <3>2 DEF Covered
  <2>3. CASE SetRow(i) /\ step[i] = "critical"
    BY <1>1, <1>2, <2>1, <2>3, SetRowCovers DEF Covered
  <2>4. QED
    BY <1>5, <2>2, <2>3, WroteCriticalSource
<1>6. QED
  BY <1>4, <1>5

----
\* Only Route sends, and what it sends its job has recorded.
LEMMA SentChange ==
  [Next]_vars => sent' = sent \/ \E j \in Jobs : Route(j)
BY DEF Next, JobStep, Start, CacheHit, CacheMiss, Load, Fill, CheckBudget,
       SetRow, Invalidate, ReadCount, WriteCount, LogDecision, Return, Fail,
       WorkerRestart, Unwind, Tick, Quiescent, vars

\* The notice of a job about to route: recorded, and critical only if the
\* emission was critical and whitelisted.
LEMMA NoticeRecorded ==
  ASSUME RecordInv, NEW j \in Jobs, pc[j] = "route"
  PROVE  LET n == Notice(j) IN
         /\ n.at <= now
         /\ Covered(<<"dedup", <<n.agent, n.key>>>>, n.at)
         /\ n.severity = "critical" =>
              /\ req[n.id[1]].severity = "critical" /\ req[n.id[1]].listed
              /\ Covered(<<"critical", n.agent>>, n.at)
<1> DEFINE n == Notice(j)
<1>1. /\ n.at = stamp[j] /\ n.id[1] = j
      /\ KeyOf(req[j], "dedup") = <<"dedup", <<n.agent, n.key>>>>
      /\ KeyOf(req[j], "critical") = <<"critical", n.agent>>
  BY DEF Notice, KeyOf
<1>2. n.at <= now
  BY <1>1 DEF RecordInv, StampPast
<1>3. Covered(KeyOf(req[j], "dedup"), stamp[j])
  BY DEF RecordInv, Recorded, WroteDedup
<1>4. ASSUME n.severity = "critical"
      PROVE  /\ req[j].severity = "critical" /\ req[j].listed
             /\ Covered(KeyOf(req[j], "critical"), stamp[j])
  <2>1. verdict[j] \in Passed
    BY DEF RecordInv, DecisionInv
  <2>2. n.severity = EffectiveSeverity(req[j].severity, verdict[j])
    BY DEF Notice
  <2>3. verdict[j] = "allow" /\ req[j].severity = "critical"
    BY <1>4, <2>1, <2>2 DEF Passed, EffectiveSeverity
  <2>4. req[j].listed
    BY <2>3 DEF RecordInv, DecisionInv, WhitelistFails
  <2>5. WroteCritical(j)
    BY <2>3 DEF WroteCritical, LoudestAllowed, WroteDedup
  <2>6. QED
    BY <2>3, <2>4, <2>5 DEF RecordInv, Recorded
<1>5. QED
  BY <1>1, <1>2, <1>3, <1>4

\* Every step keeps what was sent on record.
LEMMA SentRecordedStep ==
  ASSUME RecordInv, [Next]_vars
  PROVE  SentRecorded'
<1> USE DEF RecordInv, TypeInv
<1>0. now <= now' /\ now \in Nat /\ now' \in Nat
  BY StoreChange, SetRowEffect DEF TypeOK, Times, Tick
<1> SUFFICES ASSUME NEW n \in sent'
             PROVE  /\ n.at <= now'
                    /\ Covered(<<"dedup", <<n.agent, n.key>>>>, n.at)'
                    /\ n.severity = "critical" =>
                         /\ req'[n.id[1]].severity = "critical"
                         /\ req'[n.id[1]].listed
                         /\ Covered(<<"critical", n.agent>>, n.at)'
  BY DEF SentRecorded
<1> DEFINE d == <<"dedup", <<n.agent, n.key>>>>
           c == <<"critical", n.agent>>
<1>1. /\ n.at \in Nat /\ n.at <= now
      /\ d \in RowKey /\ c \in RowKey
      /\ Covered(d, n.at)
      /\ n.severity = "critical" =>
           /\ req[n.id[1]].severity = "critical" /\ req[n.id[1]].listed
           /\ Covered(c, n.at)
  <2>1. CASE n \in sent
    <3>1. n.at \in Times /\ n.agent \in Agents /\ n.key \in Keys
      BY <2>1 DEF TypeOK
    <3>2. QED
      BY <2>1, <3>1 DEF SentRecorded, Times, RowKey
  <2>2. CASE n \notin sent
    <3>1. PICK j \in Jobs : Route(j) /\ n = Notice(j)
      BY <2>2, SentChange DEF Route
    <3>2. n.at \in Times /\ n.agent \in Agents /\ n.key \in Keys
      BY <3>1, ReqType DEF Notice, TypeOK, Request
    <3>3. QED
      BY <3>1, <3>2, NoticeRecorded DEF Route, Times, RowKey
  <2>3. QED
    BY <2>1, <2>2
<1>2. Covered(d, n.at)'
  BY <1>1, CoveredStays DEF Covered
<1>3. n.severity = "critical" => Covered(c, n.at)'
  BY <1>1, CoveredStays DEF Covered
<1>4. QED
  BY <1>0, <1>1, <1>2, <1>3, RequestsFixed

\* RecordInv is an invariant of the gate.
LEMMA RecordInvariant == Spec => []RecordInv
<1>1. Init => RecordInv
  <2> SUFFICES ASSUME Init PROVE RecordInv
    OBVIOUS
  <2>1. TypeInv
    BY InitType
  <2>2. RowsBounded
    BY TTLType DEF Init, RowsBounded, NoRow
  <2>3. StampPast /\ DecisionInv /\ Recorded /\ SentRecorded
    BY DEF Init, StampPast, DecisionInv, Recorded, SentRecorded, WroteDedup,
           WroteCritical, Passed
  <2>4. QED
    BY <2>1, <2>2, <2>3 DEF RecordInv
<1>2. RecordInv /\ [Next]_vars => RecordInv'
  <2> SUFFICES ASSUME RecordInv, [Next]_vars PROVE RecordInv'
    OBVIOUS
  <2>1. TypeInv'
    BY TypeInvStep DEF RecordInv
  <2>2. RowsBounded' /\ StampPast' /\ DecisionInv'
    BY RowsBoundedStep, StampPastStep, DecisionStep DEF RecordInv, TypeInv
  <2>3. Recorded'
    BY RecordedStep DEF RecordInv, TypeInv
  <2>4. SentRecorded'
    BY SentRecordedStep
  <2>5. QED
    BY <2>1, <2>2, <2>3, <2>4 DEF RecordInv
<1>3. QED
  BY <1>1, <1>2, PTL DEF Spec

\* For every concurrency and every failure: until its window is over, the
\* dedup row of a notification that was sent is found in Postgres.
THEOREM SentStaysRecorded == Spec => []SentIsRecorded
<1>1. RecordInv => SentIsRecorded
  BY DEF RecordInv, SentRecorded, SentIsRecorded, Covered, TTL
<1>2. QED
  BY <1>1, RecordInvariant, PTL

\* For every concurrency and every failure: a critical that is sent was asked
\* for with a whitelisted reason, and its critical cooldown is on record.
THEOREM FalseCriticalsNever == Spec => []NoFalseCriticals
<1>1. RecordInv => NoFalseCriticals
  BY DEF RecordInv, SentRecorded, NoFalseCriticals, Covered, TTL
<1>2. QED
  BY <1>1, RecordInvariant, PTL
----
(***************************************************************************)
(* The counters, with any number of jobs at once.  What is promised of a   *)
(* counter is what was sent on it and what is still to be sent by the jobs *)
(* that have read it; all of it is in the counter, but for one for each    *)
(* clash, and for the increments under way, each of which will write one   *)
(* more than it read.                                                      *)
(***************************************************************************)

\* A job has decided to let its emission pass.
Passing(j) ==
  \/ pc[j] \in {"set", "del", "count", "charge", "route"}
  \/ pc[j] = "log" /\ verdict[j] # "suppress"

\* A job has read the counter for a notification that it has yet to send.
Owing(j) ==
  \/ pc[j] \in {"charge", "route"}
  \/ pc[j] = "log" /\ verdict[j] # "suppress"

Owed(o, d) == {j \in Jobs : Owing(j) /\ Charged(j) = o /\ Day(stamp[j]) = d}

Promised(o, d) == Cardinality(SentOn(o, d)) + Cardinality(Owed(o, d))

Balanced(o, d) ==
  /\ Promised(o, d) <=
       count[o][d] + clashes[o][d] + (IF Incrementing(o, d) = {} THEN 0 ELSE 1)
  /\ \A j \in Incrementing(o, d) : Promised(o, d) <= cnt[j] + clashes[o][d] + 1

CountInv ==
  /\ RecordInv
  /\ IsFiniteSet(sent) /\ IsFiniteSet(Running)
  /\ \A o \in Owners, d \in Days : Balanced(o, d)

----
\* Who takes a step of its own and does not start is at work.
LEMMA WhoSteps ==
  ASSUME NEW j \in Jobs, JobStep(j)
  PROVE  Start(j) \/ j \in Running
BY DEF JobStep, Running, Idle, CacheHit, CacheMiss, Load, Fill, CheckBudget, SetRow,
       Invalidate, ReadCount, WriteCount, LogDecision, Route, Return

\* A job at work was so before, or has just been started.
LEMMA StillRunning ==
  ASSUME TypeOK, [Next]_vars, NEW i \in Running'
  PROVE  i \in Jobs /\ (i \in Running \/ Start(i))
<1>1. i \in Jobs /\ pc'[i] \notin Idle
  BY DEF Running
<1>2. CASE pc'[i] = pc[i]
  BY <1>1, <1>2 DEF Running
<1>3. CASE JobStep(i)
  BY <1>1, <1>3, WhoSteps
<1>4. QED
  BY <1>1, <1>2, <1>3, LocalsChange

\* A job that starts leaves the others where they are.
LEMMA StartsOne ==
  ASSUME TypeOK, NEW j \in Jobs, Start(j)
  PROVE  \A i \in Jobs \ {j} : pc'[i] = pc[i]
BY DEF Start, Pass, GoProbe, TypeOK

\* Only finitely many jobs are at work.
LEMMA RunningStep ==
  ASSUME TypeOK, IsFiniteSet(Running), [Next]_vars
  PROVE  IsFiniteSet(Running')
<1>1. CASE \E j \in Jobs : Start(j)
  <2>1. PICK j \in Jobs : Start(j)
    BY <1>1
  <2>2. Running' \subseteq Running \cup {j}
    BY <2>1, StartsOne DEF Running
  <2>3. IsFiniteSet(Running \cup {j})
    BY FS_AddElement
  <2>4. QED
    BY <2>2, <2>3, FS_Subset
<1>2. CASE ~\E j \in Jobs : Start(j)
  <2>1. Running' \subseteq Running
    BY <1>2, StillRunning DEF Running
  <2>2. QED
    BY <2>1, FS_Subset
<1>3. QED
  BY <1>1, <1>2

\* Only WriteCount changes a counter, and only ReadCount counts a clash.
LEMMA CountChange ==
  ASSUME [Next]_vars
  PROVE  /\ count' = count \/ \E j \in Jobs : WriteCount(j)
         /\ clashes' = clashes \/ \E j \in Jobs : ReadCount(j)
BY DEF Next, JobStep, Start, CacheHit, CacheMiss, Load, Fill, CheckBudget,
       SetRow, Invalidate, ReadCount, WriteCount, LogDecision, Route, Return, Fail,
       WorkerRestart, Unwind, Tick, Quiescent, vars

\* What is charged is a counter.
LEMMA ChargedIs ==
  ASSUME TypeOK, NEW j \in Jobs
  PROVE  /\ Charged(j) \in Owners /\ Day(stamp[j]) \in Days
         /\ count[Charged(j)][Day(stamp[j])] \in Nat
         /\ Owner(Notice(j).agent, Notice(j).severity) = Charged(j)
         /\ Day(Notice(j).at) = Day(stamp[j])
<1>1. req[j] \in Request
  BY ReqType
<1>2. Charged(j) \in Owners
  BY <1>1 DEF Charged, Owner, Owners, Request
<1>3. Day(stamp[j]) \in Days
  BY DEF TypeOK, Days
<1>4. QED
  BY <1>2, <1>3 DEF TypeOK, Notice, Charged

\* How many were sent, and how many are owed, are numbers.
LEMMA PromisedNat ==
  ASSUME IsFiniteSet(sent), IsFiniteSet(Running), NEW o, NEW d
  PROVE  /\ IsFiniteSet(SentOn(o, d)) /\ Cardinality(SentOn(o, d)) \in Nat
         /\ IsFiniteSet(Owed(o, d)) /\ Cardinality(Owed(o, d)) \in Nat
         /\ Incrementing(o, d) \subseteq Owed(o, d)
<1>1. SentOn(o, d) \subseteq sent
  BY DEF SentOn
<1>2. Owed(o, d) \subseteq Running
  BY DEF Owed, Owing, Running, Idle
<1>3. Incrementing(o, d) \subseteq Owed(o, d)
  BY DEF Incrementing, Owed, Owing
<1>4. QED
  BY <1>1, <1>2, <1>3, FS_Subset, FS_CardinalityType

----
\* Nothing is sent or counted, and a job that breaks off its increment owes no
\* notification any more.
LEMMA BalancedQuiet ==
  ASSUME CountInv, NEW o \in Owners, NEW d \in Days,
         SentOn(o, d)' = SentOn(o, d),
         count'[o][d] = count[o][d], clashes'[o][d] = clashes[o][d],
         Owed(o, d)' \subseteq Owed(o, d),
         Incrementing(o, d)' \subseteq Incrementing(o, d),
         \A j \in Incrementing(o, d)' : cnt'[j] = cnt[j],
         \A j \in Incrementing(o, d) :
           j \in Incrementing(o, d)' \/ j \notin Owed(o, d)'
  PROVE  Balanced(o, d)'
<1> USE DEF CountInv, RecordInv, TypeInv
<1>1. /\ IsFiniteSet(Owed(o, d)) /\ Cardinality(Owed(o, d)) \in Nat
      /\ Cardinality(SentOn(o, d)) \in Nat
      /\ Incrementing(o, d) \subseteq Owed(o, d)
  BY PromisedNat
<1>2. /\ Cardinality(Owed(o, d)') \in Nat
      /\ Cardinality(Owed(o, d)') <= Cardinality(Owed(o, d))
      /\ Cardinality(Owed(o, d)') = Cardinality(Owed(o, d)) => Owed(o, d)' = Owed(o, d)
  BY <1>1, FS_Subset, FS_CardinalityType
<1>3. /\ count[o][d] \in Nat /\ clashes[o][d] \in Nat
      /\ \A j \in Incrementing(o, d) : cnt[j] \in Nat
  BY DEF TypeOK, Incrementing
<1>4. Promised(o, d)' = Cardinality(SentOn(o, d)) + Cardinality(Owed(o, d)')
  BY DEF Promised
<1>5. CASE Incrementing(o, d)' = {} /\ Incrementing(o, d) # {}
  <2>1. Owed(o, d)' # Owed(o, d)
    BY <1>1, <1>5
  <2>2. Promised(o, d) <= count[o][d] + clashes[o][d] + 1
    BY <1>5 DEF Balanced
  <2>3. Promised(o, d)' <= count[o][d] + clashes[o][d]
    BY <1>1, <1>2, <1>3, <1>4, <2>1, <2>2 DEF Promised
  <2>4. QED
    BY <1>3, <1>5, <2>3 DEF Balanced
<1>6. CASE Incrementing(o, d)' # {} \/ Incrementing(o, d) = {}
  <2>1. Promised(o, d)' <= Promised(o, d)
    BY <1>1, <1>2, <1>4 DEF Promised
  <2>2. Promised(o, d) \in Nat /\ Promised(o, d)' \in Nat
    BY <1>1, <1>2, <1>4 DEF Promised
  <2>3. \A j \in Incrementing(o, d)' : Promised(o, d)' <= cnt'[j] + clashes'[o][d] + 1
    BY <1>3, <2>1, <2>2 DEF Balanced
  <2>4. Promised(o, d)' <=
          count'[o][d] + clashes'[o][d] + (IF Incrementing(o, d)' = {} THEN 0 ELSE 1)
    BY <1>3, <1>6, <2>1, <2>2 DEF Balanced
  <2>5. QED
    BY <2>3, <2>4 DEF Balanced
<1>7. QED
  BY <1>5, <1>6

\* A job reads the counter: it owes its notification from now on, and when
\* another one has read and not yet written, that is a clash.
LEMMA BalancedRead ==
  ASSUME CountInv, NEW j \in Jobs, ReadCount(j)
  PROVE  Balanced(Charged(j), Day(stamp[j]))'
<1> USE DEF CountInv, RecordInv, TypeInv
<1>0. PICK o \in Owners, d \in Days : o = Charged(j) /\ d = Day(stamp[j])
  BY ChargedIs
<1>1. /\ IsFiniteSet(Owed(o, d)) /\ Cardinality(Owed(o, d)) \in Nat
      /\ Cardinality(SentOn(o, d)) \in Nat
  BY PromisedNat
<1>2. /\ pc[j] = "count" /\ pc' = [pc EXCEPT ![j] = "charge"] /\ cnt'[j] = count[o][d]
      /\ \A i \in Jobs \ {j} : cnt'[i] = cnt[i]
      /\ clashes'[o][d] = clashes[o][d] + (IF Incrementing(o, d) = {} THEN 0 ELSE 1)
      /\ UNCHANGED <<sent, count, req, stamp, verdict>>
  BY <1>0 DEF ReadCount, TypeOK
<1>3. j \notin Owed(o, d) /\ j \notin Incrementing(o, d)
  BY <1>2 DEF Owed, Owing, Incrementing
<1>4. Owed(o, d)' = Owed(o, d) \cup {j} /\ Incrementing(o, d)' = Incrementing(o, d) \cup {j}
  BY <1>0, <1>2 DEF Owed, Owing, Incrementing, Charged, TypeOK
<1>5. Cardinality(Owed(o, d)') = Cardinality(Owed(o, d)) + 1
  BY <1>1, <1>3, <1>4, FS_AddElement
<1>6. Promised(o, d)' = Promised(o, d) + 1 /\ Promised(o, d) \in Nat
  BY <1>1, <1>2, <1>5 DEF Promised, SentOn
<1>7. /\ count[o][d] \in Nat /\ clashes[o][d] \in Nat
      /\ \A i \in Incrementing(o, d) : i \in Jobs /\ cnt[i] \in Nat
  BY DEF TypeOK, Incrementing
<1>8. /\ Promised(o, d) <=
           count[o][d] + clashes[o][d] + (IF Incrementing(o, d) = {} THEN 0 ELSE 1)
      /\ \A i \in Incrementing(o, d) : Promised(o, d) <= cnt[i] + clashes[o][d] + 1
  BY DEF Balanced
<1>9. ASSUME NEW i \in Incrementing(o, d)'
      PROVE  Promised(o, d)' <= cnt'[i] + clashes'[o][d] + 1
  <2>1. CASE i = j
    BY <1>2, <1>6, <1>7, <1>8, <2>1
  <2>2. CASE i \in Incrementing(o, d)
    <3>1. cnt'[i] = cnt[i] /\ clashes'[o][d] = clashes[o][d] + 1
      BY <1>2, <1>3, <1>7, <2>2
    <3>2. QED
      BY <1>6, <1>7, <1>8, <2>2, <3>1
  <2>3. QED
    BY <1>4, <1>9, <2>1, <2>2
<1>10. Promised(o, d)' <=
         count'[o][d] + clashes'[o][d] + (IF Incrementing(o, d)' = {} THEN 0 ELSE 1)
  BY <1>2, <1>4, <1>6, <1>7, <1>8
<1>11. Balanced(o, d)'
  BY <1>9, <1>10 DEF Balanced
<1>12. QED
  BY <1>0, <1>2, <1>11 DEF Balanced, Promised, SentOn, Owed, Incrementing, Charged

\* A job writes one more than it read, which is what it was good for.
LEMMA BalancedWrite ==
  ASSUME CountInv, NEW j \in Jobs, WriteCount(j)
  PROVE  Balanced(Charged(j), Day(stamp[j]))'
<1> USE DEF CountInv, RecordInv, TypeInv
<1>0. PICK o \in Owners, d \in Days : o = Charged(j) /\ d = Day(stamp[j])
  BY ChargedIs
<1>1. /\ pc[j] = "charge" /\ pc' = [pc EXCEPT ![j] = "log"]
      /\ count'[o][d] = cnt[j] + 1 /\ \A i \in Jobs \ {j} : cnt'[i] = cnt[i]
      /\ UNCHANGED <<sent, clashes, req, stamp, verdict>>
  BY <1>0 DEF WriteCount, TypeOK
<1>2. verdict[j] # "suppress"
  BY <1>1 DEF DecisionInv, Passed
<1>3. j \in Incrementing(o, d)
  BY <1>0, <1>1 DEF Incrementing
<1>4. Owed(o, d)' = Owed(o, d)
  BY <1>1, <1>2 DEF Owed, Owing, Charged, TypeOK
<1>5. Incrementing(o, d)' = Incrementing(o, d) \ {j}
  BY <1>1 DEF Incrementing, Charged, TypeOK
<1>6. Promised(o, d)' = Promised(o, d) /\ Promised(o, d) \in Nat
  <2>1. Promised(o, d) \in Nat
    BY PromisedNat DEF Promised
  <2>2. QED
    BY <1>1, <1>4, <2>1 DEF Promised, SentOn
<1>7. cnt[j] \in Nat /\ clashes[o][d] \in Nat /\ Incrementing(o, d) \subseteq Jobs
  BY DEF TypeOK, Incrementing
<1>8. \A i \in Incrementing(o, d) : Promised(o, d) <= cnt[i] + clashes[o][d] + 1
  BY DEF Balanced
<1>9. \A i \in Incrementing(o, d)' : Promised(o, d)' <= cnt'[i] + clashes'[o][d] + 1
  BY <1>1, <1>5, <1>6, <1>7, <1>8
<1>10. Promised(o, d)' <= count'[o][d] + clashes'[o][d]
  BY <1>1, <1>3, <1>6, <1>7, <1>8
<1>11. Balanced(o, d)'
  BY <1>1, <1>6, <1>7, <1>9, <1>10 DEF Balanced
<1>12. QED
  BY <1>0, <1>1, <1>11 DEF Balanced, Promised, SentOn, Owed, Incrementing, Charged

\* A notification that was owed is sent.
LEMMA BalancedRoute ==
  ASSUME CountInv, NEW j \in Jobs, Route(j)
  PROVE  Balanced(Charged(j), Day(stamp[j]))'
<1> USE DEF CountInv, RecordInv, TypeInv
<1>0. PICK o \in Owners, d \in Days : o = Charged(j) /\ d = Day(stamp[j])
  BY ChargedIs
<1>1. /\ IsFiniteSet(Owed(o, d)) /\ Cardinality(Owed(o, d)) \in Nat
      /\ IsFiniteSet(SentOn(o, d)) /\ Cardinality(SentOn(o, d)) \in Nat
  BY PromisedNat
<1>2. /\ pc[j] = "route" /\ pc' = [pc EXCEPT ![j] = "return"] /\ sent' = sent \cup {Notice(j)}
      /\ UNCHANGED <<count, clashes, cnt, req, stamp, verdict>>
  BY DEF Route
<1>3. SentOn(o, d)' = SentOn(o, d) \cup {Notice(j)}
  BY <1>0, <1>2, ChargedIs DEF SentOn
<1>4. /\ Cardinality(SentOn(o, d)') \in Nat
      /\ Cardinality(SentOn(o, d)') <= Cardinality(SentOn(o, d)) + 1
  <2>1. Cardinality(SentOn(o, d)') \in Nat
    <3>1. IsFiniteSet(SentOn(o, d) \cup {Notice(j)})
      BY <1>1, FS_AddElement
    <3>2. QED
      BY <1>3, <3>1, FS_CardinalityType
  <2>2. \A S, x : IsFiniteSet(S) /\ Cardinality(S) \in Nat =>
                    Cardinality(S \cup {x}) <= Cardinality(S) + 1
    <3> SUFFICES ASSUME NEW S, NEW x, IsFiniteSet(S), Cardinality(S) \in Nat
                 PROVE  Cardinality(S \cup {x}) <= Cardinality(S) + 1
      OBVIOUS
    <3>1. x \in S => S \cup {x} = S
      OBVIOUS
    <3>2. x \notin S => Cardinality(S \cup {x}) = Cardinality(S) + 1
      BY FS_AddElement
    <3>3. QED
      BY <3>1, <3>2
  <2>3. QED
    BY <1>1, <1>3, <2>1, <2>2
<1>5. j \in Owed(o, d)
  BY <1>0, <1>2 DEF Owed, Owing
<1>6. Owed(o, d)' = Owed(o, d) \ {j} /\ Incrementing(o, d)' = Incrementing(o, d)
  BY <1>2 DEF Owed, Owing, Incrementing, Charged, TypeOK
<1>7. Cardinality(Owed(o, d)') = Cardinality(Owed(o, d)) - 1
  BY <1>1, <1>5, <1>6, FS_RemoveElement
<1>8. Promised(o, d)' <= Promised(o, d) /\ Promised(o, d)' \in Int /\ Promised(o, d) \in Int
  BY <1>1, <1>4, <1>7 DEF Promised
<1>9. /\ count[o][d] \in Nat /\ clashes[o][d] \in Nat
      /\ \A i \in Incrementing(o, d) : cnt[i] \in Nat
  BY DEF TypeOK, Incrementing
<1>10. Balanced(o, d)'
  <2>1. /\ Promised(o, d) <=
             count[o][d] + clashes[o][d] + (IF Incrementing(o, d) = {} THEN 0 ELSE 1)
        /\ \A i \in Incrementing(o, d) : Promised(o, d) <= cnt[i] + clashes[o][d] + 1
    BY DEF Balanced
  <2>2. \A i \in Incrementing(o, d)' : Promised(o, d)' <= cnt'[i] + clashes'[o][d] + 1
    BY <1>2, <1>6, <1>8, <1>9, <2>1
  <2>3. Promised(o, d)' <=
          count'[o][d] + clashes'[o][d] + (IF Incrementing(o, d)' = {} THEN 0 ELSE 1)
    BY <1>2, <1>6, <1>8, <1>9, <2>1
  <2>4. QED
    BY <2>2, <2>3 DEF Balanced
<1>11. QED
  BY <1>0, <1>2, <1>10 DEF Balanced, Promised, SentOn, Owed, Incrementing, Charged

\* A step that neither reads nor writes a counter nor sends makes no job owe,
\* and takes no job out of its increment unless its frame is gone.
LEMMA OwingStep ==
  ASSUME TypeOK, DecisionInv, [Next]_vars, NEW i \in Jobs,
         ~ReadCount(i), ~WriteCount(i), ~Route(i)
  PROVE  /\ Owing(i)' => Owing(i) /\ stamp'[i] = stamp[i] /\ verdict'[i] = verdict[i]
         /\ pc'[i] = "charge" => pc[i] = "charge"
         /\ pc[i] = "charge" => pc'[i] = "charge" \/ ~Owing(i)'
<1> USE DEF Owing
<1>1. CASE /\ pc'[i] = pc[i] /\ step'[i] = step[i]
           /\ verdict'[i] = verdict[i] /\ stamp'[i] = stamp[i]
  BY <1>1
<1>2. CASE pc'[i] \in Idle
  BY <1>2 DEF Idle
<1>3. CASE JobStep(i)
  <2> USE DEF TypeOK
  <2>1. ASSUME NEW f, Continue(i, f), pc[i] \in {"get", "load", "fill"}
        PROVE  ~Owing(i)' /\ pc[i] # "charge" /\ pc'[i] # "charge"
    BY <2>1 DEF Continue, GoProbe, Suppress, Pass, GoBudget
  <2>2. CASE Start(i)
    BY <2>2 DEF Start, Pass, GoProbe
  <2>3. CASE CacheHit(i) \/ Load(i) \/ Fill(i)
    BY <2>1, <2>3 DEF CacheHit, Load, Fill
  <2>4. CASE CheckBudget(i)
    BY <2>4 DEF CheckBudget, Suppress, Pass
  <2>5. CASE SetRow(i) \/ Invalidate(i)
    BY <2>5 DEF SetRow, Invalidate, NextWrite
  <2>6. CASE CacheMiss(i) \/ Return(i)
    BY <2>6 DEF CacheMiss, Return, Unwind
  <2>7. CASE LogDecision(i)
    BY <2>7 DEF LogDecision, Silent
  <2>8. QED
    BY <1>3, <2>2, <2>3, <2>4, <2>5, <2>6, <2>7 DEF JobStep
<1>4. QED
  BY <1>1, <1>2, <1>3, LocalsChange

\* Another job's locals are not touched by the steps of the counter and router.
LEMMA OthersStay ==
  ASSUME TypeOK, NEW j \in Jobs, ReadCount(j) \/ WriteCount(j) \/ Route(j),
         NEW i \in Jobs, i # j
  PROVE  /\ pc'[i] = pc[i] /\ cnt'[i] = cnt[i]
         /\ stamp' = stamp /\ verdict' = verdict
BY DEF ReadCount, WriteCount, Route, TypeOK

\* A job in its increment keeps what it read until it writes.
LEMMA CntStays ==
  ASSUME TypeOK, [Next]_vars, NEW i \in Jobs, pc[i] = "charge", pc'[i] = "charge",
         ~\E j \in Jobs : ReadCount(j) \/ WriteCount(j)
  PROVE  cnt'[i] = cnt[i]
<1>1. ASSUME NEW j \in Jobs, Return(j) \/ Fail(j)
      PROVE  cnt'[i] = cnt[i]
  BY <1>1 DEF Return, Fail, Unwind, TypeOK
<1>2. CASE WorkerRestart
  <2>1. i \in Running
    BY DEF Running, Idle
  <2>2. pc'[i] \in Idle
    BY <1>2, <2>1 DEF WorkerRestart, AfterRestart, Idle
  <2>3. QED
    BY <2>2 DEF Idle
<1>3. QED
  BY <1>1, <1>2 DEF Next, JobStep, Start, CacheHit, CacheMiss, Load, Fill, CheckBudget,
     SetRow, Invalidate, LogDecision, Route, Tick, Quiescent, vars, jobVars

\* A step of the counters of somebody else, or no such step at all.
LEMMA BalancedElse ==
  ASSUME CountInv, [Next]_vars, NEW o \in Owners, NEW d \in Days,
         \A j \in Jobs : ReadCount(j) \/ WriteCount(j) \/ Route(j) =>
                           ~(Charged(j) = o /\ Day(stamp[j]) = d)
  PROVE  Balanced(o, d)'
<1> USE DEF CountInv, RecordInv, TypeInv
<1>1. req' = req
  BY RequestsFixed
<1>2. CASE \E j \in Jobs : ReadCount(j) \/ WriteCount(j) \/ Route(j)
  <2>1. PICK j \in Jobs : ReadCount(j) \/ WriteCount(j) \/ Route(j)
    BY <1>2
  <2>2. stamp' = stamp /\ verdict' = verdict
    BY <2>1 DEF ReadCount, WriteCount, Route
  <2>3. \A i \in Jobs : Charged(i)' = Charged(i)
    BY <1>1, <2>2 DEF Charged
  <2>4. ~(Charged(j) = o /\ Day(stamp[j]) = d)
    BY <2>1
  <2>5. \A i \in Jobs \ {j} : pc'[i] = pc[i] /\ cnt'[i] = cnt[i]
    BY <2>1, OthersStay
  <2>6. Owed(o, d)' = Owed(o, d) /\ Incrementing(o, d)' = Incrementing(o, d)
    BY <2>2, <2>3, <2>4, <2>5 DEF Owed, Owing, Incrementing
  <2>7. \A i \in Incrementing(o, d) : cnt'[i] = cnt[i]
    BY <2>4, <2>5 DEF Incrementing
  <2>8. SentOn(o, d)' = SentOn(o, d)
    <3>1. sent' = sent \/ (Route(j) /\ sent' = sent \cup {Notice(j)})
      BY <2>1 DEF ReadCount, WriteCount, Route
    <3>2. Owner(Notice(j).agent, Notice(j).severity) = Charged(j) /\ Day(Notice(j).at) = Day(stamp[j])
      BY ChargedIs
    <3>3. QED
      BY <2>4, <3>1, <3>2 DEF SentOn
  <2>9. count'[o][d] = count[o][d] /\ clashes'[o][d] = clashes[o][d]
    BY <2>1, <2>4, ChargedIs DEF ReadCount, WriteCount, Route, TypeOK
  <2>10. QED
    BY <2>6, <2>7, <2>8, <2>9, BalancedQuiet
<1>3. CASE ~\E j \in Jobs : ReadCount(j) \/ WriteCount(j) \/ Route(j)
  <2>1. sent' = sent /\ count' = count /\ clashes' = clashes
    BY <1>3, SentChange, CountChange
  <2>2. ASSUME NEW i \in Jobs
        PROVE  /\ Owing(i)' => Owing(i) /\ Charged(i)' = Charged(i) /\ stamp'[i] = stamp[i]
               /\ pc'[i] = "charge" => pc[i] = "charge"
               /\ pc[i] = "charge" => pc'[i] = "charge" \/ ~Owing(i)'
    BY <1>1, <1>3, OwingStep DEF Charged
  <2>3. Owed(o, d)' \subseteq Owed(o, d)
    BY <2>2 DEF Owed
  <2>4. Incrementing(o, d)' \subseteq Incrementing(o, d)
    BY <2>2 DEF Incrementing, Owing
  <2>5. ASSUME NEW i \in Incrementing(o, d)
        PROVE  i \in Incrementing(o, d)' \/ i \notin Owed(o, d)'
    BY <2>2 DEF Incrementing, Owed, Owing
  <2>6. ASSUME NEW i \in Incrementing(o, d)'
        PROVE  cnt'[i] = cnt[i]
    <3>1. i \in Jobs /\ pc[i] = "charge" /\ pc'[i] = "charge"
      BY <2>4 DEF Incrementing
    <3>2. QED
      BY <1>3, <3>1, CntStays
  <2>7. SentOn(o, d)' = SentOn(o, d)
    BY <2>1 DEF SentOn
  <2>8. QED
    BY <2>1, <2>3, <2>4, <2>5, <2>6, <2>7, BalancedQuiet
<1>4. QED
  BY <1>2, <1>3

LEMMA BalancedStep ==
  ASSUME CountInv, [Next]_vars, NEW o \in Owners, NEW d \in Days
  PROVE  Balanced(o, d)'
<1>1. ASSUME NEW j \in Jobs, ReadCount(j) \/ WriteCount(j) \/ Route(j),
             Charged(j) = o, Day(stamp[j]) = d
      PROVE  Balanced(o, d)'
  <2>1. Balanced(Charged(j), Day(stamp[j]))'
    BY <1>1, BalancedRead, BalancedWrite, BalancedRoute
  <2>2. stamp' = stamp /\ verdict' = verdict /\ req' = req
    BY <1>1 DEF ReadCount, WriteCount, Route
  <2>3. QED
    BY <1>1, <2>1, <2>2 DEF Balanced, Promised, SentOn, Owed, Incrementing, Charged
<1>2. QED
  BY <1>1, BalancedElse

LEMMA CountInvariant == Spec => []CountInv
<1>1. Init /\ RecordInv => CountInv
  <2> SUFFICES ASSUME Init, RecordInv PROVE CountInv
    OBVIOUS
  <2>1. sent = {} /\ Running = {}
    BY DEF Init, Running, Idle
  <2>2. ASSUME NEW o \in Owners, NEW d \in Days
        PROVE  Balanced(o, d)
    <3>1. SentOn(o, d) = {} /\ Owed(o, d) = {} /\ Incrementing(o, d) = {}
      BY DEF Init, SentOn, Owed, Owing, Incrementing
    <3>2. Promised(o, d) = 0 /\ count[o][d] = 0 /\ clashes[o][d] = 0
      BY <3>1, FS_EmptySet DEF Promised, Init
    <3>3. QED
      BY <3>1, <3>2 DEF Balanced
  <2>3. QED
    BY <2>1, <2>2, FS_EmptySet DEF CountInv
<1>2. CountInv /\ RecordInv' /\ [Next]_vars => CountInv'
  <2> SUFFICES ASSUME CountInv, RecordInv', [Next]_vars PROVE CountInv'
    OBVIOUS
  <2>1. IsFiniteSet(sent')
    BY SentChange, FS_AddElement DEF Route, CountInv
  <2>2. IsFiniteSet(Running')
    BY RunningStep DEF CountInv, RecordInv, TypeInv
  <2>3. QED
    BY <2>1, <2>2, BalancedStep DEF CountInv
<1>3. QED
  BY <1>1, <1>2, RecordInvariant, PTL DEF Spec

\* What the balance says of what was sent.
LEMMA SentCovered ==
  ASSUME CountInv, NEW o \in Owners, NEW d \in Days
  PROVE  Cardinality(SentOn(o, d)) <= count[o][d] + clashes[o][d]
<1> USE DEF CountInv, RecordInv, TypeInv
<1>1. /\ IsFiniteSet(Owed(o, d)) /\ Cardinality(Owed(o, d)) \in Nat
      /\ Cardinality(SentOn(o, d)) \in Nat /\ Incrementing(o, d) \subseteq Owed(o, d)
  BY PromisedNat
<1>2. count[o][d] \in Nat /\ clashes[o][d] \in Nat
  BY DEF TypeOK
<1>3. Incrementing(o, d) # {} => Cardinality(Owed(o, d)) # 0
  BY <1>1, FS_EmptySet
<1>4. QED
  BY <1>1, <1>2, <1>3 DEF Balanced, Promised

\* For every number of jobs at once, across restarts, timeouts and errors: what
\* was sent on a day is in that day's counter, but for one at most for each
\* increment begun inside another one (_post_decision counts, then emit routes).
THEOREM CountersCover == Spec => []CountersCoverSent
<1>1. CountInv => CountersCoverSent
  BY SentCovered DEF CountersCoverSent
<1>2. QED
  BY <1>1, CountInvariant, PTL
----
(***************************************************************************)
(* The policy, with any number of jobs at once.  Of an owner that is not   *)
(* mixed at most one job is at work at a time, so that what a probe of it  *)
(* has read is still so when the job decides, and when it sends.           *)
(***************************************************************************)

OneByOne ==
  \A o \in Owners \ mixed : \A i, j \in Running :
    Contends(o, i) /\ Contends(o, j) => i = j

Unclashed ==
  \A o \in Owners \ mixed, d \in Days : clashes[o][d] = 0

\* The rows that a notification leaves behind.
KeysOf(n) ==
  {<<"any", n.agent>>, <<"dedup", <<n.agent, n.key>>>>}
    \cup (IF n.severity = "critical" THEN {<<"critical", n.agent>>} ELSE {})

\* What happened at time t is to be seen in row k, and in its copy.
Lasts(k, t) == t + TTL(k[1]) > now
InStore(k, t) ==
  Lasts(k, t) => store[k].until >= t + TTL(k[1]) /\ store[k].at >= t
InCache(k, t) ==
  Lasts(k, t) /\ Live(cache[k]) => ~cache[k].missing /\ cache[k].at >= t

Remembered ==
  \A n \in sent :
    /\ n.at <= now
    /\ n.agent \notin mixed => \A k \in KeysOf(n) : InStore(k, n.at) /\ InCache(k, n.at)

\* Without Redis there are no copies.
Uncached ==
  ~CacheOn => /\ \A k \in RowKey : cache[k] = NoEntry
              /\ \A j \in Jobs : pc[j] \notin {"fill", "del"}

\* A notification is no business of job j, or it was sent before j took the time.
Mine(j, n) ==
  \/ n.agent = req[j].agent /\ n.agent \notin mixed
  \/ Global \notin mixed /\ n.severity # "info" /\ req[j].severity # "info"

Newest(j) ==
  Passing(j) \/ pc[j] = "budget" => \A n \in sent : Mine(j, n) => n.at <= stamp[j]

\* At time t the window of row k is over for all that was sent.
Cleared(k, t) ==
  \A n \in sent : k \in KeysOf(n) => n.at + TTL(k[1]) <= t

\* An answer f about row k tells of all that was sent and still counts.
Tells(f, k) ==
  \A n \in sent : k \in KeysOf(n) /\ Lasts(k, n.at) => f.found /\ f.at >= n.at

\* What the probes of a job have found out.
Probed(j) ==
  LET r == req[j] IN
  r.agent \notin mixed =>
    /\ pc[j] \in {"get", "load", "fill"} =>
         /\ step[j] # "dedup" => Cleared(KeyOf(r, "dedup"), now)
         /\ step[j] = "critical" => r.severity = "critical"
         /\ step[j] = "any" /\ r.severity = "critical" => Cleared(KeyOf(r, "critical"), now)
    /\ pc[j] = "fill" => Tells(seen[j], KeyOf(r, step[j]))
    /\ pc[j] = "budget" =>
         /\ Cleared(KeyOf(r, "dedup"), now)
         /\ r.severity = "critical" => Cleared(KeyOf(r, "critical"), now)
         /\ r.severity # "info" => Cleared(KeyOf(r, "any"), now)

\* What a decision rests on.
Granted(j) ==
  LET r == req[j] IN
  Passing(j) /\ verdict[j] # "demote_warn" =>
    /\ r.agent \notin mixed =>
         /\ Cleared(KeyOf(r, "dedup"), stamp[j])
         /\ LoudestAllowed(j) => Cleared(KeyOf(r, "critical"), stamp[j])
         /\ verdict[j] = "allow" /\ r.severity # "info" => Cleared(KeyOf(r, "any"), stamp[j])
    /\ Owner(r.agent, r.severity) \notin mixed /\ verdict[j] = "allow" =>
         Cardinality(SentOn(Owner(r.agent, r.severity), Day(stamp[j]))) < Cap(r.severity)

\* The rows that _post_decision has to write, one after the other; those that
\* are written; those whose copy is deleted.
Due(j) == {"any", "dedup"} \cup (IF LoudestAllowed(j) THEN {"critical"} ELSE {})
Before(s, t) == <<s, t>> \in {<<"any", "critical">>, <<"any", "dedup">>, <<"critical", "dedup">>}
Deleted(j, s) ==
  Passing(j) /\ (pc[j] \in {"set", "del"} => Before(s, step[j]))
Written(j, s) == Deleted(j, s) \/ (pc[j] = "del" /\ step[j] = s)

Left(j) ==
  req[j].agent \notin mixed => \A s \in Due(j) :
    /\ Written(j, s) => InStore(KeyOf(req[j], s), stamp[j])
    /\ Deleted(j, s) => InCache(KeyOf(req[j], s), stamp[j])

\* A job at work has been started.
Begun(j) == pc[j] \notin Idle => tries[j] > 0

PolicyInv ==
  /\ CountInv /\ OneByOne /\ Unclashed /\ Remembered /\ Uncached
  /\ \A j \in Jobs : Newest(j) /\ Probed(j) /\ Granted(j) /\ Left(j) /\ Begun(j)

----
\* An owner that is mixed stays so.
LEMMA MixedGrows == [Next]_vars => mixed \subseteq mixed'
BY DEF Next, JobStep, Start, CacheHit, CacheMiss, Load, Fill, CheckBudget,
       SetRow, Invalidate, ReadCount, WriteCount, LogDecision, Route, Return,
       Fail, WorkerRestart, Unwind, Tick, Quiescent, vars

\* Of an owner that is not mixed no second job is started beside the first.
LEMMA OneByOneStep ==
  ASSUME TypeOK, OneByOne, [Next]_vars
  PROVE  OneByOne'
<1>0. req' = req /\ mixed \subseteq mixed'
  BY RequestsFixed, MixedGrows
<1>1. ASSUME NEW o \in Owners \ mixed', NEW i \in Jobs, NEW j \in Jobs, i # j,
             i \in Running', j \in Running', Contends(o, i), Contends(o, j), Start(i)
      PROVE  FALSE
  <2>1. j \in Running
    BY <1>1, StartsOne DEF Running
  <2>2. o \in mixed'
    BY <1>1, <2>1 DEF Start
  <2>3. QED
    BY <1>1, <2>2
<1> SUFFICES ASSUME NEW o \in Owners \ mixed', NEW i \in Running', NEW j \in Running',
                    Contends(o, i)', Contends(o, j)', i # j
             PROVE  FALSE
  BY DEF OneByOne
<1>2. Contends(o, i) /\ Contends(o, j) /\ o \in Owners \ mixed
  BY <1>0 DEF Contends
<1>3. /\ i \in Jobs /\ (i \in Running \/ Start(i))
      /\ j \in Jobs /\ (j \in Running \/ Start(j))
  BY StillRunning
<1>4. i \in Running /\ j \in Running
  BY <1>1, <1>2, <1>3
<1>5. QED
  BY <1>2, <1>4 DEF OneByOne

\* What a job has decided to send, it charges to an owner that it contends for.
LEMMA ChargedContends ==
  ASSUME TypeOK, DecisionInv, NEW j \in Jobs, Passing(j)
  PROVE  Charged(j) \in Owners /\ Contends(Charged(j), j) /\ j \in Running
<1>1. req[j] \in Request /\ verdict[j] # "suppress"
  BY ReqType DEF Passing, DecisionInv, Passed
<1>2. verdict[j] = "demote_warn" => req[j].severity = "critical"
  BY DEF DecisionInv
<1>3. Contends(Charged(j), j)
  BY <1>1, <1>2 DEF Charged, Contends, Owner, EffectiveSeverity
<1>4. j \in Running
  BY DEF Passing, Running, Idle
<1>5. QED
  BY <1>3, <1>4, ChargedIs

\* No increment begins inside another one of an owner that is not mixed.
LEMMA UnclashedStep ==
  ASSUME TypeOK, DecisionInv, OneByOne, Unclashed, [Next]_vars
  PROVE  Unclashed'
<1> SUFFICES ASSUME NEW o \in Owners \ mixed', NEW d \in Days
             PROVE  clashes'[o][d] = 0
  BY DEF Unclashed
<1>1. o \in Owners \ mixed /\ clashes[o][d] = 0
  BY MixedGrows DEF Unclashed
<1>2. ASSUME NEW j \in Jobs, ReadCount(j), clashes'[o][d] # clashes[o][d]
      PROVE  FALSE
  <2>1. Charged(j) = o /\ Incrementing(o, Day(stamp[j])) # {} /\ pc[j] = "count"
    BY <1>2 DEF ReadCount, TypeOK
  <2>2. PICK i \in Jobs : pc[i] = "charge" /\ Charged(i) = o
    BY <2>1 DEF Incrementing
  <2>3. /\ Contends(o, j) /\ Contends(o, i) /\ i \in Running /\ j \in Running
    BY <2>1, <2>2, ChargedContends DEF Passing
  <2>4. i = j
    BY <1>1, <2>3 DEF OneByOne
  <2>5. QED
    BY <2>1, <2>2, <2>4
<1>3. QED
  BY <1>1, <1>2, CountChange

\* What the steps of the others, and time, leave to job i.
Apart(i) ==
  /\ pc'[i] = pc[i] /\ step'[i] = step[i] /\ verdict'[i] = verdict[i]
  /\ stamp'[i] = stamp[i] /\ seen'[i] = seen[i]
  /\ \A n \in sent' : Mine(i, n)' => n \in sent
  /\ req[i].agent \notin mixed' =>
       \/ Tick
       \/ /\ now' = now
          /\ \A s \in Steps : /\ store'[KeyOf(req[i], s)] = store[KeyOf(req[i], s)]
                              /\ cache'[KeyOf(req[i], s)] = cache[KeyOf(req[i], s)]

\* A step of another job, at work beside i, or just started.
LEMMA OtherApart ==
  ASSUME TypeOK, DecisionInv, OneByOne, [Next]_vars, NEW i \in Running, NEW j \in Jobs,
         i # j, JobStep(j), i \in Jobs
  PROVE  /\ seen'[i] = seen[i]
         /\ \A n \in sent' : Mine(i, n)' => n \in sent
         /\ req[i].agent \notin mixed' =>
              /\ now' = now
              /\ \A s \in Steps : /\ store'[KeyOf(req[i], s)] = store[KeyOf(req[i], s)]
                                  /\ cache'[KeyOf(req[i], s)] = cache[KeyOf(req[i], s)]
<1>0. req' = req /\ mixed \subseteq mixed'
  BY RequestsFixed, MixedGrows
<1>1. seen'[i] = seen[i] /\ now' = now
  BY DEF JobStep, Start, CacheHit, CacheMiss, Load, Fill, CheckBudget, SetRow, Invalidate,
     ReadCount, WriteCount, LogDecision, Route, Return, Unwind, TypeOK
<1>2. ASSUME NEW o \in Owners \ mixed, Contends(o, i), Contends(o, j)
      PROVE  j \notin Running
  BY <1>2 DEF OneByOne
<1>3. req[i] \in Request /\ req[j] \in Request /\ step[j] \in Steps
  BY ReqType DEF TypeOK, Steps
<1>4. ASSUME NEW n \in sent', Mine(i, n)', n \notin sent
      PROVE  FALSE
  <2>1. Route(j) /\ n = Notice(j)
    <3>1. sent' = sent \/ Route(j)
      BY DEF JobStep, Start, CacheHit, CacheMiss, Load, Fill, CheckBudget, SetRow, Invalidate,
         ReadCount, WriteCount, LogDecision, Return, Unwind
    <3>2. QED
      BY <1>4, <3>1 DEF Route
  <2>2. pc[j] = "route" /\ j \in Running
    BY <2>1 DEF Route, Running, Idle
  <2>3. n.agent = req[j].agent /\ (n.severity # "info" => req[j].severity # "info")
    BY <2>1, <2>2 DEF Notice, EffectiveSeverity, DecisionInv, Passed
  <2>4. CASE n.agent = req[i].agent /\ n.agent \notin mixed'
    <3>1. n.agent \in Owners \ mixed
      BY <1>0, <1>3, <2>4 DEF Owners, Request
    <3>2. QED
      BY <1>2, <2>2, <2>3, <2>4, <3>1 DEF Contends
  <2>5. CASE Global \notin mixed' /\ n.severity # "info" /\ req[i].severity # "info"
    <3>1. Global \in Owners \ mixed
      BY <1>0, <2>5 DEF Owners
    <3>2. QED
      BY <1>2, <2>2, <2>3, <2>5, <3>1 DEF Contends
  <2>6. QED
    BY <1>0, <1>4, <2>4, <2>5 DEF Mine
<1>5. ASSUME req[i].agent \notin mixed', NEW s \in Steps
      PROVE  /\ store'[KeyOf(req[i], s)] = store[KeyOf(req[i], s)]
             /\ cache'[KeyOf(req[i], s)] = cache[KeyOf(req[i], s)]
  <2>1. PICK k \in RowKey : k = KeyOf(req[i], s)
    BY <1>3, KeyOfType
  <2>2. CASE store' = store /\ cache' = cache
    BY <2>2
  <2>3. CASE SetRow(j) \/ Fill(j) \/ Invalidate(j)
    <3>1. j \in Running
      BY <2>3 DEF SetRow, Fill, Invalidate, Running, Idle
    <3>2. req[i].agent \in Owners \ mixed
      BY <1>0, <1>3, <1>5 DEF Owners, Request
    <3>3. req[j].agent # req[i].agent
      BY <1>2, <3>1, <3>2 DEF Contends
    <3>4. KeyOf(req[j], step[j]) # k
      BY <1>3, <2>1, <3>3 DEF KeyOf
    <3>5. store'[k] = store[k] /\ cache'[k] = cache[k]
      BY <2>3, <3>4 DEF SetRow, Fill, Invalidate, TypeOK
    <3>6. QED
      BY <2>1, <3>5
  <2>4. QED
    BY <2>2, <2>3 DEF JobStep, Start, CacheHit, CacheMiss, Load, CheckBudget,
       ReadCount, WriteCount, LogDecision, Route, Return, Unwind
<1>6. QED
  BY <1>1, <1>4, <1>5

\* While a job is at work, it takes its own step or is left alone.
LEMMA WorksApart ==
  ASSUME TypeOK, DecisionInv, OneByOne, [Next]_vars, NEW i \in Jobs, pc'[i] \notin Idle
  PROVE  JobStep(i) \/ Apart(i)
<1> SUFFICES ASSUME ~JobStep(i) PROVE Apart(i)
  OBVIOUS
<1>1. /\ pc'[i] = pc[i] /\ step'[i] = step[i]
      /\ verdict'[i] = verdict[i] /\ stamp'[i] = stamp[i]
  BY LocalsChange
<1>2. i \in Running
  BY <1>1 DEF Running
<1>3. ASSUME NEW j \in Jobs, JobStep(j)
      PROVE  Apart(i)
  BY <1>1, <1>2, <1>3, OtherApart DEF Apart
<1>4. ASSUME NEW j \in Jobs, Fail(j)
      PROVE  Apart(i)
  <2>1. i # j
    BY <1>4 DEF Fail, TypeOK, Idle
  <2>2. seen'[i] = seen[i] /\ UNCHANGED <<now, sent, store, cache>>
    BY <1>4, <2>1 DEF Fail, Unwind, TypeOK
  <2>3. QED
    BY <1>1, <2>2 DEF Apart
<1>5. ~WorkerRestart
  BY <1>2 DEF WorkerRestart, AfterRestart, Running, Idle
<1>6. CASE Tick \/ UNCHANGED vars
  BY <1>1, <1>6 DEF Apart, Tick, vars, jobVars
<1>7. QED
  BY <1>3, <1>4, <1>5, <1>6 DEF Next, Quiescent

----
\* Times and keys are what they seem.
LEMMA SentFacts ==
  ASSUME TypeOK, NEW n \in sent
  PROVE  n.at \in Nat /\ \A k \in KeysOf(n) : k \in RowKey /\ TTL(k[1]) \in Nat
<1>1. n.at \in Times /\ n.agent \in Agents /\ n.key \in Keys
  BY DEF TypeOK
<1>2. QED
  BY <1>1, TTLType DEF KeysOf, RowKey, Times

LEMMA JobFacts ==
  ASSUME TypeOK, NEW j \in Jobs, NEW s \in Steps
  PROVE  /\ KeyOf(req[j], s) \in RowKey /\ KeyOf(req[j], s)[1] = s /\ TTL(s) \in Nat
         /\ step[j] \in Steps /\ stamp[j] \in Nat /\ now \in Nat /\ req[j] \in Request
<1>1. req[j] \in Request
  BY ReqType
<1>2. KeyOf(req[j], s) \in RowKey /\ KeyOf(req[j], s)[1] = s
  BY <1>1, KeyOfType DEF KeyOf
<1>3. QED
  BY <1>1, <1>2, TTLType DEF TypeOK, Times, Steps

\* What is in store and copy stays while time passes.
LEMMA TickKeeps ==
  ASSUME TypeOK, Tick, NEW k \in RowKey, NEW t \in Nat
  PROVE  /\ InStore(k, t) => InStore(k, t)'
         /\ InCache(k, t) => InCache(k, t)'
<1>1. /\ now \in Nat /\ now' = now + 1 /\ TTL(k[1]) \in Nat
      /\ store[k].until \in Nat /\ cache[k].until \in Nat
      /\ store'[k] = IF store[k].until > now + 1 THEN store[k] ELSE NoRow
      /\ cache'[k] = IF cache[k].until > now + 1 THEN cache[k] ELSE NoEntry
  BY TTLType DEF TypeOK, Tick, Times, Row, Entry, Unexpired
<1>2. InStore(k, t) => InStore(k, t)'
  BY <1>1 DEF InStore, Lasts
<1>3. InCache(k, t) => InCache(k, t)'
  BY <1>1 DEF InCache, Lasts, Live, NoEntry
<1>4. QED
  BY <1>2, <1>3

\* A row that is written again tells of what its writer already knew.
LEMMA SetKeeps ==
  ASSUME TypeOK, StampPast, NEW j \in Jobs, SetRow(j), NEW k \in RowKey, NEW t \in Nat, t <= now
  PROVE  /\ k = KeyOf(req[j], step[j]) /\ t <= stamp[j] => InStore(k, t)'
         /\ k # KeyOf(req[j], step[j]) => (InStore(k, t) => InStore(k, t)')
         /\ InCache(k, t) => InCache(k, t)'
<1>1. /\ now' = now /\ cache' = cache
      /\ store' = [store EXCEPT ![KeyOf(req[j], step[j])] =
                     [at |-> stamp[j], until |-> now + TTL(step[j])]]
  BY DEF SetRow
<1>2. /\ step[j] \in Steps /\ now \in Nat /\ stamp[j] \in Nat /\ stamp[j] <= now
      /\ DOMAIN store = RowKey
  BY DEF TypeOK, Times, Steps, StampPast
<1>3. KeyOf(req[j], step[j])[1] = step[j] /\ TTL(step[j]) \in Nat
  BY TTLType DEF KeyOf
<1>4. ASSUME k = KeyOf(req[j], step[j]), t <= stamp[j]
      PROVE  InStore(k, t)'
  <2>1. store'[k] = [at |-> stamp[j], until |-> now + TTL(step[j])]
    BY <1>1, <1>2, <1>4
  <2>2. QED
    BY <1>1, <1>2, <1>3, <1>4, <2>1 DEF InStore
<1>5. k # KeyOf(req[j], step[j]) => (InStore(k, t) => InStore(k, t)')
  BY <1>1, <1>2 DEF InStore, Lasts
<1>6. InCache(k, t) => InCache(k, t)'
  BY <1>1 DEF InCache, Lasts, Live
<1>7. QED
  BY <1>4, <1>5, <1>6

\* An answer that is copied tells of what was sent; a copy that is deleted
\* tells nothing.
LEMMA CopyKeeps ==
  ASSUME TypeOK, NEW j \in Jobs, Fill(j) \/ Invalidate(j), NEW k \in RowKey, NEW t \in Nat,
         InCache(k, t),
         Fill(j) /\ k = KeyOf(req[j], step[j]) /\ Lasts(k, t) => seen[j].found /\ seen[j].at >= t
  PROVE  InCache(k, t)'
<1>1. now' = now /\ now \in Nat /\ DOMAIN cache = RowKey
  BY DEF Fill, Invalidate, TypeOK, Times
<1>2. CASE cache'[k] = cache[k]
  BY <1>1, <1>2 DEF InCache, Lasts, Live
<1>3. CASE Fill(j) /\ cache'[k] # cache[k]
  <2>1. /\ k = KeyOf(req[j], step[j])
        /\ cache'[k] = [missing |-> ~seen[j].found, at |-> seen[j].at, until |-> now + CacheTTL]
    BY <1>1, <1>3 DEF Fill
  <2>2. cache'[k].missing = ~seen[j].found /\ cache'[k].at = seen[j].at
    BY <2>1
  <2>3. QED
    BY <1>1, <1>3, <2>1, <2>2 DEF InCache, Lasts
<1>4. CASE Invalidate(j) /\ cache'[k] # cache[k]
  BY <1>1, <1>4 DEF Invalidate, InCache, Live, NoEntry
<1>5. QED
  BY <1>2, <1>3, <1>4

\* Only these steps change what store and copies show.
LEMMA ShownChange ==
  ASSUME [Next]_vars
  PROVE  \/ UNCHANGED <<now, store, cache>>
         \/ Tick
         \/ \E j \in Jobs : SetRow(j) \/ ((Fill(j) \/ Invalidate(j)) /\ UNCHANGED store)
BY DEF Next, JobStep, Start, CacheHit, CacheMiss, Load, Fill, CheckBudget,
       Invalidate, ReadCount, WriteCount, LogDecision, Route, Return, Fail,
       WorkerRestart, Unwind, Quiescent, vars

\* A notification that was sent stays to be seen as long as it counts.
LEMMA SentStays ==
  ASSUME PolicyInv, [Next]_vars, NEW n \in sent, n.agent \notin mixed', NEW k \in KeysOf(n)
  PROVE  InStore(k, n.at)' /\ InCache(k, n.at)'
<1> USE DEF PolicyInv, CountInv, RecordInv, TypeInv
<1>1. /\ n.at \in Nat /\ k \in RowKey /\ n.at <= now
      /\ InStore(k, n.at) /\ InCache(k, n.at) /\ n.agent \notin mixed
  BY SentFacts, MixedGrows DEF Remembered
<1>k. ASSUME NEW j \in Jobs, k = KeyOf(req[j], step[j])
      PROVE  n.agent = req[j].agent
  BY <1>k DEF KeyOf, KeysOf
<1>2. CASE UNCHANGED <<now, store, cache>>
  BY <1>1, <1>2 DEF InStore, InCache, Lasts, Live
<1>3. CASE Tick
  BY <1>1, <1>3, TickKeeps
<1>4. ASSUME NEW j \in Jobs, SetRow(j)
      PROVE  InStore(k, n.at)' /\ InCache(k, n.at)'
  <2>1. k = KeyOf(req[j], step[j]) => n.at <= stamp[j]
    BY <1>1, <1>4, <1>k DEF SetRow, Newest, Mine, Passing
  <2>2. QED
    BY <1>1, <1>4, <2>1, SetKeeps
<1>5. ASSUME NEW j \in Jobs, Fill(j) \/ Invalidate(j), UNCHANGED store
      PROVE  InStore(k, n.at)' /\ InCache(k, n.at)'
  <2>1. now' = now
    BY <1>5 DEF Fill, Invalidate
  <2>2. Fill(j) /\ k = KeyOf(req[j], step[j]) /\ Lasts(k, n.at) =>
          seen[j].found /\ seen[j].at >= n.at
    BY <1>1, <1>k DEF Fill, Probed, Tells
  <2>3. InStore(k, n.at)'
    BY <1>1, <1>5, <2>1 DEF InStore, Lasts
  <2>4. QED
    BY <1>1, <1>5, <2>2, <2>3, CopyKeeps
<1>6. QED
  BY <1>2, <1>3, <1>4, <1>5, ShownChange

\* The rows of a notice are those that its job has written.
LEMMA NoticeKeys ==
  ASSUME TypeOK, DecisionInv, NEW j \in Jobs, pc[j] = "route", NEW k \in KeysOf(Notice(j))
  PROVE  \E s \in Due(j) : k = KeyOf(req[j], s)
<1>1. verdict[j] \in Passed
  BY DEF DecisionInv
<1>2. /\ Notice(j).agent = req[j].agent /\ Notice(j).key = req[j].key
      /\ Notice(j).severity = EffectiveSeverity(req[j].severity, verdict[j])
  BY DEF Notice
<1>3. Notice(j).severity = "critical" => LoudestAllowed(j)
  BY <1>1, <1>2 DEF Passed, EffectiveSeverity, LoudestAllowed
<1>4. CASE k = <<"any", req[j].agent>>
  BY <1>4 DEF Due, KeyOf
<1>5. CASE k = <<"dedup", <<req[j].agent, req[j].key>>>>
  BY <1>5 DEF Due, KeyOf
<1>6. CASE Notice(j).severity = "critical" /\ k = <<"critical", req[j].agent>>
  BY <1>3, <1>6 DEF Due, KeyOf
<1>7. QED
  BY <1>2, <1>4, <1>5, <1>6 DEF KeysOf

LEMMA RememberedStep ==
  ASSUME PolicyInv, [Next]_vars
  PROVE  Remembered'
<1> USE DEF PolicyInv, CountInv, RecordInv, TypeInv
<1>1. now <= now' /\ now \in Nat /\ now' \in Nat
  BY StoreChange, SetRowEffect DEF TypeOK, Times, Tick
<1> SUFFICES ASSUME NEW n \in sent'
             PROVE  /\ n.at <= now'
                    /\ n.agent \notin mixed' =>
                         \A k \in KeysOf(n) : InStore(k, n.at)' /\ InCache(k, n.at)'
  BY DEF Remembered, KeysOf
<1>2. CASE n \in sent
  <2>1. n.at \in Nat /\ n.at <= now
    BY <1>2, SentFacts DEF Remembered
  <2>2. QED
    BY <1>1, <1>2, <2>1, SentStays
<1>3. CASE n \notin sent
  <2>1. PICK j \in Jobs : Route(j) /\ n = Notice(j)
    BY <1>3, SentChange DEF Route
  <2>2. pc[j] = "route" /\ UNCHANGED <<now, store, cache>>
    BY <2>1 DEF Route
  <2>3. n.at <= now'
    BY <2>1, <2>2 DEF Notice, StampPast
  <2>4. ASSUME n.agent \notin mixed', NEW k \in KeysOf(n)
        PROVE  InStore(k, n.at)' /\ InCache(k, n.at)'
    <3>1. PICK s \in Due(j) : k = KeyOf(req[j], s)
      BY <2>1, <2>2, NoticeKeys
    <3>2. Deleted(j, s) /\ Written(j, s)
      BY <2>2 DEF Deleted, Written, Passing
    <3>0. req[j].agent \notin mixed
      BY <2>1, <2>4, MixedGrows DEF Notice
    <3>3. InStore(k, stamp[j]) /\ InCache(k, stamp[j])
      BY <3>0, <3>1, <3>2 DEF Left
    <3>4. n.at = stamp[j]
      BY <2>1 DEF Notice
    <3>5. QED
      BY <2>2, <3>3, <3>4 DEF InStore, InCache, Lasts, Live
  <2>5. QED
    BY <2>3, <2>4
<1>4. QED
  BY <1>2, <1>3

----
\* Time goes on, by ticks only.
LEMMA TimeGoesOn ==
  ASSUME TypeOK, [Next]_vars
  PROVE  now \in Nat /\ now' \in Nat /\ now <= now'
BY StoreChange, SetRowEffect DEF TypeOK, Times, Tick

\* A window that is over stays over.
LEMMA ClearedStays ==
  ASSUME TypeOK, NEW k, NEW t \in Nat, NEW u \in Nat, t <= u, Cleared(k, t),
         \A n \in sent' : k \in KeysOf(n) => n \in sent
  PROVE  Cleared(k, u)'
BY SentFacts, TTLType DEF Cleared

\* A row that is not there, or is old enough, tells that the window is over.
LEMMA ToldCleared ==
  ASSUME TypeOK, NEW f \in Found, NEW s \in Steps, NEW k, k[1] = s, Tells(f, k),
         ~f.found \/ ~Cooling(f, TTL(s))
  PROVE  Cleared(k, now)
<1> SUFFICES ASSUME NEW n \in sent, k \in KeysOf(n)
             PROVE  n.at + TTL(s) <= now
  BY DEF Cleared
<1>1. n.at \in Nat /\ TTL(s) \in Nat /\ now \in Nat /\ f.at \in Nat
  BY SentFacts, TTLType DEF TypeOK, Times, Found
<1>2. Lasts(k, n.at) => f.found /\ f.at >= n.at
  BY DEF Tells
<1>3. QED
  BY <1>1, <1>2 DEF Lasts, Cooling

\* _decide goes on in the knowledge of what it has read.
LEMMA ContinueKnows ==
  ASSUME PolicyInv, NEW i \in Jobs, pc[i] \in {"get", "load", "fill"}, NEW f \in Found,
         req[i].agent \notin mixed, Tells(f, KeyOf(req[i], step[i])), Continue(i, f),
         UNCHANGED <<now, sent, mixed, req>>
  PROVE  Probed(i)' /\ Granted(i)'
<1> USE DEF PolicyInv, CountInv, RecordInv, TypeInv
<1> DEFINE r == req[i]
<1>1. /\ pc \in [Jobs -> Pcs] /\ step \in [Jobs -> Steps] /\ now \in Nat
      /\ verdict \in [Jobs -> Verdicts] /\ stamp \in [Jobs -> Times]
  BY DEF TypeOK, Pcs, Steps, Verdicts, Times
<1>2. KeyOf(r, step[i])[1] = step[i]
  BY DEF KeyOf
<1>3. ~f.found \/ ~Cooling(f, TTL(step[i])) => Cleared(KeyOf(r, step[i]), now)
  BY <1>1, <1>2, ToldCleared
<1>4. \A k : Cleared(k, now) => Cleared(k, now)'
  BY DEF Cleared
<1>5. ASSUME Suppress(i)
      PROVE  Probed(i)' /\ Granted(i)'
  BY <1>1, <1>5 DEF Suppress, Probed, Granted, Passing
<1>6. CASE /\ step[i] = "dedup" /\ ~f.found
           /\ GoProbe(i, IF r.severity = "critical" THEN "critical" ELSE "any")
  <2>1. Cleared(KeyOf(r, "dedup"), now)'
    BY <1>3, <1>4, <1>6
  <2>2. /\ pc'[i] \in {"get", "load"}
        /\ step'[i] = IF r.severity = "critical" THEN "critical" ELSE "any"
    BY <1>1, <1>6 DEF GoProbe
  <2>3. QED
    BY <2>1, <2>2 DEF Probed, Granted, Passing
<1>7. CASE step[i] = "critical" /\ ~Cooling(f, CooldownCrit) /\ GoProbe(i, "any")
  <2>1. Cleared(KeyOf(r, "dedup"), now)' /\ Cleared(KeyOf(r, "critical"), now)'
    BY <1>3, <1>4, <1>7 DEF TTL, Probed
  <2>2. pc'[i] \in {"get", "load"} /\ step'[i] = "any"
    BY <1>1, <1>7 DEF GoProbe
  <2>3. QED
    BY <2>1, <2>2 DEF Probed, Granted, Passing
<1>8. CASE step[i] = "any" /\ Pass(i, "demote_info")
  <2>1. Cleared(KeyOf(r, "dedup"), now)'
    BY <1>4, <1>8 DEF Probed
  <2>2. pc'[i] = "set" /\ verdict'[i] = "demote_info" /\ stamp'[i] = now
    BY <1>1, <1>8 DEF Pass
  <2>3. QED
    BY <2>1, <2>2 DEF Probed, Granted, Passing, LoudestAllowed
<1>9. CASE step[i] = "any" /\ (r.severity = "info" \/ ~Cooling(f, CooldownAny)) /\ GoBudget(i)
  <2>1. /\ Cleared(KeyOf(r, "dedup"), now)'
        /\ r.severity = "critical" => Cleared(KeyOf(r, "critical"), now)'
    BY <1>4, <1>9 DEF Probed
  <2>2. r.severity # "info" => Cleared(KeyOf(r, "any"), now)'
    BY <1>3, <1>4, <1>9 DEF TTL
  <2>3. pc'[i] = "budget"
    BY <1>1, <1>9 DEF GoBudget
  <2>4. QED
    BY <2>1, <2>2, <2>3 DEF Probed, Granted, Passing
<1>10. QED
  BY <1>5, <1>6, <1>7, <1>8, <1>9 DEF Continue

\* An agent that is mixed has nothing to know.
LEMMA ContinueExcused ==
  ASSUME TypeOK, NEW i \in Jobs, NEW f, req[i].agent \in mixed, Continue(i, f),
         UNCHANGED <<mixed, req>>
  PROVE  Probed(i)' /\ Granted(i)'
<1>1. Probed(i)'
  BY DEF Probed
<1>2. pc'[i] \in {"get", "load", "log", "budget"} \/ verdict'[i] = "demote_info"
  BY DEF Continue, GoProbe, Suppress, Pass, GoBudget, TypeOK
<1>3. pc'[i] = "log" => verdict'[i] = "suppress" \/ verdict'[i] = "demote_info"
  BY DEF Continue, GoProbe, Suppress, Pass, GoBudget, TypeOK
<1>4. QED
  BY <1>1, <1>2, <1>3 DEF Granted, Passing

\* What Postgres answers, and what an entry that is there says, tell of all
\* that was sent.
LEMMA AnswersTell ==
  ASSUME PolicyInv, NEW k \in RowKey, NEW a \in Agents \ mixed,
         \A n \in sent : k \in KeysOf(n) => n.agent = a
  PROVE  /\ Answer(store[k]) \in Found /\ Tells(Answer(store[k]), k)
         /\ Live(cache[k]) =>
              /\ [found |-> ~cache[k].missing, at |-> cache[k].at] \in Found
              /\ Tells([found |-> ~cache[k].missing, at |-> cache[k].at], k)
<1> USE DEF PolicyInv, CountInv, RecordInv, TypeInv
<1>1. /\ store[k].until \in Nat /\ store[k].at \in Nat
      /\ cache[k].missing \in BOOLEAN /\ cache[k].at \in Nat /\ now \in Nat
  BY DEF TypeOK, Row, Entry, Times
<1>2. Answer(store[k]) \in Found
  BY <1>1 DEF Answer, Found, NotFound
<1>3. Tells(Answer(store[k]), k)
  <2> SUFFICES ASSUME NEW n \in sent, k \in KeysOf(n), Lasts(k, n.at)
               PROVE  Answer(store[k]).found /\ Answer(store[k]).at >= n.at
    BY DEF Tells
  <2>1. store[k].until >= n.at + TTL(k[1]) /\ store[k].at >= n.at
    BY DEF Remembered, InStore
  <2>2. n.at \in Nat /\ TTL(k[1]) \in Nat
    BY SentFacts
  <2>3. Live(store[k])
    BY <1>1, <2>1, <2>2 DEF Live, Lasts
  <2>4. QED
    BY <2>1, <2>3 DEF Answer
<1>4. ASSUME Live(cache[k])
      PROVE  /\ [found |-> ~cache[k].missing, at |-> cache[k].at] \in Found
             /\ Tells([found |-> ~cache[k].missing, at |-> cache[k].at], k)
  BY <1>1, <1>4 DEF Found, Tells, Remembered, InCache
<1>5. QED
  BY <1>2, <1>3, <1>4

\* The keys of a job are those of its agent's notifications only.
LEMMA KeysOfAgent ==
  ASSUME NEW j \in Jobs, NEW s \in Steps, NEW n, KeyOf(req[j], s) \in KeysOf(n)
  PROVE  n.agent = req[j].agent
BY DEF KeyOf, KeysOf

\* A probe leaves its job with what it has learnt.
LEMMA ProbeKnows ==
  ASSUME PolicyInv, NEW i \in Jobs, CacheHit(i) \/ CacheMiss(i) \/ Load(i) \/ Fill(i)
  PROVE  Probed(i)' /\ Granted(i)'
<1> USE DEF PolicyInv, CountInv, RecordInv, TypeInv
<1> DEFINE k == KeyOf(req[i], step[i])
<1>1. /\ pc \in [Jobs -> Pcs] /\ seen \in [Jobs -> Found] /\ k \in RowKey
      /\ UNCHANGED <<now, sent, mixed, req>> /\ req[i] \in Request
  BY JobFacts DEF TypeOK, Pcs, Steps, CacheHit, CacheMiss, Load, Fill
<1>0. CASE \E f : Continue(i, f) /\ req[i].agent \in mixed
  BY <1>0, <1>1, ContinueExcused
<1>x. ASSUME req[i].agent \notin mixed
      PROVE  /\ Answer(store[k]) \in Found /\ Tells(Answer(store[k]), k)
             /\ Live(cache[k]) =>
                  /\ [found |-> ~cache[k].missing, at |-> cache[k].at] \in Found
                  /\ Tells([found |-> ~cache[k].missing, at |-> cache[k].at], k)
  <2>1. step[i] \in Steps /\ req[i].agent \in Agents \ mixed
    BY <1>1, <1>x DEF TypeOK, Steps, Request
  <2>2. \A n \in sent : k \in KeysOf(n) => n.agent = req[i].agent
    BY <2>1, KeysOfAgent
  <2>3. QED
    BY <1>1, <2>1, <2>2, AnswersTell
<1>2. CASE CacheHit(i)
  BY <1>0, <1>1, <1>2, <1>x, ContinueKnows DEF CacheHit
<1>3. CASE CacheMiss(i)
  <2>1. /\ pc[i] = "get" /\ pc'[i] = "load" /\ step'[i] = step[i]
    BY <1>1, <1>3 DEF CacheMiss
  <2>2. QED
    BY <1>1, <2>1 DEF Probed, Granted, Passing, Cleared
<1>4. CASE Load(i) /\ ~CacheOn
  BY <1>0, <1>1, <1>4, <1>x, ContinueKnows DEF Load
<1>5. CASE Load(i) /\ CacheOn
  <2>1. /\ pc[i] = "load" /\ pc'[i] = "fill" /\ step'[i] = step[i]
        /\ seen'[i] = Answer(store[k])
    BY <1>1, <1>5 DEF Load
  <2>2. req[i].agent \notin mixed => Tells(seen[i], k)'
    BY <1>1, <1>x, <2>1 DEF Tells, Lasts, KeysOf, KeyOf
  <2>3. QED
    BY <1>1, <2>1, <2>2 DEF Probed, Granted, Passing, Cleared
<1>6. CASE Fill(i)
  <2>1. pc[i] = "fill" /\ Continue(i, seen[i]) /\ seen[i] \in Found
    BY <1>1, <1>6 DEF Fill
  <2>2. req[i].agent \notin mixed => Tells(seen[i], k)
    BY <2>1 DEF Probed
  <2>3. QED
    BY <1>0, <1>1, <2>1, <2>2, ContinueKnows
<1>7. QED
  BY <1>2, <1>3, <1>4, <1>5, <1>6

LEMMA ProbedStep ==
  ASSUME PolicyInv, [Next]_vars, NEW i \in Jobs
  PROVE  Probed(i)'
<1> USE DEF PolicyInv, CountInv, RecordInv, TypeInv
<1>1. CASE pc'[i] \notin {"get", "load", "fill", "budget"}
  BY <1>1 DEF Probed
<1>2. CASE Apart(i)
  <2> SUFFICES ASSUME req[i].agent \notin mixed'
               PROVE  Probed(i)'
    BY RequestsFixed DEF Probed
  <2>1. /\ req' = req /\ now \in Nat /\ now' \in Nat /\ now <= now'
        /\ req[i].agent \notin mixed
    BY RequestsFixed, TimeGoesOn, MixedGrows
  <2>2. ASSUME NEW s \in Steps, NEW n \in sent', KeyOf(req[i], s) \in KeysOf(n)
        PROVE  n \in sent
    BY <1>2, <2>1, <2>2, KeysOfAgent DEF Apart, Mine
  <2>3. ASSUME NEW s \in Steps, Cleared(KeyOf(req[i], s), now)
        PROVE  Cleared(KeyOf(req[i], s), now)'
    <3>1. \A n \in sent' : KeyOf(req[i], s) \in KeysOf(n) => n \in sent
      BY <2>2, <2>3
    <3>2. PICK k : k = KeyOf(req[i], s)
      OBVIOUS
    <3>3. PICK t : t = now'
      OBVIOUS
    <3>4. Cleared(k, t)'
      BY <2>1, <2>3, <3>1, <3>2, <3>3, ClearedStays
    <3>5. QED
      BY <2>1, <3>2, <3>3, <3>4 DEF Cleared
  <2>4. ASSUME NEW s \in Steps, Tells(seen[i], KeyOf(req[i], s))
        PROVE  Tells(seen[i], KeyOf(req[i], s))'
    <3> SUFFICES ASSUME NEW n \in sent', KeyOf(req[i], s) \in KeysOf(n),
                        n.at + TTL(s) > now'
                 PROVE  seen[i].found /\ seen[i].at >= n.at
      BY <1>2, <2>1 DEF Apart, Tells, Lasts, KeysOf, KeyOf
    <3>1. n \in sent /\ n.at \in Nat /\ TTL(s) \in Nat
      BY <2>2, <2>4, SentFacts, TTLType
    <3>2. Lasts(KeyOf(req[i], s), n.at)
      BY <2>1, <3>1 DEF Lasts, KeyOf
    <3>3. QED
      BY <2>4, <3>1, <3>2 DEF Tells
  <2>5. step[i] \in Steps
    BY DEF TypeOK, Steps
  <2>6. /\ pc'[i] = pc[i] /\ step'[i] = step[i] /\ seen'[i] = seen[i] /\ req'[i] = req[i]
    BY <1>2, <2>1 DEF Apart
  <2>8. Tells(seen[i], KeyOf(req[i], step[i])) => Tells(seen[i], KeyOf(req[i], step[i]))'
    BY <2>4, <2>5, <2>6 DEF Tells
  <2>9. QED
    BY <2>1, <2>3, <2>6, <2>8 DEF Probed, Steps
<1>3. CASE JobStep(i) /\ pc'[i] \in {"get", "load", "fill", "budget"}
  <2>1. CASE Start(i)
    <3>1. pc'[i] \notin {"fill", "budget"} /\ (pc'[i] \in {"get", "load"} => step'[i] = "dedup")
      BY <2>1 DEF Start, Pass, GoProbe, TypeOK
    <3>2. QED
      BY <3>1 DEF Probed
  <2>2. CASE CacheHit(i) \/ CacheMiss(i) \/ Load(i) \/ Fill(i)
    BY <2>2, ProbeKnows
  <2>3. QED
    BY <1>3, <2>1, <2>2 DEF JobStep, CheckBudget, Suppress, Pass, SetRow, Invalidate, NextWrite,
       ReadCount, WriteCount, LogDecision, Route, Return, TypeOK
<1>4. QED
  BY <1>1, <1>2, <1>3, WorksApart DEF Idle

----
\* A later time is on the same day or a later one.
LEMMA DaysPass ==
  ASSUME NEW a \in Nat, NEW b \in Nat, a <= b
  PROVE  Day(a) \in Nat /\ Day(b) \in Nat /\ Day(a) <= Day(b)
<1> DEFINE d == DayLength
<1>1. d \in Nat \ {0}
  BY LimitsAssumption
<1> HIDE DEF d
<1>2. \A x \in Nat : x \div d \in Nat /\ d * (x \div d) <= x /\ x < d * (x \div d) + d
  BY <1>1
<1>3. \A p \in Nat, q \in Nat : p < q => d * p + d <= d * q
  BY <1>1
<1>4. a \div d <= b \div d
  <2>1. CASE b \div d < a \div d
    <3>1. d * (b \div d) + d <= d * (a \div d)
      BY <1>2, <1>3, <2>1
    <3>2. QED
      BY <1>1, <1>2, <3>1
  <2>2. QED
    BY <1>2, <2>1
<1>5. QED
  BY <1>2, <1>4 DEF Day, d

\* The budget of the day on which the decision falls is not used up.
LEMMA BudgetLeft ==
  ASSUME PolicyInv, NEW i \in Jobs, pc[i] = "budget", NEW o \in Owners \ mixed,
         o = Owner(req[i].agent, req[i].severity), NEW cap \in Nat \ {0},
         ~Exhausted(count[o][Day(stamp[i])], cap)
  PROVE  Cardinality(SentOn(o, Day(now))) < cap
<1> USE DEF PolicyInv, CountInv, RecordInv, TypeInv
<1>1. /\ stamp[i] \in Nat /\ now \in Nat /\ stamp[i] <= now /\ Day(stamp[i]) \in Days
  BY DEF TypeOK, Times, Days, StampPast
<1>2. CASE Day(now) = Day(stamp[i])
  <2>1. PICK d \in Days : d = Day(stamp[i])
    BY <1>1
  <2>2. count[o][d] \in Nat /\ clashes[o][d] = 0
    BY DEF TypeOK, Unclashed
  <2>3. Cardinality(SentOn(o, d)) <= count[o][d] + clashes[o][d]
    BY SentCovered
  <2>4. Cardinality(SentOn(o, d)) \in Nat
    BY PromisedNat
  <2>5. QED
    BY <1>2, <2>1, <2>2, <2>3, <2>4 DEF Exhausted
<1>3. CASE Day(now) # Day(stamp[i])
  <2>1. ASSUME NEW n \in sent, Owner(n.agent, n.severity) = o
        PROVE  Day(n.at) # Day(now)
    <3>0. n.agent \in Agents /\ req[i].agent \in Agents
      BY ReqType DEF TypeOK, Request
    <3>1. Mine(i, n)
      BY <2>1, <3>0, JobsAssumption DEF Mine, Owner
    <3>2. n.at \in Nat /\ n.at <= stamp[i]
      BY <3>1, SentFacts DEF Newest
    <3>3. QED
      BY <1>1, <1>3, <3>2, DaysPass
  <2>2. SentOn(o, Day(now)) = {}
    BY <2>1 DEF SentOn
  <2>3. QED
    BY <1>1, <2>2, FS_EmptySet
<1>4. QED
  BY <1>2, <1>3

\* A job that is left alone hears of no news that it counts or remembers.
LEMMA ApartKnows ==
  ASSUME PolicyInv, [Next]_vars, NEW i \in Jobs, Apart(i)
  PROVE  /\ req[i].agent \notin mixed' =>
              \A s \in Steps, t \in Nat :
                Cleared(KeyOf(req[i], s), t) => Cleared(KeyOf(req[i], s), t)'
         /\ Owner(req[i].agent, req[i].severity) \notin mixed' =>
              \A d : SentOn(Owner(req[i].agent, req[i].severity), d)'
                       = SentOn(Owner(req[i].agent, req[i].severity), d)
<1> USE DEF PolicyInv, CountInv, RecordInv, TypeInv
<1>1. req' = req /\ mixed \subseteq mixed' /\ sent \subseteq sent' /\ TypeOK'
  <2>1. TypeOK'
    BY TypeInvStep
  <2>2. QED
    BY <2>1, RequestsFixed, MixedGrows, SentChange DEF Route
<1>2. ASSUME req[i].agent \notin mixed', NEW s \in Steps, NEW t \in Nat,
             Cleared(KeyOf(req[i], s), t)
      PROVE  Cleared(KeyOf(req[i], s), t)'
  <2>1. ASSUME NEW n \in sent', KeyOf(req[i], s) \in KeysOf(n)
        PROVE  n \in sent
    BY <1>1, <1>2, <2>1, KeysOfAgent DEF Apart, Mine
  <2>2. QED
    BY <1>1, <1>2, <2>1 DEF Cleared
<1>3. ASSUME Owner(req[i].agent, req[i].severity) \notin mixed', NEW d
      PROVE  SentOn(Owner(req[i].agent, req[i].severity), d)'
               = SentOn(Owner(req[i].agent, req[i].severity), d)
  <2>0. PICK o : o = Owner(req[i].agent, req[i].severity)
    OBVIOUS
  <2>1. ASSUME NEW n \in sent', Owner(n.agent, n.severity) = o
        PROVE  n \in sent
    <3>0. n.agent \in Agents /\ req[i].agent \in Agents
      BY <1>1, ReqType DEF TypeOK, Request
    <3>1. Mine(i, n)'
      BY <1>1, <1>3, <2>0, <2>1, <3>0, JobsAssumption DEF Mine, Owner
    <3>2. QED
      BY <3>1 DEF Apart
  <2>2. SentOn(o, d)' = SentOn(o, d)
    BY <1>1, <2>1 DEF SentOn
  <2>3. QED
    BY <1>1, <2>0, <2>2
<1>4. QED
  BY <1>2, <1>3

LEMMA GrantedStep ==
  ASSUME PolicyInv, [Next]_vars, NEW i \in Jobs
  PROVE  Granted(i)'
<1> USE DEF PolicyInv, CountInv, RecordInv, TypeInv
<1>0. req' = req
  BY RequestsFixed
<1>1. CASE ~Passing(i)'
  BY <1>1 DEF Granted
<1>m. mixed \subseteq mixed'
  BY MixedGrows
<1>2. CASE /\ Passing(i) /\ sent' = sent /\ verdict'[i] = verdict[i] /\ stamp'[i] = stamp[i]
  BY <1>0, <1>2, <1>m DEF Granted, LoudestAllowed, Cleared, SentOn
<1>a. CASE Apart(i)
  <2>1. /\ Passing(i)' <=> Passing(i)
        /\ verdict'[i] = verdict[i] /\ stamp'[i] = stamp[i] /\ stamp[i] \in Nat
    BY <1>a DEF Apart, Passing, TypeOK, Times
  <2>2. /\ req[i].agent \notin mixed' =>
             \A s \in Steps : Cleared(KeyOf(req[i], s), stamp[i]) =>
                                Cleared(KeyOf(req[i], s), stamp[i])'
        /\ Owner(req[i].agent, req[i].severity) \notin mixed' =>
             SentOn(Owner(req[i].agent, req[i].severity), Day(stamp[i]))'
               = SentOn(Owner(req[i].agent, req[i].severity), Day(stamp[i]))
    <3>1. PICK t \in Nat : t = stamp[i]
      BY <2>1
    <3>d. PICK d : d = Day(stamp[i])
      OBVIOUS
    <3>2. /\ req[i].agent \notin mixed' =>
               \A s \in Steps : Cleared(KeyOf(req[i], s), t) => Cleared(KeyOf(req[i], s), t)'
          /\ Owner(req[i].agent, req[i].severity) \notin mixed' =>
               SentOn(Owner(req[i].agent, req[i].severity), d)'
                 = SentOn(Owner(req[i].agent, req[i].severity), d)
      BY <1>a, ApartKnows
    <3>3. QED
      BY <1>0, <2>1, <3>1, <3>d, <3>2 DEF Cleared, SentOn
  <2>3. QED
    BY <1>0, <1>m, <2>1, <2>2 DEF Granted, LoudestAllowed, Steps
<1>3. CASE JobStep(i)
  <2>1. CASE Start(i)
    <3>1. CASE WhitelistFails(req[i]) /\ Pass(i, "demote_warn")
      <4>1. verdict'[i] = "demote_warn" /\ req[i].severity = "critical"
        BY <3>1 DEF Pass, WhitelistFails, TypeOK
      <4>2. QED
        BY <4>1 DEF Granted
    <3>2. CASE GoProbe(i, "dedup")
      BY <1>1, <3>2 DEF GoProbe, Passing, TypeOK
    <3>3. QED
      BY <2>1, <3>1, <3>2 DEF Start
  <2>2. CASE CacheHit(i) \/ CacheMiss(i) \/ Load(i) \/ Fill(i)
    BY <2>2, ProbeKnows
  <2>3. CASE CheckBudget(i) /\ Suppress(i)
    BY <1>1, <2>3 DEF Suppress, Passing, TypeOK
  <2>4. CASE CheckBudget(i) /\ Pass(i, "allow")
    <3>1. /\ pc[i] = "budget" /\ sent' = sent /\ verdict'[i] = "allow" /\ stamp'[i] = now
      BY <2>4 DEF CheckBudget, Pass, TypeOK
    <3>2. PICK o \in Owners, cap \in Nat \ {0} :
            o = Owner(req[i].agent, req[i].severity) /\ cap = Cap(req[i].severity)
      BY ReqType, LimitsAssumption DEF Owner, Cap, Owners, Request
    <3>3. o \notin mixed => Cardinality(SentOn(o, Day(now))) < cap
      <4>1. ~Exhausted(count[o][Day(stamp[i])], cap)
        BY <2>4, <3>2 DEF CheckBudget, Pass, Suppress, TypeOK
      <4>2. QED
        BY <3>1, <3>2, <4>1, BudgetLeft
    <3>4. \A k : Cleared(k, now) => Cleared(k, stamp[i])'
      BY <3>1 DEF Cleared
    <3>5. SentOn(o, Day(stamp[i]))' = SentOn(o, Day(now))
      BY <3>1 DEF SentOn
    <3>6. QED
      BY <1>0, <1>m, <3>1, <3>2, <3>3, <3>4, <3>5 DEF Granted, Probed, LoudestAllowed
  <2>5. CASE SetRow(i) \/ Invalidate(i) \/ ReadCount(i) \/ WriteCount(i)
    BY <1>2, <2>5 DEF SetRow, Invalidate, ReadCount, WriteCount, Passing
  <2>6. CASE LogDecision(i)
    BY <1>1, <1>2, <2>6 DEF LogDecision, Silent, Passing, TypeOK
  <2>7. CASE Route(i) \/ Return(i)
    BY <1>1, <2>7 DEF Route, Return, Passing, TypeOK
  <2>8. QED
    BY <1>3, <2>1, <2>2, <2>3, <2>4, <2>5, <2>6, <2>7 DEF JobStep, CheckBudget
<1>4. CASE pc'[i] \in Idle
  BY <1>1, <1>4 DEF Passing, Idle
<1>5. QED
  BY <1>1, <1>3, <1>4, <1>a, WorksApart

----
LEMMA UncachedStep ==
  ASSUME TypeOK, Uncached, [Next]_vars
  PROVE  Uncached'
<1> SUFFICES ASSUME ~CacheOn
             PROVE  /\ \A k \in RowKey : cache'[k] = NoEntry
                    /\ \A i \in Jobs : pc'[i] \notin {"fill", "del"}
  BY DEF Uncached
<1>1. /\ \A k \in RowKey : cache[k] = NoEntry
      /\ \A j \in Jobs : pc[j] \notin {"fill", "del"}
  BY DEF Uncached
<1>2. \A k \in RowKey : cache'[k] = NoEntry
  <2>1. CASE cache' = cache
    BY <1>1, <2>1
  <2>2. CASE Tick
    BY <1>1, <2>2 DEF Tick, Unexpired
  <2>3. CASE \E j \in Jobs : SetRow(j) \/ Fill(j) \/ Invalidate(j)
    BY <1>1, <2>3 DEF SetRow, Fill, Invalidate
  <2>4. QED
    BY <2>1, <2>2, <2>3, ShownChange
<1>3. ASSUME NEW i \in Jobs
      PROVE  pc'[i] \notin {"fill", "del"}
  <2>1. ASSUME NEW j \in Jobs, JobStep(j)
        PROVE  pc'[i] \notin {"fill", "del"}
    BY <1>1, <2>1 DEF JobStep, Start, CacheHit, CacheMiss, Load, Fill, CheckBudget, SetRow,
       Invalidate, ReadCount, WriteCount, LogDecision, Route, Return, Continue, GoProbe,
       Suppress, Pass, GoBudget, NextWrite, TypeOK
  <2>2. ASSUME NEW j \in Jobs, Fail(j)
        PROVE  pc'[i] \notin {"fill", "del"}
    BY <1>1, <2>2 DEF Fail, TypeOK
  <2>3. CASE WorkerRestart
    BY <1>1, <2>3 DEF WorkerRestart, AfterRestart
  <2>4. CASE Tick \/ UNCHANGED vars
    BY <1>1, <2>4 DEF Tick, vars, jobVars
  <2>5. QED
    BY <2>1, <2>2, <2>3, <2>4 DEF Next, Quiescent
<1>4. QED
  BY <1>2, <1>3

LEMMA BegunStep ==
  ASSUME TypeOK, [Next]_vars, NEW i \in Jobs, Begun(i)
  PROVE  Begun(i)'
<1>1. tries[i] \in Nat /\ tries'[i] \in Nat /\ tries'[i] >= tries[i]
  <2>1. tries' = tries \/ \E j \in Jobs : Start(j)
    BY DEF Next, JobStep, CacheHit, CacheMiss, Load, Fill, CheckBudget, SetRow, Invalidate,
       ReadCount, WriteCount, LogDecision, Route, Return, Fail, WorkerRestart, Unwind, Tick,
       Quiescent, vars, jobVars
  <2>2. tries[i] \in Nat
    BY DEF TypeOK
  <2>3. QED
    BY <2>1, <2>2 DEF Start, TypeOK
<1>2. CASE pc[i] \notin Idle
  BY <1>1, <1>2 DEF Begun
<1>3. CASE Start(i)
  BY <1>3 DEF Start, Begun, TypeOK
<1>4. CASE pc[i] \in Idle /\ ~Start(i)
  <2>1. ASSUME NEW j \in Jobs, JobStep(j), j # i
        PROVE  pc'[i] = pc[i]
    BY <2>1 DEF JobStep, Start, CacheHit, CacheMiss, Load, Fill, CheckBudget, SetRow, Invalidate,
       ReadCount, WriteCount, LogDecision, Route, Return, Continue, GoProbe, Suppress, Pass,
       GoBudget, NextWrite, TypeOK
  <2>2. ~JobStep(i)
    BY <1>4, WhoSteps DEF Running
  <2>3. ASSUME NEW j \in Jobs, Fail(j)
        PROVE  pc'[i] \in Idle
    BY <1>4, <2>3 DEF Fail, TypeOK, Idle
  <2>4. pc'[i] \in Idle
    BY <1>4, <2>1, <2>2, <2>3 DEF Next, WorkerRestart, AfterRestart, Tick, Quiescent, vars,
       jobVars, Idle
  <2>5. QED
    BY <2>4 DEF Begun
<1>5. QED
  BY <1>2, <1>3, <1>4

\* The job at work takes the time after all that was sent.
LEMMA NewestStep ==
  ASSUME PolicyInv, [Next]_vars, NEW i \in Jobs
  PROVE  Newest(i)'
<1> USE DEF PolicyInv, CountInv, RecordInv, TypeInv
<1>0. \A n \in sent : n.at <= now
  BY DEF Remembered
<1>1. CASE ~(Passing(i) \/ pc[i] = "budget")'
  BY <1>1 DEF Newest
<1>m. req' = req /\ mixed \subseteq mixed'
  BY RequestsFixed, MixedGrows
<1>2. CASE /\ Passing(i) \/ pc[i] = "budget"
           /\ sent' = sent /\ stamp'[i] = stamp[i]
  BY <1>2, <1>m DEF Newest, Mine
<1>3. CASE sent' = sent /\ stamp'[i] = now
  BY <1>0, <1>3 DEF Newest
<1>a. CASE Apart(i)
  <2>1. \A n \in sent' : Mine(i, n)' => n \in sent /\ Mine(i, n)
    BY <1>a, <1>m DEF Apart, Mine
  <2>2. QED
    BY <1>a, <2>1 DEF Apart, Newest, Passing
<1>4. CASE JobStep(i)
  <2>1. ASSUME NEW f, Continue(i, f), sent' = sent
        PROVE  Newest(i)'
    BY <1>1, <1>3, <2>1 DEF Continue, GoProbe, Suppress, Pass, GoBudget, Passing, TypeOK
  <2>2. CASE Start(i)
    BY <1>1, <1>3, <2>2 DEF Start, GoProbe, Pass, Passing, TypeOK
  <2>3. CASE CacheHit(i) \/ Fill(i)
    BY <2>1, <2>3 DEF CacheHit, Fill
  <2>4. CASE CacheMiss(i)
    BY <1>1, <2>4 DEF CacheMiss, Passing, TypeOK
  <2>5. CASE Load(i)
    <3>1. CASE CacheOn
      BY <1>1, <2>5, <3>1 DEF Load, Passing, TypeOK
    <3>2. CASE ~CacheOn
      BY <2>1, <2>5, <3>2 DEF Load
    <3>3. QED
      BY <3>1, <3>2
  <2>6. CASE CheckBudget(i)
    BY <1>1, <1>3, <2>6 DEF CheckBudget, Suppress, Pass, Passing, TypeOK
  <2>7. CASE SetRow(i) \/ Invalidate(i) \/ ReadCount(i) \/ WriteCount(i)
    BY <1>2, <2>7 DEF SetRow, Invalidate, ReadCount, WriteCount, Passing
  <2>8. CASE LogDecision(i)
    BY <1>1, <1>2, <2>8 DEF LogDecision, Silent, Passing, TypeOK
  <2>9. CASE Route(i) \/ Return(i)
    BY <1>1, <2>9 DEF Route, Return, Passing, TypeOK
  <2>10. QED
    BY <1>4, <2>2, <2>3, <2>4, <2>5, <2>6, <2>7, <2>8, <2>9 DEF JobStep
<1>5. CASE pc'[i] \in Idle
  BY <1>1, <1>5 DEF Passing, Idle
<1>6. QED
  BY <1>4, <1>5, <1>a, WorksApart

----
\* _post_decision goes on when the row it is at is written and its copy gone.
LEMMA NextWriteOrder ==
  ASSUME TypeOK, NEW i \in Jobs, pc[i] \in {"set", "del"}, NextWrite(i), NEW s \in Due(i)
  PROVE  pc'[i] # "del" /\ (Deleted(i, s)' => s = step[i] \/ Before(s, step[i]))
BY DEF NextWrite, Due, Before, Deleted, LoudestAllowed, TypeOK

\* What is written and deleted after a step, and what store and copy then show.
LEMMA LeftKept ==
  ASSUME TypeOK, NEW i \in Jobs, Left(i), req' = req,
         verdict'[i] = verdict[i], stamp'[i] = stamp[i],
         \A s \in Due(i) :
           /\ Written(i, s)' => InStore(KeyOf(req[i], s), stamp[i])' \/ Written(i, s)
           /\ Deleted(i, s)' => ~Live(cache[KeyOf(req[i], s)])' \/ Deleted(i, s),
         mixed \subseteq mixed',
         req[i].agent \notin mixed' => \A k \in RowKey, t \in Nat, s \in Steps :
           k = KeyOf(req[i], s) /\ t = stamp[i] =>
             (InStore(k, t) => InStore(k, t)') /\ (InCache(k, t) => InCache(k, t)')
  PROVE  Left(i)'
<1> SUFFICES ASSUME req[i].agent \notin mixed', NEW s \in Due(i)
             PROVE  /\ Written(i, s)' => InStore(KeyOf(req[i], s), stamp[i])'
                    /\ Deleted(i, s)' => InCache(KeyOf(req[i], s), stamp[i])'
  BY DEF Left, Due, LoudestAllowed
<1>s. s \in Steps /\ req[i].agent \notin mixed
  BY DEF Due, Steps
<1>1. PICK k \in RowKey, t \in Nat : k = KeyOf(req[i], s) /\ t = stamp[i]
  BY JobFacts DEF Due, Steps
<1>2. KeyOf(req'[i], s) = k /\ stamp'[i] = t
  BY <1>1
<1>3. /\ Written(i, s) => InStore(k, t)
      /\ Deleted(i, s) => InCache(k, t)
  BY <1>1, <1>s DEF Left
<1>4. ASSUME Written(i, s)'
      PROVE  InStore(KeyOf(req[i], s), stamp[i])'
  <2>1. CASE Written(i, s)
    <3>1. InStore(k, t)'
      BY <1>1, <1>3, <1>s, <2>1
    <3>2. QED
      BY <1>2, <3>1 DEF InStore, Lasts
  <2>2. QED
    BY <1>4, <2>1
<1>5. ASSUME Deleted(i, s)'
      PROVE  InCache(KeyOf(req[i], s), stamp[i])'
  <2>1. CASE ~Live(cache[KeyOf(req[i], s)])'
    BY <2>1 DEF InCache
  <2>2. CASE Deleted(i, s)
    <3>1. InCache(k, t)'
      BY <1>1, <1>3, <1>s, <2>2
    <3>2. QED
      BY <1>2, <3>1 DEF InCache, Lasts, Live
  <2>3. QED
    BY <1>5, <2>1, <2>2
<1>6. QED
  BY <1>4, <1>5

LEMMA LeftStep ==
  ASSUME PolicyInv, [Next]_vars, NEW i \in Jobs
  PROVE  Left(i)'
<1> USE DEF PolicyInv, CountInv, RecordInv, TypeInv
<1>0. req' = req /\ mixed \subseteq mixed'
  BY RequestsFixed, MixedGrows
<1>m. CASE req[i].agent \in mixed'
  BY <1>0, <1>m DEF Left
<1>1. CASE pc'[i] # "del" /\ \A s \in Due(i)' : ~Deleted(i, s)'
  BY <1>1 DEF Left, Written
<1>2. CASE /\ verdict'[i] = verdict[i] /\ stamp'[i] = stamp[i]
           /\ \A s \in Due(i) :
                (Written(i, s)' => Written(i, s)) /\ (Deleted(i, s)' => Deleted(i, s))
           /\ UNCHANGED <<now, store, cache>> \/ Tick
  <2>1. ASSUME NEW k \in RowKey, NEW t \in Nat
        PROVE  (InStore(k, t) => InStore(k, t)') /\ (InCache(k, t) => InCache(k, t)')
    BY <1>2, TickKeeps DEF InStore, InCache, Lasts, Live
  <2>2. QED
    BY <1>0, <1>2, <2>1, LeftKept
<1>3. CASE SetRow(i)
  <2>1. /\ pc[i] = "set" /\ verdict' = verdict /\ stamp' = stamp /\ now' = now
    BY <1>3 DEF SetRow
  <2>2. /\ step[i] \in Steps /\ stamp[i] \in Nat /\ stamp[i] <= now
    BY DEF TypeOK, Steps, Times, StampPast
  <2>3. ASSUME NEW k \in RowKey, NEW t \in Nat, t = stamp[i]
        PROVE  /\ k = KeyOf(req[i], step[i]) \/ InStore(k, t) => InStore(k, t)'
               /\ InCache(k, t) => InCache(k, t)'
    BY <1>3, <2>2, <2>3, SetKeeps
  <2>4. ASSUME NEW s \in Steps, s = step[i]
        PROVE  InStore(KeyOf(req[i], s), stamp[i])'
    <3>1. PICK k \in RowKey, t \in Nat : k = KeyOf(req[i], s) /\ t = stamp[i]
      BY JobFacts
    <3>2. InStore(k, t)'
      BY <2>3, <2>4, <3>1
    <3>3. QED
      BY <1>0, <2>1, <3>1, <3>2 DEF InStore, Lasts
  <2>5. ASSUME NEW s \in Due(i)
        PROVE  /\ Written(i, s)' => InStore(KeyOf(req[i], s), stamp[i])' \/ Written(i, s)
               /\ Deleted(i, s)' => ~Live(cache[KeyOf(req[i], s)])' \/ Deleted(i, s)
    <3>0. s \in Steps /\ KeyOf(req[i], s) \in RowKey
      BY JobFacts DEF Due, Steps
    <3>1. CASE CacheOn
      <4>1. pc'[i] = "del" /\ step'[i] = step[i]
        BY <1>3, <3>1 DEF SetRow, TypeOK
      <4>2. QED
        BY <2>1, <2>4, <3>0, <4>1 DEF Written, Deleted, Passing
    <3>2. CASE ~CacheOn
      <4>1. NextWrite(i)
        BY <1>3, <3>2 DEF SetRow
      <4>2. pc'[i] # "del" /\ (Deleted(i, s)' => s = step[i] \/ Before(s, step[i]))
        BY <2>1, <4>1, NextWriteOrder
      <4>3. ~Live(cache[KeyOf(req[i], s)])'
        <5>1. cache'[KeyOf(req[i], s)] = NoEntry
          BY <3>0, <3>2, UncachedStep DEF Uncached
        <5>2. QED
          BY <1>0, <2>1, <2>2, <5>1, TimeGoesOn DEF Live, NoEntry
      <4>4. QED
        BY <2>1, <2>4, <3>0, <4>2, <4>3 DEF Written, Deleted, Passing
    <3>3. QED
      BY <3>1, <3>2
  <2>6. QED
    BY <1>0, <2>1, <2>3, <2>5, LeftKept
<1>4. CASE Invalidate(i) /\ req[i].agent \notin mixed'
  <2>n. req[i].agent \notin mixed'
    BY <1>4
  <2>1. /\ pc[i] = "del" /\ verdict' = verdict /\ stamp' = stamp /\ now' = now /\ store' = store
        /\ NextWrite(i)
    BY <1>4 DEF Invalidate
  <2>2. cache' = [cache EXCEPT ![KeyOf(req[i], step[i])] = NoEntry]
    BY <1>4, <2>n DEF Invalidate
  <2>3. ASSUME NEW k \in RowKey, NEW t \in Nat
        PROVE  (InStore(k, t) => InStore(k, t)') /\ (InCache(k, t) => InCache(k, t)')
    BY <1>4, <2>1, CopyKeeps DEF InStore, Lasts, Fill
  <2>4. ASSUME NEW s \in Due(i)
        PROVE  /\ Written(i, s)' => Written(i, s)
               /\ Deleted(i, s)' => ~Live(cache[KeyOf(req[i], s)])' \/ Deleted(i, s)
    <3>1. pc'[i] # "del" /\ (Deleted(i, s)' => s = step[i] \/ Before(s, step[i]))
      BY <2>1, NextWriteOrder
    <3>2. s = step[i] => ~Live(cache[KeyOf(req[i], s)])'
      BY <1>0, <2>1, <2>2, JobFacts DEF Live, NoEntry, TypeOK, Steps
    <3>3. QED
      BY <2>1, <3>1, <3>2 DEF Written, Deleted, Passing
  <2>5. QED
    BY <1>0, <2>1, <2>3, <2>4, LeftKept
<1>5. CASE ReadCount(i) \/ WriteCount(i)
  <2>1. /\ pc[i] \notin {"set", "del"} /\ pc'[i] \notin {"set", "del"} /\ Passing(i)
        /\ verdict' = verdict /\ stamp' = stamp /\ UNCHANGED <<now, store, cache>>
    BY <1>5 DEF ReadCount, WriteCount, Passing, TypeOK
  <2>2. QED
    BY <1>2, <2>1 DEF Written, Deleted
<1>6. CASE LogDecision(i)
  <2>1. /\ pc[i] = "log" /\ pc'[i] = IF verdict[i] = "suppress" THEN "return" ELSE "route"
        /\ verdict' = verdict /\ stamp' = stamp /\ UNCHANGED <<now, store, cache>>
    BY <1>6 DEF LogDecision, Silent, TypeOK
  <2>2. QED
    BY <1>2, <2>1 DEF Written, Deleted, Passing
<1>7. CASE ~Passing(i)' \/ (pc'[i] = "set" /\ step'[i] = "any")
  BY <1>1, <1>7 DEF Deleted, Passing, Before
<1>8. ASSUME NEW f, Continue(i, f)
      PROVE  Left(i)'
  BY <1>7, <1>8 DEF Continue, GoProbe, Suppress, Pass, GoBudget, Passing, TypeOK
<1>9. CASE Start(i) \/ CheckBudget(i) \/ CacheMiss(i) \/ Route(i) \/ Return(i) \/ pc'[i] \in Idle
  BY <1>7, <1>9 DEF Start, CheckBudget, CacheMiss, Route, Return, GoProbe, Suppress, Pass,
     Passing, Idle, TypeOK
<1>10. CASE CacheHit(i) \/ Load(i) \/ Fill(i)
  <2>1. CASE \E f : Continue(i, f)
    BY <1>8, <2>1
  <2>2. CASE pc'[i] = "fill"
    BY <1>7, <2>2 DEF Passing
  <2>3. QED
    BY <1>10, <2>1, <2>2 DEF CacheHit, Load, Fill, TypeOK
<1>11. CASE JobStep(i)
  BY <1>m, <1>3, <1>4, <1>5, <1>6, <1>9, <1>10, <1>11 DEF JobStep
<1>12. CASE Apart(i) /\ req[i].agent \notin mixed'
  <2>1. /\ pc'[i] = pc[i] /\ step'[i] = step[i] /\ verdict'[i] = verdict[i]
        /\ stamp'[i] = stamp[i]
    BY <1>12 DEF Apart
  <2>2. \A s : (Written(i, s)' => Written(i, s)) /\ (Deleted(i, s)' => Deleted(i, s))
    BY <2>1 DEF Written, Deleted, Passing
  <2>3. CASE Tick
    BY <1>2, <2>1, <2>2, <2>3
  <2>4. CASE ~Tick
    <3>1. ASSUME NEW k \in RowKey, NEW t \in Nat, NEW s \in Steps, k = KeyOf(req[i], s)
          PROVE  (InStore(k, t) => InStore(k, t)') /\ (InCache(k, t) => InCache(k, t)')
      <4>1. now' = now /\ store'[k] = store[k] /\ cache'[k] = cache[k]
        BY <1>12, <2>4, <3>1 DEF Apart
      <4>2. QED
        BY <4>1 DEF InStore, InCache, Lasts, Live
    <3>2. QED
      BY <1>0, <2>1, <2>2, <3>1, LeftKept
  <2>5. QED
    BY <2>3, <2>4
<1>13. QED
  BY <1>9, <1>11, <1>12, <1>m, WorksApart

LEMMA PolicyInvariant == Spec => []PolicyInv
<1>1. Init /\ CountInv => PolicyInv
  BY DEF Init, PolicyInv, OneByOne, Unclashed, Remembered, Uncached, Newest, Probed, Granted,
         Left, Written, Deleted, Begun, Idle, Passing, Running
<1>2. PolicyInv /\ CountInv' /\ [Next]_vars => PolicyInv'
  <2> SUFFICES ASSUME PolicyInv, CountInv', [Next]_vars PROVE PolicyInv'
    OBVIOUS
  <2>1. OneByOne' /\ Unclashed' /\ Remembered' /\ Uncached'
    BY OneByOneStep, UnclashedStep, RememberedStep, UncachedStep
    DEF PolicyInv, CountInv, RecordInv, TypeInv
  <2>2. \A j \in Jobs : Newest(j)' /\ Probed(j)' /\ Granted(j)' /\ Left(j)' /\ Begun(j)'
    BY NewestStep, ProbedStep, GrantedStep, LeftStep, BegunStep
    DEF PolicyInv, CountInv, RecordInv, TypeInv
  <2>3. QED
    BY <2>1, <2>2 DEF PolicyInv
<1>3. Spec => []CountInv
  BY CountInvariant
<1>4. QED
  BY <1>1, <1>2, <1>3, PTL DEF Spec

----
\* Cardinality is the same in the policy.
LEMMA PolicyCounts ==
  ASSUME NEW S
  PROVE  Policy!Cardinality(S) = Cardinality(S)
BY DEF Policy!Cardinality, Cardinality

\* What the rules of the policy say of a notice, from what its job has found.
LEMMA NoticePermitted ==
  ASSUME PolicyInv, NEW j \in Jobs, pc[j] = "route"
  PROVE  Policy!Permitted(Notice(j))
<1> USE DEF PolicyInv, CountInv, RecordInv, TypeInv
<1> DEFINE n == Notice(j)
           r == req[j]
<1>1. /\ n.at = stamp[j] /\ n.agent = r.agent /\ n.key = r.key /\ n.asked = r.severity
      /\ n.severity = EffectiveSeverity(r.severity, verdict[j])
      /\ verdict[j] \in Passed /\ Passing(j) /\ r \in Request
  BY ReqType DEF Notice, DecisionInv, Passing
<1> HIDE DEF n
<1>2. n.at <= now /\ n.at \in Nat
  BY <1>1, JobFacts DEF StampPast, Steps
<1>3. CASE verdict[j] = "demote_warn"
  <2>1. n.asked = "critical" /\ n.severity = "warn"
    BY <1>1, <1>3 DEF DecisionInv, EffectiveSeverity
  <2>2. QED
    BY <1>2, <2>1 DEF Policy!Permitted, Policy!NeverRaised, Policy!Unlisted, n
<1>4. CASE verdict[j] # "demote_warn"
  <2>1. /\ verdict[j] = "allow" => n.severity = r.severity
        /\ verdict[j] # "allow" => n.severity = "info" /\ r.severity # "info"
    BY <1>1, <1>4 DEF Passed, EffectiveSeverity, DecisionInv
  <2>2. Policy!NeverRaised(n)
    BY <1>1, <2>1 DEF Policy!NeverRaised
  <2>3. ASSUME NEW m \in sent, NEW s \in Steps, KeyOf(r, s) \in KeysOf(m),
               Cleared(KeyOf(r, s), stamp[j])
        PROVE  n.at - m.at >= TTL(s)
    <3>1. m.at + TTL(s) <= stamp[j]
      BY <2>3 DEF Cleared, KeyOf
    <3>2. m.at \in Nat /\ TTL(s) \in Nat
      BY SentFacts, TTLType
    <3>3. QED
      BY <1>1, <1>2, <3>1, <3>2
  <2>4. ASSUME n.agent \notin mixed, NEW m \in sent, m.agent = n.agent
        PROVE  /\ m.key = n.key => n.at - m.at >= DedupWindow
               /\ n.severity = "critical" /\ m.severity = "critical" => n.at - m.at >= CooldownCrit
               /\ n.severity # "info" => n.at - m.at >= CooldownAny
    <3>0. m.at \in Nat
      BY SentFacts
    <3>1. ASSUME m.key = n.key
          PROVE  n.at - m.at >= DedupWindow
      <4>1. KeyOf(r, "dedup") \in KeysOf(m)
        BY <1>1, <2>4, <3>1 DEF KeyOf, KeysOf
      <4>2. n.at - m.at >= TTL("dedup")
        BY <1>1, <1>4, <2>3, <2>4, <4>1 DEF Granted, Steps
      <4>3. QED
        BY <4>2 DEF TTL
    <3>2. ASSUME n.severity = "critical", m.severity = "critical"
          PROVE  n.at - m.at >= CooldownCrit
      <4>1. KeyOf(r, "critical") \in KeysOf(m) /\ LoudestAllowed(j)
        BY <1>1, <2>1, <2>4, <3>2 DEF KeyOf, KeysOf, LoudestAllowed
      <4>2. n.at - m.at >= TTL("critical")
        BY <1>1, <1>4, <2>3, <2>4, <4>1 DEF Granted, Steps
      <4>3. QED
        BY <4>2 DEF TTL
    <3>3. ASSUME n.severity # "info"
          PROVE  n.at - m.at >= CooldownAny
      <4>1. KeyOf(r, "any") \in KeysOf(m) /\ verdict[j] = "allow" /\ r.severity # "info"
        BY <1>1, <2>1, <2>4, <3>3 DEF KeyOf, KeysOf
      <4>2. n.at - m.at >= TTL("any")
        BY <1>1, <1>4, <2>3, <2>4, <4>1 DEF Granted, Steps
      <4>3. QED
        BY <4>2 DEF TTL
    <3>4. QED
      BY <3>1, <3>2, <3>3
  <2>5. n.agent \notin mixed => Policy!NotRepeated(n) /\ Policy!NotTooSoon(n)
    <3>1. \A m \in sent : n.at - m.at \in Int
      BY <1>2, SentFacts
    <3>2. QED
      BY <2>4, <3>1, LimitsAssumption
      DEF Policy!NotRepeated, Policy!NotTooSoon, Policy!Within, Policy!Loud
  <2>6. Global \notin mixed => Policy!WithinBudget(n)
    <3>1. {m \in sent : Policy!Loud(m) /\ Policy!SameDay(m, n)} = SentOn(Global, Day(n.at))
      <4>1. ASSUME NEW m \in sent
            PROVE  Policy!Loud(m) <=> Owner(m.agent, m.severity) = Global
        BY JobsAssumption DEF Policy!Loud, Owner, TypeOK
      <4>2. QED
        BY <4>1 DEF Policy!SameDay, SentOn, Day
    <3> SUFFICES ASSUME Global \notin mixed, Policy!Loud(n)
                 PROVE  Cardinality(SentOn(Global, Day(n.at))) < DailyLimit
      BY <3>1, PolicyCounts DEF Policy!WithinBudget
    <3>2. verdict[j] = "allow" /\ r.severity # "info"
      BY <2>1 DEF Policy!Loud
    <3>3. Owner(r.agent, r.severity) = Global /\ Cap(r.severity) = DailyLimit
      BY <3>2 DEF Owner, Cap
    <3>4. QED
      BY <1>1, <1>4, <3>2, <3>3 DEF Granted
  <2>7. n.agent \notin mixed => Policy!WithinCap(n)
    <3>1. {m \in sent : m.agent = n.agent /\ ~Policy!Loud(m) /\ Policy!SameDay(m, n)}
            = SentOn(n.agent, Day(n.at))
      <4>1. ASSUME NEW m \in sent
            PROVE  m.agent = n.agent /\ ~Policy!Loud(m) <=> Owner(m.agent, m.severity) = n.agent
        BY <1>1, JobsAssumption DEF Policy!Loud, Owner, TypeOK, Request
      <4>2. QED
        BY <4>1 DEF Policy!SameDay, SentOn, Day
    <3> SUFFICES ASSUME n.agent \notin mixed, n.asked = "info"
                 PROVE  Cardinality(SentOn(n.agent, Day(n.at))) < InfoCap
      BY <3>1, PolicyCounts DEF Policy!WithinCap
    <3>2. verdict[j] = "allow" /\ r.severity = "info"
      BY <1>1, <2>1
    <3>3. Owner(r.agent, r.severity) = n.agent /\ Cap(r.severity) = InfoCap
      BY <1>1, <3>2 DEF Owner, Cap
    <3>4. QED
      BY <1>1, <1>4, <3>2, <3>3 DEF Granted
  <2>8. QED
    BY <1>2, <2>2, <2>5, <2>6, <2>7 DEF Policy!Permitted, n
<1>5. QED
  BY <1>3, <1>4 DEF n

\* The gate keeps the five rules in the header of proactive_engine.py with any
\* number of jobs at once, whatever fails or restarts, but for what AlertPolicy
\* names: unlisted criticals, infos that come of a demotion, and the owners on
\* which two jobs were at work at once or a deletion in Redis failed.  Every
\* step of the gate is a step of the policy or changes nothing it speaks of.
THEOREM PolicyKept == Spec => PolicySpec
<1>1. Init => Policy!Init
  BY DEF Init, Policy!Init
<1>2. PolicyInv /\ [Next]_vars => [Policy!Next]_(Policy!vars)
  <2> SUFFICES ASSUME PolicyInv, [Next]_vars PROVE [Policy!Next]_(Policy!vars)
    OBVIOUS
  <2> USE DEF PolicyInv, CountInv, RecordInv, TypeInv
  <2>1. ASSUME NEW j \in Jobs, Route(j)
        PROVE  [Policy!Next]_(Policy!vars)
    <3>1. /\ pc[j] = "route" /\ now' = now /\ sent' = sent \cup {Notice(j)}
          /\ mixed' = mixed
      BY <2>1 DEF Route
    <3>2. CASE Notice(j) \in sent
      BY <3>1, <3>2 DEF Policy!vars
    <3>3. CASE Notice(j) \notin sent
      <4>1. Notice(j) \in Policy!Notification
        <5>1. tries[j] \in 1..MaxTries
          BY <3>1 DEF Begun, Idle, TypeOK
        <5>2. req[j] \in Request /\ stamp[j] \in 0..MaxTime
          BY ReqType DEF TypeOK, Times
        <5>3. EffectiveSeverity(req[j].severity, verdict[j]) \in Severity
          BY <5>2, EffectiveSeverityType DEF Request
        <5>4. QED
          BY <5>1, <5>2, <5>3 DEF Notice, Policy!Notification, Policy!Severity, Severity, Request
      <4>2. Policy!Permitted(Notice(j))
        BY <3>1, NoticePermitted
      <4>3. Policy!Send
        BY <3>1, <3>3, <4>1, <4>2 DEF Policy!Send
      <4>4. QED
        BY <4>3 DEF Policy!Next
    <3>4. QED
      BY <3>2, <3>3
  <2>2. CASE Tick
    BY <2>2 DEF Tick, Policy!Next, Policy!Tick
  <2>3. CASE sent' = sent /\ now' = now
    <3>1. mixed \subseteq mixed'
      BY MixedGrows
    <3>2. TypeOK'
      BY TypeInvStep
    <3>3. mixed' \in SUBSET Policy!Owners
      BY <3>2 DEF TypeOK, Owners, Policy!Owners
    <3>4. QED
      BY <2>3, <3>1, <3>3 DEF Policy!Next, Policy!Excuse
  <2>4. QED
    BY <2>1, <2>2, <2>3, SentChange, ShownChange DEF Route, SetRow, Fill, Invalidate
<1>3. Spec => []PolicyInv
  BY PolicyInvariant
<1>4. QED
  BY <1>1, <1>2, <1>3, PTL DEF Spec, PolicySpec, Policy!Spec
====

---- MODULE AlertPolicy ----
(***************************************************************************)
(* What the proactive gate promises the user about the notifications that  *)
(* reach a channel, with nothing said of how the gate finds it out: the    *)
(* rules of the header of services/proactive_engine.py, stated over the    *)
(* history of what was sent.  A gate may always stay silent or say less    *)
(* loudly, so the policy only forbids.  Three things that the header       *)
(* forbids are allowed here, because the code does them:                   *)
(*   - a critical without a whitelisted reason is sent as a warning        *)
(*     whatever rules 2, 3 and 5 say (Unlisted);                           *)
(*   - an emission demoted to an info by its cooldown is sent whatever     *)
(*     rule 4 says (the cap holds for what was asked for as an info);      *)
(*   - an owner, an agent or the daily budget, on which two emissions were *)
(*     decided at once, or whose cached rows could not be dropped, is      *)
(*     excused from its rules from then on (excused).                      *)
(***************************************************************************)
EXTENDS Integers, FiniteSets

CONSTANTS
  Ids,          \* identities of emissions
  Agents,       \* event-driven agents and handlers
  Keys,         \* dedup keys
  Global,       \* the owner of the daily budget
  DailyLimit,   \* GLOBAL_DAILY_RATE_LIMIT
  InfoCap,      \* PER_AGENT_INFO_DAILY_CAP
  CooldownAny,  \* PER_AGENT_COOLDOWN_ANY, in units of the model's clock
  CooldownCrit, \* PER_AGENT_COOLDOWN_CRIT
  DedupWindow,  \* DEDUP_WINDOW
  DayLength,    \* length of a UTC day
  MaxTime       \* bound on the clock

VARIABLES
  now,     \* the clock
  sent,    \* every notification handed to the router so far
  excused  \* the owners whose rules no longer bind

vars == <<now, sent, excused>>

Owners == Agents \cup {Global}

Severity == {"info", "warn", "critical"}

\* asked is the severity the agent requested, severity the one that was sent,
\* at the time at which the gate let it pass.
Notification ==
  [id: Ids, agent: Agents, key: Keys, asked: Severity, severity: Severity,
   at: 0..MaxTime]

\* A critical that reaches the user as a warning was not whitelisted: rule 1
\* decides before the other rules are looked at.
Unlisted(n) == n.asked = "critical" /\ n.severity = "warn"

Loud(n) == n.severity # "info"

Within(window, m, n) == n.at - m.at < window

SameDay(m, n) == m.at \div DayLength = n.at \div DayLength

\* Rule 1: a demotion never raises the severity.
NeverRaised(n) ==
  \/ n.severity = n.asked
  \/ n.severity = "info"
  \/ Unlisted(n)

\* Rule 2: one notification per agent and dedup key in the dedup window.
NotRepeated(n) ==
  \A m \in sent :
    m.agent = n.agent /\ m.key = n.key => ~Within(DedupWindow, m, n)

\* Rule 3: no two criticals of an agent within the critical cooldown, and
\* nothing loud of an agent within the cooldown after anything of it.
NotTooSoon(n) ==
  \A m \in sent :
    m.agent = n.agent =>
      /\ n.severity = "critical" /\ m.severity = "critical"
           => ~Within(CooldownCrit, m, n)
      /\ Loud(n) => ~Within(CooldownAny, m, n)

\* Rule 4: the daily cap on the infos of an agent.
WithinCap(n) ==
  n.asked = "info" =>
    Cardinality({m \in sent : m.agent = n.agent /\ ~Loud(m) /\ SameDay(m, n)})
      < InfoCap

\* Rule 5: the daily budget of loud notifications, across all agents.
WithinBudget(n) ==
  Loud(n) => Cardinality({m \in sent : Loud(m) /\ SameDay(m, n)}) < DailyLimit

Permitted(n) ==
  /\ n.at <= now
  /\ NeverRaised(n)
  /\ \/ Unlisted(n)
     \/ /\ \/ n.agent \in excused
           \/ NotRepeated(n) /\ NotTooSoon(n) /\ WithinCap(n)
        /\ Global \in excused \/ WithinBudget(n)

Init ==
  /\ now = 0
  /\ sent = {}
  /\ excused = {}

Tick ==
  /\ now < MaxTime
  /\ now' = now + 1
  /\ UNCHANGED <<sent, excused>>

Send ==
  /\ UNCHANGED <<now, excused>>
  /\ \E n \in sent' \ sent :
       /\ sent' = sent \cup {n}
       /\ n \in Notification
       /\ Permitted(n)

\* Two emissions are decided at once.  An excuse is never taken back.
Excuse ==
  /\ excused' \in SUBSET Owners
  /\ excused \subseteq excused'
  /\ UNCHANGED <<now, sent>>

Next == Tick \/ Send \/ Excuse

Spec == Init /\ [][Next]_vars
====

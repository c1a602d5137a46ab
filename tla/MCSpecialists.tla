---- MODULE MCSpecialists ----
(***************************************************************************)
(* Specialists for TLC: two runs and one reader of the log.                *)
(***************************************************************************)
EXTENDS Specialists

CONSTANTS r1, r2

MCRuns == {r1, r2}
MCTimes == {0, 1, 2, 4}

Morning(zone) == [from |-> 1, to |-> 4, zone |-> zone]

AskIn(zone, agent, mode, flags, events) ==
  [agent |-> agent, mode |-> mode, flags |-> flags,
   window |-> Morning(zone), events |-> events]

AskOf(agent, mode, flags, events) == AskIn(0, agent, mode, flags, events)

Plain(agent, modes, flagsets) ==
  {AskOf(agent, m, f, {}) : m \in modes, f \in flagsets}

\* Agents that may send, with and without leave.
Senders ==
  UNION {Plain(a, Modes[a], {{}, {"send"}}) :
           a \in {"echo", "pm", "catch", "reach", "sentinel", "mark"}}

Titans ==
  Plain("titan", {"vercel"}, {{}, {"qt_passed"}, {"qt_passed", "auto_rollback"}})
    \cup Plain("titan", {"vercel", "ssh", "other"},
               {{"qt_passed", "auto_rollback", "previous"}})

Others ==
  UNION {Plain(a, Modes[a], {{}}) : a \in {"qt", "raw", "forge", "pulse", "general"}}

Calendars ==
  Plain("calendar", Modes.calendar \ {"find"}, {{}})
    \cup Plain("calendar", {"create"}, {{"attendees"}, {"attendees", "send"}})

\* Calendars of up to so many events, one of them a whole day.
Diaries(zones, n) ==
  LET Some == {e \in Events(MCTimes, zones) : e.timed /\ e.from < e.to}
              \cup {[from |-> 0, to |-> 4, zone |-> 0, timed |-> FALSE]}
  IN {s \in SUBSET Some : Cardinality(s) <= n}

Find(zone, diary) == AskIn(zone, "calendar", "find", {}, diary)

\* Three events in one zone, or two in the zones of the east or of the west.
Finds == {Find(0, d) : d \in Diaries({0}, 3)}
           \cup {Find(z, d) : z \in {1, -1}, d \in Diaries({1}, 2) \cup Diaries({-2, -1}, 2)}

Pair(x, y) == [r \in MCRuns |-> IF r = r1 THEN x ELSE y]

MCLoads ==
  LET general == AskOf("general", "any", {}, {})
      malformed == AskOf("calendar", "malformed", {}, {})
      titan == AskOf("titan", "vercel", {"qt_passed", "auto_rollback", "previous"}, {})
      create == AskOf("calendar", "create", {}, {})
  IN {Pair(x, malformed) :
        x \in Senders \cup Titans \cup Others \cup Calendars \cup Finds}
       \cup {Pair(titan, titan), Pair(create, create), Pair(general, general)}

\* A search beside a malformed one, for the run on zones.
ZonedLoads ==
  LET malformed == AskOf("calendar", "malformed", {}, {})
  IN {Pair(Find(0, d), malformed) : d \in Diaries({0, 1}, 2)}
====

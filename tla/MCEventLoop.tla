---- MODULE MCEventLoop ----
(***************************************************************************)
(* EventLoop for TLC: the jobs that share a list or feed each other, two   *)
(* or three at a time; a travel planner fills the place of a third.        *)
(***************************************************************************)
EXTENDS EventLoop

CONSTANTS j1, j2, j3, m1, m2, m3, t1, t2, a1, a2, a3

MCJobs == {j1, j2, j3}
MCDimensions == <<"sleep", "commitments">>
MCClients == {m1, t1}
MCAddressed == {t2}

Trio(x, y, z) == [j \in MCJobs |-> CASE j = j1 -> x [] j = j2 -> y [] j = j3 -> z]
Duo(x, y) == Trio(x, y, "absent")

Quiet(kinds) ==
  [kind |-> kinds, thread |-> NoMail, mails |-> <<>>, leaving |-> {}, queue |-> <<>>,
   history |-> <<>>, journal |-> <<>>, articles |-> <<>>, today |-> 0]

Mails ==
  {[Quiet(Duo("poll", "poll")) EXCEPT !.mails = <<m2, m1>>],
   [Quiet(Duo("poll", "absent")) EXCEPT !.mails = <<m2, m1, m3>>, !.leaving = {m1, m3}],
   [Quiet(Duo("poll", "gmail")) EXCEPT !.mails = <<m1, m2>>, !.leaving = {m2}],
   [Quiet(Trio("poll", "gmail", "triage")) EXCEPT !.mails = <<m1>>],
   [Quiet(Duo("poll", "poll")) EXCEPT !.mails = <<m2, m1, m3>>],
   [Quiet(Trio("gmail", "triage", "triage")) EXCEPT !.mails = <<m1, m2>>]}

FollowUps ==
  {[Quiet(Duo("scan", "outbound")) EXCEPT !.queue = <<t2>>, !.thread = t1],
   [Quiet(Trio("outbound", "outbound", "scan")) EXCEPT !.thread = t1],
   [Quiet(Duo("scan", "scan")) EXCEPT !.queue = <<t1, t2>>]}

\* Every journal of up to three lines for one dimension, of up to two for both;
\* lines may be in any order, and of one day.
Journals ==
  UNION {[1 .. n -> [day : 1 .. 3, n : SUBSET {"sleep"}]] : n \in 0 .. 3}
    \cup [1 .. 2 -> [day : 1 .. 2, n : SUBSET ToSet(MCDimensions)]]

Bad == <<[day |-> 1, n |-> ToSet(MCDimensions)], [day |-> 2, n |-> {"sleep"}]>>
Given(day, type) == [dim |-> "sleep", type |-> type, at |-> day]
Spent == <<Given(0, "nudge"), Given(0, "reframe"), Given(1, "action")>>

\* Over the days with two jobs, and on the last day with one.
Health ==
  {[Quiet(Duo("health", "absent")) EXCEPT !.journal = journal, !.today = MaxDay] :
     journal \in Journals}
  \cup {[Quiet(Duo("health", "health")) EXCEPT !.journal = Bad] ,
        [Quiet(Duo("health", "health")) EXCEPT !.journal = Bad, !.history = Spent,
                                               !.today = 1]}

Feeds ==
  {[Quiet(Duo("funded", "funded")) EXCEPT !.articles = <<a1, a2>>],
   [Quiet(Duo("funded", "absent")) EXCEPT !.articles = <<a1, a2, a3>>]}

Digests ==
  {Quiet(Trio("daily_briefing", "daily_briefing", "travel_planner")),
   Quiet(Trio("portfolio_watcher", "tax_helper", "expense_auditor")),
   Quiet(Duo("relationship_maintenance", "relationship_maintenance"))}

MCLoads == Mails \cup FollowUps \cup Health \cup Feeds \cup Digests
====

---- MODULE EventLoop ----
(***************************************************************************)
(* The jobs of the ARQ worker that watch mail, threads, news and the       *)
(* health journal (workers/tasks, workers/handlers, the event-driven       *)
(* agents): the fallback poll and the webhook that dispatch new mail,      *)
(* reply triage, the follow-up queue, funded news, health, and the digest  *)
(* handlers.  They share lists in agent_state, each read at the start of a *)
(* job and written back whole at its end, and the gate, which is           *)
(* ProactiveGate's and is one step here: an alert may be suppressed or     *)
(* demoted.                                                                *)
(*                                                                         *)
(* A step is one await with the code up to the next one.  Any of them may  *)
(* raise or run into ARQ's job_timeout, and the worker may restart: ARQ    *)
(* then runs its unfinished jobs again (5 tries, more than MaxTrouble).    *)
(***************************************************************************)
EXTENDS Sifting, FiniteSets, SequencesExt, Bags

CONSTANTS
  Jobs,        \* jobs that may run side by side
  Loads,       \* what the jobs are, and what they find
  NoMail, NoVerdict,
  Clients,     \* mails and threads of a client of an active project
  Addressed,   \* threads whose entry in the queue has an address
  Limit,       \* mails the poll lists, 20 in the code
  Window,      \* ids the poll remembers, 100 in the code
  SeenCap,     \* articles remembered, _SEEN_CAP, 1000 in the code
  Dimensions,  \* _DIMENSIONS, three in the code
  Threshold,   \* _STREAK_THRESHOLD, 3 in the code
  Recent,      \* days of the journal that are looked at, 7 in the code
  RecentDays,  \* _INTERVENTION_RECENT_DAYS, 7 in the code
  MaxDay,      \* bound on the days
  MaxTrouble   \* bound on errors, timeouts, restarts and lapsed rows

ASSUME LoopAssumption ==
  /\ Limit \in Nat \ {0} /\ Window \in Nat /\ Window >= Limit
  /\ SeenCap \in Nat \ {0} /\ Threshold \in Nat \ {0}
  /\ Recent \in Nat /\ Recent >= Threshold
  /\ RecentDays \in Nat /\ MaxDay \in Nat /\ MaxTrouble \in Nat
  /\ Dimensions \in Seq(STRING) /\ IsInjective(Dimensions)

Handlers ==
  {"daily_briefing", "portfolio_watcher", "expense_auditor", "tax_helper",
   "relationship_maintenance", "travel_planner"}
Kinds ==
  {"poll", "gmail", "triage", "outbound", "scan", "health", "funded", "absent"} \cup Handlers

Types == <<"nudge", "reframe", "action">>
Interventions == [dim : ToSet(Dimensions), type : ToSet(Types), at : 0 .. MaxDay]

\* A line of the health journal; n is the dimensions marked N.
Lines == [day : Nat, n : SUBSET ToSet(Dimensions)]

ASSUME LoadAssumption ==
  \A l \in Loads :
    /\ l.kind \in [Jobs -> Kinds]
    /\ l.mails \in Seq(ToSet(l.mails)) /\ IsInjective(l.mails)
    /\ l.queue \in Seq(ToSet(l.queue)) /\ l.articles \in Seq(ToSet(l.articles))
    /\ l.history \in Seq(Interventions) /\ l.journal \in Seq(Lines)
    /\ \A i, k \in DOMAIN l.history : i < k => l.history[i].at <= l.history[k].at
    /\ l.today \in 0 .. MaxDay

VARIABLES
  load,      \* [kind, thread, mails, leaving, queue, history, journal, articles, today]
  pc,        \* what each job awaits
  mail,      \* the mail a triage was dispatched for
  verdict,   \* its classification
  copy,      \* the list a job read
  todo,      \* what it still has to go through
  kept,      \* what it will write
  based,     \* items of the runs its copy builds on, a history
  did,       \* items it acted on itself, a history
  rows,      \* agent_state: the lists of the agents
  covers,    \* items of the runs that a list builds on, a history
  acted,     \* items that were ever acted on, a history
  cache,     \* agent_state: last_classified
  waiting,   \* the dispatch jobs in ARQ's queue, a bag of mails
  mailbox,   \* mails in the order of their arrival
  gone,      \* mails that were deleted or moved out of what the poll lists
  old,       \* mails over 72 hours, threads over 5 days
  replied,   \* threads that were answered
  today,     \* the day, for the interventions
  alerts,    \* what the router got: [key, severity]
  trouble

local == <<mail, verdict, copy, todo, kept, based, did>>
state == <<rows, covers, acted, cache>>
world == <<waiting, mailbox, gone, old, replied, today, alerts, trouble>>
vars == <<load, pc, local, state, world>>

Lists == {"poll", "followup", "health", "funded"}
Kind(j) == load.kind[j]

ListOf(j) ==
  CASE Kind(j) \in {"poll", "gmail"} -> "poll"
    [] Kind(j) \in {"outbound", "scan"} -> "followup"
    [] Kind(j) = "health" -> "health"
    [] Kind(j) = "funded" -> "funded"

Ended == {"done", "failed"}
Running(j) == pc[j] \notin Ended \cup {"idle"}

Init ==
  /\ load \in Loads
  /\ pc = [j \in Jobs |-> "idle"]
  /\ mail = [j \in Jobs |-> NoMail]
  /\ verdict = [j \in Jobs |-> NoVerdict]
  /\ copy = [j \in Jobs |-> <<>>]
  /\ todo = [j \in Jobs |-> <<>>]
  /\ kept = [j \in Jobs |-> <<>>]
  /\ based = [j \in Jobs |-> {}]
  /\ did = [j \in Jobs |-> {}]
  /\ rows = [poll |-> <<>>, followup |-> load.queue, health |-> load.history,
             funded |-> <<>>]
  /\ covers = [l \in Lists |-> ToSet(rows[l])]
  /\ acted = covers
  /\ cache = [m \in ToSet(load.mails) |-> NoVerdict]
  /\ waiting = EmptyBag
  /\ mailbox = <<>>
  /\ gone = {}
  /\ old = {}
  /\ replied = {}
  /\ today = load.today
  /\ alerts = {}
  /\ trouble = 0

----
\* Jobs

Go(j, l) == pc' = [pc EXCEPT ![j] = l]

Opening(j) ==
  CASE Kind(j) = "gmail" -> "history"
    [] Kind(j) = "triage" -> "cached"
    [] Kind(j) = "health" -> "journal"
    [] Kind(j) \in Handlers -> "gather"
    [] OTHER -> "read"

\* did is of one run of a job.
Open(j) ==
  /\ Go(j, Opening(j))
  /\ did' = [did EXCEPT ![j] = {}]
  /\ UNCHANGED <<load, verdict, copy, todo, kept, based, state, mailbox, gone,
                 old, replied, today, alerts, trouble>>

\* A verified notification becomes a job, or several.
Webhook(j) ==
  /\ pc[j] = "idle" /\ Kind(j) \in {"gmail", "outbound", "travel_planner"}
  /\ Open(j) /\ UNCHANGED <<mail, waiting>>

FileChange(j) ==
  /\ pc[j] = "idle" /\ Kind(j) = "health"
  /\ Open(j) /\ UNCHANGED <<mail, waiting>>

\* The poll's cron comes every five minutes, the others' once a day or less.
Cron(j) ==
  /\ Kind(j) \in {"poll", "scan", "health", "funded"} \cup (Handlers \ {"travel_planner"})
  /\ pc[j] = "idle" \/ (Kind(j) = "poll" /\ pc[j] \in Ended)
  /\ Open(j) /\ UNCHANGED <<mail, waiting>>

\* dispatch_event_to_agent, for a mail in ARQ's queue.
Dispatch(j) ==
  /\ pc[j] = "idle" /\ Kind(j) = "triage"
  /\ \E m \in BagToSet(waiting) :
       /\ waiting' = waiting (-) SetToBag({m})
       /\ mail' = [mail EXCEPT ![j] = m]
  /\ Open(j)

Fire(j) == Webhook(j) \/ FileChange(j) \/ Cron(j) \/ Dispatch(j)

Trouble == trouble < MaxTrouble /\ trouble' = trouble + 1

\* An error that nothing in the job catches, or the end of its time.
Break(j) ==
  /\ Running(j) /\ Trouble
  /\ Go(j, "failed")
  /\ UNCHANGED <<load, local, state, waiting, mailbox, gone, old, replied, today, alerts>>

Restart ==
  /\ Trouble
  /\ pc' = [j \in Jobs |-> IF Running(j) THEN Opening(j) ELSE pc[j]]
  /\ did' = [j \in Jobs |-> IF Running(j) THEN {} ELSE did[j]]
  /\ UNCHANGED <<load, mail, verdict, copy, todo, kept, based, state, waiting,
                 mailbox, gone, old, replied, today, alerts>>

----
\* agent_state, and the gate

\* Seeded bug: the list is not cut.
Remembered_Whole(seen, new) == new \o seen

\* The newest ids first, cut to the window.
Remembered(seen, new) ==
  SubSeq(new \o seen, 1, IF Len(new \o seen) < Window THEN Len(new \o seen) ELSE Window)

\* The last of them, in the order they were met.
Capped(seen, new) ==
  LET all == seen \o new
  IN SubSeq(all, IF Len(all) > SeenCap THEN Len(all) - SeenCap + 1 ELSE 1, Len(all))

\* The queue is written as it was kept; the other lists grow.
Merged(j) ==
  CASE Kind(j) = "poll" -> Remembered(copy[j], kept[j])
    [] Kind(j) = "funded" -> Capped(copy[j], kept[j])
    [] Kind(j) \in {"health", "outbound"} -> copy[j] \o kept[j]
    [] Kind(j) = "scan" -> kept[j]

\* Of a queue that was read, the answered threads are no longer expected.
Expected(j) ==
  IF Kind(j) = "scan" THEN based[j] \ replied ELSE based[j] \cup did[j]

WriteList(j) ==
  /\ rows' = [rows EXCEPT ![ListOf(j)] = Merged(j)]
  /\ covers' = [covers EXCEPT ![ListOf(j)] = Expected(j)]

Acts(j, item) ==
  /\ did' = [did EXCEPT ![j] = @ \cup {item}]
  /\ acted' = [acted EXCEPT ![ListOf(j)] = @ \cup {item}]

NoHigher(severity) ==
  CASE severity = "critical" -> {"critical", "warn", "info"}
    [] severity = "warn" -> {"warn", "info"}
    [] severity = "info" -> {"info"}

\* EventDrivenAgent.emit, HandlerContext.emit_info: the gate may say no.
Emit(key, severity) ==
  \/ UNCHANGED alerts
  \/ \E s \in NoHigher(severity) : alerts' = alerts \cup {[key |-> key, severity |-> s]}

\* A list with a TTL lapses when nobody has written it for long.
Lapse(l) ==
  /\ Trouble
  /\ l \in {"poll", "funded"} /\ rows[l] # <<>>
  /\ rows' = [rows EXCEPT ![l] = <<>>]
  /\ covers' = [covers EXCEPT ![l] = {}]
  /\ UNCHANGED <<load, pc, local, acted, cache, waiting, mailbox, gone, old, replied,
                 today, alerts>>

----
\* The first step of the jobs that keep a list

\* What a job goes through once it has read its list.
Agenda(j, list) ==
  CASE Kind(j) = "outbound" -> IF load.thread \in ToSet(list) THEN <<>> ELSE <<load.thread>>
    [] Kind(j) = "scan" -> list
    [] Kind(j) = "funded" -> load.articles
    [] OTHER -> <<>>

AfterRead(j, agenda) ==
  CASE Kind(j) = "poll" -> "list"
    [] Kind(j) = "health" -> "streaks"
    [] Kind(j) = "outbound" -> IF agenda = <<>> THEN "done" ELSE "append"
    [] Kind(j) = "scan" -> IF agenda = <<>> THEN "done" ELSE "check"
    [] Kind(j) = "funded" -> IF agenda = <<>> THEN "done" ELSE "article"

Read(j) ==
  /\ pc[j] = "read"
  /\ LET list == rows[ListOf(j)] IN
       /\ copy' = [copy EXCEPT ![j] = list]
       /\ based' = [based EXCEPT ![j] = covers[ListOf(j)]]
       /\ todo' = [todo EXCEPT ![j] = Agenda(j, list)]
       /\ kept' = [kept EXCEPT ![j] = <<>>]
       /\ Go(j, AfterRead(j, Agenda(j, list)))
  /\ UNCHANGED <<load, mail, verdict, did, state, world>>

----
\* Mail: the poll and the webhook

\* What Gmail finds, and the newest of it.
Found == Sift(mailbox, ToSet(mailbox) \ gone)

Latest == [i \in 1 .. (IF Len(Found) < Limit THEN Len(Found) ELSE Limit) |->
             Found[Len(Found) + 1 - i]]

\* Seeded bug: there is news only if more is listed than is remembered.
News_ByCount(ids, seen) == IF Len(ids) <= Len(seen) THEN <<>>
                           ELSE Sift(ids, ToSet(ids) \ ToSet(seen))

\* Seeded bug: only the newest id that is remembered is looked at.
News_Newest(ids, seen) ==
  IF seen = <<>> THEN ids ELSE Sift(ids, ToSet(ids) \ {Head(seen)})

News(ids, seen) == Sift(ids, ToSet(ids) \ ToSet(seen))

\* Seeded bug: the ids are remembered, and then dispatched.
AfterStep_Stored(step) ==
  CASE step = "list" -> "write" [] step = "enqueue" -> "done" [] step = "write" -> "enqueue"

AfterStep(step) ==
  CASE step = "list" -> "enqueue" [] step = "enqueue" -> "write" [] step = "write" -> "done"

Write(j) ==
  /\ pc[j] = "write"
  /\ WriteList(j)
  /\ Go(j, IF Kind(j) = "poll" THEN AfterStep("write") ELSE "done")
  /\ UNCHANGED <<load, local, acted, cache, world>>

\* An error of Gmail ends the job.  ReplyTriageAgent is registered for the
\* trigger when the worker's module is imported, so `if classes` always holds.
List(j) ==
  /\ pc[j] = "list"
  /\ LET news == News(Latest, copy[j]) IN
       /\ todo' = [todo EXCEPT ![j] = news]
       /\ kept' = [kept EXCEPT ![j] = news]
       /\ Go(j, IF news = <<>> THEN "done" ELSE AfterStep("list"))
  /\ UNCHANGED <<load, mail, verdict, copy, based, did, state, world>>

\* process_gmail_webhook: the mails of the history, none if Gmail fails.
History(j) ==
  /\ pc[j] = "history"
  /\ \E ms \in SUBSET ToSet(mailbox) :
       /\ todo' = [todo EXCEPT ![j] = Sift(mailbox, ms)]
       /\ Go(j, IF ms = {} THEN "done" ELSE "enqueue")
  /\ UNCHANGED <<load, mail, verdict, copy, kept, based, did, state, world>>

Enqueue(j) ==
  /\ pc[j] = "enqueue"
  /\ LET m == Head(todo[j]) IN
       /\ waiting' = waiting (+) SetToBag({m})
       /\ Acts(j, m)
  /\ todo' = [todo EXCEPT ![j] = Tail(@)]
  /\ Go(j, IF Len(todo[j]) > 1 THEN "enqueue"
           ELSE IF Kind(j) = "poll" THEN AfterStep("enqueue") ELSE "done")
  /\ UNCHANGED <<load, mail, verdict, copy, kept, based, rows, covers, cache,
                 mailbox, gone, old, replied, today, alerts, trouble>>

----
\* Reply triage

Verdicts == [rank : {"urgent", "reply", "other"}, client : BOOLEAN]

\* Seeded bug: the model's client_match stays.
Resolved_Model(said, m) == said

\* client_match is looked up, whatever the model said of it.
Resolved(said, m) == [said EXCEPT !.client = m \in Clients]

Severity(v, aged) ==
  CASE v.rank = "urgent" /\ v.client /\ aged -> "critical"
    [] v.rank = "other" -> "info"
    [] v.rank \in {"urgent", "reply"} /\ ~(v.rank = "urgent" /\ v.client /\ aged) -> "warn"

Cached(j) ==
  /\ pc[j] = "cached"
  /\ verdict' = [verdict EXCEPT ![j] = cache[mail[j]]]
  /\ Go(j, IF cache[mail[j]] = NoVerdict THEN "classify" ELSE "triage")
  /\ UNCHANGED <<load, mail, copy, todo, kept, based, did, state, world>>

\* Fetch, context, model and lookup; an unreadable answer is "other".
Classify(j) ==
  /\ pc[j] = "classify"
  /\ \E said \in Verdicts :
       verdict' = [verdict EXCEPT ![j] = Resolved(said, mail[j])]
  /\ Go(j, "keep")
  /\ UNCHANGED <<load, mail, copy, todo, kept, based, did, state, world>>

Keep(j) ==
  /\ pc[j] = "keep"
  /\ cache' = [cache EXCEPT ![mail[j]] = verdict[j]]
  /\ Go(j, "triage")
  /\ UNCHANGED <<load, local, rows, covers, acted, world>>

MailKey(m) == <<"email", m>>

Triage(j) ==
  /\ pc[j] = "triage"
  /\ Emit(MailKey(mail[j]), Severity(verdict[j], mail[j] \in old))
  /\ Go(j, "done")
  /\ UNCHANGED <<load, local, state, waiting, mailbox, gone, old, replied, today, trouble>>

----
\* Follow-ups

\* An outbound mail is queued, unless its thread is.
AppendThread(j) ==
  /\ pc[j] = "append"
  /\ kept' = [kept EXCEPT ![j] = todo[j]]
  /\ Acts(j, Head(todo[j]))
  /\ Go(j, "write")
  /\ UNCHANGED <<load, mail, verdict, copy, todo, based, rows, covers, cache, world>>

\* Seeded bug: an entry whose check fails is not kept.
KeptBlind_Dropped(j, t) == kept[j]

\* _scan_queue: a check that raises keeps the entry for the next day.
KeptBlind(j, t) == Append(kept[j], t)

\* The next entry, or the end: the queue is written if it got shorter.
Onward(j, keep) ==
  /\ kept' = [kept EXCEPT ![j] = keep]
  /\ todo' = [todo EXCEPT ![j] = Tail(@)]
  /\ Go(j, CASE Len(todo[j]) > 1 -> "check"
             [] Len(todo[j]) = 1 /\ Len(keep) # Len(copy[j]) -> "write"
             [] Len(todo[j]) = 1 /\ Len(keep) = Len(copy[j]) -> "done")

\* Five days old, and to somebody: whether to a client is not looked up.
Due(t) == t \in old /\ t \in Addressed

\* Gmail's failure counts as no reply, so a thread that was answered may be due.
Check(j) ==
  /\ pc[j] = "check"
  /\ LET t == Head(todo[j]) IN
       \/ t \in replied /\ Onward(j, kept[j])
       \/ Onward(j, KeptBlind(j, t))
       \/ Due(t) /\ Go(j, "chase") /\ UNCHANGED <<kept, todo>>
  /\ UNCHANGED <<load, mail, verdict, copy, based, did, state, world>>

ThreadKey(t) == <<"thread", t>>

Chase(j) ==
  /\ pc[j] = "chase"
  /\ LET t == Head(todo[j]) IN
       /\ Emit(ThreadKey(t), "critical")
       /\ Onward(j, Append(kept[j], t))
  /\ UNCHANGED <<load, mail, verdict, copy, based, did, state, waiting, mailbox,
                 gone, old, replied, today, trouble>>

----
\* Health

\* Seeded bug: the order of the file.
ByDay_File(journal) == journal

Newer(journal, i, k) ==
  \/ journal[i].day > journal[k].day
  \/ journal[i].day = journal[k].day /\ i < k

\* Newest first and those of a day as in the file, as sorted(reverse=True)
\* leaves them, and no more than Recent.
ByDay(journal) ==
  LET order == CHOOSE o \in [DOMAIN journal -> DOMAIN journal] :
                 \A i, k \in DOMAIN journal : i < k => Newer(journal, o[i], o[k])
  IN [i \in 1 .. (IF Len(journal) < Recent THEN Len(journal) ELSE Recent) |->
        journal[order[i]]]

\* _compute_streaks: Ns at the head of the list.
Streak(entries, d) ==
  CHOOSE k \in 0 .. Len(entries) :
    /\ \A i \in 1 .. k : d \in entries[i].n
    /\ k < Len(entries) => d \notin entries[k + 1].n

\* What the streaks are is also written to rows that no code reads.
Journal(j) ==
  /\ pc[j] = "journal"
  /\ Go(j, IF load.journal = <<>> THEN "done" ELSE "read")
  /\ UNCHANGED <<load, local, state, world>>

Streaks(j) ==
  /\ pc[j] = "streaks"
  /\ LET dims == Sift(Dimensions, {d \in ToSet(Dimensions) :
                                    Streak(ByDay(load.journal), d) >= Threshold})
     IN /\ todo' = [todo EXCEPT ![j] = dims]
        /\ Go(j, IF dims = <<>> THEN "status" ELSE "intervene")
  /\ UNCHANGED <<load, mail, verdict, copy, kept, based, did, state, world>>

TypesOf(d, items) == {e.type : e \in {f \in items : f.dim = d}}

\* Seeded bug: the day on which a type is free again comes a day early.
Lately_Short(items, day) == {e \in items : e.at > day - RecentDays}

\* Those of the last RecentDays days.
Lately(items, day) == {e \in items : e.at >= day - RecentDays}

\* used_recently
Used(d, history) == TypesOf(d, Lately(ToSet(history), today))

\* The first type that was not used lately, or else that of the oldest entry
\* of the dimension, which is its first: the history grows at its end.
PickType(d, history) ==
  LET fresh == Sift(Types, ToSet(Types) \ Used(d, history))
  IN IF fresh # <<>> THEN Head(fresh)
     ELSE Sift(history, {e \in ToSet(history) : e.dim = d})[1].type

\* The draft, and the alert; the types of this run count as used.  The day of
\* the entry is that of the choice.
Intervene(j) ==
  /\ pc[j] = "intervene"
  /\ LET d == Head(todo[j])
         entry == [dim |-> d, type |-> PickType(d, copy[j] \o kept[j]), at |-> today]
     IN /\ Emit(<<"streak", d>>, "critical")
        /\ kept' = [kept EXCEPT ![j] = Append(@, entry)]
        /\ Acts(j, entry)
  /\ todo' = [todo EXCEPT ![j] = Tail(@)]
  /\ Go(j, IF Len(todo[j]) > 1 THEN "intervene" ELSE "write")
  /\ UNCHANGED <<load, mail, verdict, copy, based, rows, covers, cache, waiting,
                 mailbox, gone, old, replied, today, trouble>>

Status(j) ==
  /\ pc[j] = "status"
  /\ Emit(<<"streaks-info">>, "info")
  /\ Go(j, "done")
  /\ UNCHANGED <<load, local, state, waiting, mailbox, gone, old, replied, today, trouble>>

----
\* Funded news

NextArticle(j, keep) ==
  /\ kept' = [kept EXCEPT ![j] = keep]
  /\ todo' = [todo EXCEPT ![j] = Tail(@)]
  /\ Go(j, CASE Len(todo[j]) > 1 -> "article"
             [] Len(todo[j]) = 1 /\ keep # <<>> -> "write"
             [] Len(todo[j]) = 1 /\ keep = <<>> -> "done")

\* Its feed fails or times out; or it was seen; or it is new, and then it is
\* remembered whether it matches, does not, or the model fails.
Article(j) ==
  /\ pc[j] = "article"
  /\ LET a == Head(todo[j]) IN
       \/ NextArticle(j, kept[j]) /\ UNCHANGED <<did, acted>>
       \/ /\ a \notin ToSet(copy[j]) \cup ToSet(kept[j])
          /\ Acts(j, a)
          /\ \/ NextArticle(j, Append(kept[j], a))
             \/ Go(j, "offer") /\ UNCHANGED <<kept, todo>>
  /\ UNCHANGED <<load, mail, verdict, copy, based, rows, covers, cache, world>>

Offer(j) ==
  /\ pc[j] = "offer"
  /\ LET a == Head(todo[j]) IN
       /\ Emit(<<"article", a>>, "warn")
       /\ NextArticle(j, Append(kept[j], a))
  /\ UNCHANGED <<load, mail, verdict, copy, based, did, state, waiting, mailbox,
                 gone, old, replied, today, trouble>>

----
\* Handlers: what cannot be gathered is said to be unavailable, and the digest
\* goes out once for its period.  The sources of most are stubs, which raise.

Compose(j, complete) == Go(j, IF complete THEN "digest" ELSE "apology")

DailyBriefing(j) ==
  Kind(j) = "daily_briefing" /\ \E fetched \in BOOLEAN : Compose(j, fetched)
PortfolioWatcher(j) == Kind(j) = "portfolio_watcher" /\ Compose(j, FALSE)
ExpenseAuditor(j) == Kind(j) = "expense_auditor" /\ Compose(j, FALSE)
TaxHelper(j) == Kind(j) = "tax_helper" /\ Compose(j, FALSE)
RelationshipMaintenance(j) == Kind(j) = "relationship_maintenance" /\ Compose(j, FALSE)

\* The webhook hands on headers, which name no place.
TravelPlanner(j) == Kind(j) = "travel_planner" /\ Go(j, "done")

Gather(j) ==
  /\ pc[j] = "gather"
  /\ \/ DailyBriefing(j) \/ PortfolioWatcher(j) \/ ExpenseAuditor(j)
     \/ TaxHelper(j) \/ RelationshipMaintenance(j) \/ TravelPlanner(j)
  /\ UNCHANGED <<load, local, state, world>>

Digest(j) ==
  /\ pc[j] \in {"digest", "apology"}
  /\ Emit(<<Kind(j)>>, "info")
  /\ Go(j, IF pc[j] = "digest" THEN "done" ELSE "failed")
  /\ UNCHANGED <<load, local, state, waiting, mailbox, gone, old, replied, today, trouble>>

----
\* The specification

Mailing(j) == List(j) \/ History(j) \/ Enqueue(j)
Triaging(j) == Cached(j) \/ Classify(j) \/ Keep(j) \/ Triage(j)
Following(j) == AppendThread(j) \/ Check(j) \/ Chase(j)
Guarding(j) == Journal(j) \/ Streaks(j) \/ Intervene(j) \/ Status(j)
Watching(j) == Article(j) \/ Offer(j)
Handling(j) == Gather(j) \/ Digest(j)

Step(j) ==
  \/ Read(j) \/ Write(j)
  \/ Mailing(j) \/ Triaging(j) \/ Following(j) \/ Guarding(j) \/ Watching(j) \/ Handling(j)

Arrive ==
  /\ Len(mailbox) < Len(load.mails)
  /\ mailbox' = Append(mailbox, load.mails[Len(mailbox) + 1])
  /\ UNCHANGED <<load, pc, local, state, waiting, gone, old, replied, today, alerts,
                 trouble>>

Threads == (ToSet(load.queue) \cup {load.thread}) \ {NoMail}

\* Mails and threads age, where a job looks at it.
Aging ==
  {m \in ToSet(mailbox) : \E j \in Jobs : Kind(j) = "triage"}
    \cup {t \in Threads : \E j \in Jobs : Kind(j) = "scan"}

\* A mail leaves what the poll's query finds.
Vanish(m) ==
  /\ m \in load.leaving \ gone
  /\ gone' = gone \cup {m}
  /\ UNCHANGED <<load, pc, local, state, waiting, mailbox, old, replied, today, alerts,
                 trouble>>

\* Days go by, where a job looks at them.
Midnight ==
  /\ today < MaxDay
  /\ \E j \in Jobs : Kind(j) = "health"
  /\ today' = today + 1
  /\ UNCHANGED <<load, pc, local, state, waiting, mailbox, gone, old, replied, alerts,
                 trouble>>

Age(x) ==
  /\ x \notin old
  /\ old' = old \cup {x}
  /\ UNCHANGED <<load, pc, local, state, waiting, mailbox, gone, replied, today, alerts,
                 trouble>>

Reply(t) ==
  /\ t \notin replied
  /\ replied' = replied \cup {t}
  /\ UNCHANGED <<load, pc, local, state, waiting, mailbox, gone, old, today, alerts,
                 trouble>>

Next ==
  \/ \E j \in Jobs : Fire(j) \/ Step(j) \/ Break(j)
  \/ \E l \in Lists : Lapse(l)
  \/ \E x \in Aging : Age(x)
  \/ \E t \in Threads : Reply(t)
  \/ \E m \in ToSet(mailbox) : Vanish(m)
  \/ Restart \/ Arrive \/ Midnight

\* ARQ ends every job within its job_timeout and starts the poll by its cron.
Spec ==
  /\ Init /\ [][Next]_vars
  /\ \A j \in Jobs : WF_vars(Step(j)) /\ WF_vars(Kind(j) = "poll" /\ Cron(j))

----
\* Properties

AllMails == UNION {ToSet(l.mails) : l \in Loads}
Steps ==
  {"idle", "read", "write", "list", "history", "enqueue", "cached", "classify", "keep",
   "triage", "append", "check", "chase", "journal", "streaks", "intervene", "status",
   "article", "offer", "gather", "digest", "apology"} \cup Ended

Posts == ToSet(load.mails)
Correspondents == ToSet(load.queue) \cup {load.thread}
Articles == ToSet(load.articles)

StateTypes ==
  /\ load \in Loads /\ \A j \in Jobs : Kind(j) \in Kinds
  /\ pc \in [Jobs -> Steps]
  /\ mail \in [Jobs -> AllMails \cup {NoMail}]
  /\ verdict \in [Jobs -> Verdicts \cup {NoVerdict}]
  /\ cache \in [ToSet(load.mails) -> Verdicts \cup {NoVerdict}]
  /\ BagToSet(waiting) \subseteq ToSet(mailbox)
  /\ Len(rows.poll) <= Window /\ Len(rows.funded) <= SeenCap
  /\ \A a \in alerts : a.severity \in {"critical", "warn", "info"}
  /\ today \in 0 .. MaxDay
  /\ trouble \in 0 .. MaxTrouble

\* What the lists of a job hold.
ListTypes(j) ==
  /\ Kind(j) \in {"poll", "gmail"} =>
       copy[j] \in Seq(Posts) /\ todo[j] \in Seq(Posts) /\ kept[j] \in Seq(Posts)
  /\ Kind(j) \in {"outbound", "scan"} =>
       /\ copy[j] \in Seq(Correspondents) /\ todo[j] \in Seq(Correspondents)
       /\ kept[j] \in Seq(Correspondents)
  /\ Kind(j) = "health" =>
       /\ copy[j] \in Seq(Interventions) /\ kept[j] \in Seq(Interventions)
       /\ todo[j] \in Seq(ToSet(Dimensions))
  /\ Kind(j) = "funded" =>
       copy[j] \in Seq(Articles) /\ todo[j] \in Seq(Articles) /\ kept[j] \in Seq(Articles)

RowTypes ==
  /\ rows.poll \in Seq(Posts) /\ rows.followup \in Seq(Correspondents)
  /\ rows.health \in Seq(Interventions) /\ rows.funded \in Seq(Articles)

\* The state of the program and the world keep their types, and each list holds
\* what its jobs put there; the poll remembers no more than Window ids, and the
\* funded watcher no more than SeenCap.  The histories (based, did, covers,
\* acted) are left out: they hold items of the lists.
TypeOK ==
  /\ StateTypes /\ RowTypes
  /\ \A j \in Jobs : ListTypes(j)
  /\ mailbox \in Seq(Posts)

\* A list is read at the start of a job and written whole at its end, with
\* failures in between.  What leaves it is a thread that was answered, an id
\* that fell out of the poll's window and is no longer listed, an article that
\* SeenCap others have pushed out, or what a job that had read before did not
\* know of; nothing else is forgotten.  Once mails were deleted, older ones come
\* back to the listing, and an id is known until Window others push it out.
RowsKeepItems ==
  /\ \A l \in {"followup", "health"} : covers[l] \subseteq ToSet(rows[l])
  /\ Len(rows.funded) < SeenCap => covers.funded \subseteq ToSet(rows.funded)
  /\ gone = {} \/ Len(rows.poll) < Window =>
       covers.poll \cap ToSet(Latest) \subseteq ToSet(rows.poll)

\* What a list remembers as handled was handled, whatever failed, timed out or
\* restarted: a mail is in last_seen_ids only after its triage was enqueued.
RecordedIsActed ==
  \A l \in Lists : ToSet(rows[l]) \subseteq acted[l]

\* A job acts on nothing that the runs its list builds on have acted on: no
\* mail is dispatched again (once mails were deleted: until Window others have
\* pushed it out), no thread queued again, no article matched again until
\* SeenCap others have pushed it out; and an intervention comes back within
\* RecentDays only when its dimension has had all three types in that time.
NoSecondAct ==
  \A j \in Jobs :
    CASE Kind(j) = "poll" ->
           gone = {} \/ Len(copy[j]) < Window => did[j] \cap based[j] = {}
      [] Kind(j) = "outbound" -> did[j] \cap based[j] = {}
      [] Kind(j) = "funded" -> Len(copy[j]) < SeenCap => did[j] \cap based[j] = {}
      [] Kind(j) = "health" ->
           \A e \in did[j] :
             LET had == TypesOf(e.dim, {f \in based[j] : e.at - f.at <= RecentDays})
             IN e.type \in had => had = ToSet(Types)
      [] OTHER -> TRUE

\* Lines of the journal where d is marked N, newer than all where it is not.
NewestNs(d) ==
  LET journal == load.journal
  IN {i \in DOMAIN journal : /\ d \in journal[i].n
                             /\ \A k \in DOMAIN journal :
                                  d \in journal[k].n \/ Newer(journal, i, k)}

\* A critical notification has a reason in the state: an old mail of a client
\* of an active project, whatever the model says of it; a thread of five days
\* that was sent to somebody (to a client or not, which nothing asks; answered
\* or not, since a check for replies that fails counts as none); or
\* Threshold Ns in a row up to the newest day, in whatever order the journal
\* is written.
CriticalsEarned ==
  \A a \in alerts : a.severity = "critical" =>
    \/ a.key[1] = "email" /\ a.key[2] \in Clients \cap old
    \/ a.key[1] = "thread" /\ a.key[2] \in Addressed \cap old
    \/ a.key[1] = "streak" /\ Cardinality(NewestNs(a.key[2])) >= Threshold

\* With the poll running, all that it lists has been dispatched to triage, again
\* and again, although every job may fail, time out or restart: no mail stays
\* among the latest undispatched.  A mail may leave them undispatched.
EveryMailDispatched ==
  []<>((\E j \in Jobs : Kind(j) = "poll") => ToSet(Latest) \subseteq acted.poll)
====

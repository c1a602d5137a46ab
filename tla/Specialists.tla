---- MODULE Specialists ----
(***************************************************************************)
(* The specialist agents (agents/*/*_agent.py) at work: runs of process,   *)
(* side by side in one asyncio process, beside the readers of their log.   *)
(* A step is one await with the code up to the next one; awaits in a row   *)
(* that touch only the run's own data, and fail alike, are one step.       *)
(*                                                                         *)
(* Every run looks up its context, works, logs a row, gives its answer and *)
(* records its activity in a finally block.  What lies between is the      *)
(* agent's own.  What a model, a test or a service says is any of its      *)
(* outcomes; a call that raises may have had its effect.                   *)
(***************************************************************************)
EXTENDS EventLog, FreeSlot

CONSTANTS
  Loads,      \* the asks that the runs may have side by side
  NoAnswer,   \* output is None
  Unasked,    \* no free slot was looked for
  Previous,   \* the deployment that was live before
  Length,     \* the length of a slot that is looked for
  MaxItems,   \* bound on leads, tasks, action items and pages
  MaxRounds,  \* _MAX_ITERATIONS of FORGE, 10 in the code
  Threshold,  \* PATTERN_THRESHOLD, 5 in the code
  Before0,    \* observations of the pattern that there may be at the start
  MaxCancels  \* bound on the runs that are cancelled

Targets == {"vercel", "railway", "ssh"}

Modes ==
  [titan |-> Targets \cup {"other"},
   mark |-> {"github", "notion", "both", "other", "unknown"},
   qt |-> {"pytest", "npm_audit", "playwright", "lighthouse", "generate", "unknown"},
   calendar |-> {"find", "list", "create", "malformed", "unknown"},
   catch |-> {"audio", "text"}, raw |-> {"dependencies", "research"},
   forge |-> {"any"}, reach |-> {"any"}, pm |-> {"any"}, echo |-> {"any"},
   sentinel |-> {"any"}, pulse |-> {"any"}, general |-> {"any"}]

Agents == DOMAIN Modes
Flags == {"send", "qt_passed", "auto_rollback", "previous", "attendees"}

\* What an agent answers with.
Answers == [ok : BOOLEAN, held : BOOLEAN, undone : BOOLEAN,
            slot : Int \cup {Unasked, NoSlot}]

ASSUME AskAssumption ==
  \A load \in Loads : DOMAIN load = Runs /\ \A r \in Runs :
    /\ load[r].agent \in Agents
    /\ load[r].mode \in Modes[load[r].agent]
    /\ load[r].flags \subseteq Flags
    /\ load[r].window \in Windows(Int, Int)
    /\ load[r].events \subseteq Events(Int, Int) /\ IsFiniteSet(load[r].events)

\* The schema of find_free_slot asks for five minutes at least.
ASSUME SlotAssumption == Length \in Nat \ {0}

ASSUME ValueAssumption ==
  NoAnswer \notin Answers /\ NoSlot \notin Int /\ Unasked \notin Int \cup {NoSlot}

ASSUME BoundAssumption ==
  /\ MaxItems \in Nat /\ MaxRounds \in Nat \ {0}
  /\ Threshold \in Nat /\ Before0 \subseteq Nat
  /\ MaxCancels \in Nat
  /\ Previous \notin Runs

VARIABLES
  ask,       \* the input of each run
  pc,        \* what it awaits
  row,       \* the status it logs
  plan,      \* the output it gives once that is logged
  out,       \* output
  todo,      \* leads, tasks, pages or targets still to be worked on
  ready,     \* leads that can be written to
  effects,   \* what a run did to the world outside, in order
  count,     \* what it counted of that
  rounds,    \* iterations of FORGE's loop
  live,      \* what runs in production
  observed,  \* observation_count of one pattern
  seen,      \* how far a run came with its observation, a history
  extracted, \* an extraction of the pattern was started
  activity,  \* what was recorded in the knowledge base
  stopping   \* runs that were cancelled

reply == <<pc, row, plan, out>>
batch == <<todo, ready>>
deeds == <<effects, count>>
pattern == <<observed, seen, extracted>>
ending == <<activity, stopping>>
vars == <<ask, reply, batch, deeds, rounds, live, pattern, ending, logVars>>

Agent(r) == ask[r].agent
Mode(r) == ask[r].mode
Has(r, f) == f \in ask[r].flags

Answer(ok, held) == [ok |-> ok, held |-> held, undone |-> FALSE, slot |-> Unasked]
Failed == Answer(FALSE, FALSE)
Succeeded == Answer(TRUE, FALSE)
Held == Answer(TRUE, TRUE)

Ended == {"done", "stopped", "raised"}

Init ==
  /\ InitLog
  /\ ask \in Loads
  /\ pc = [r \in Runs |-> "context"]
  /\ row = [r \in Runs |-> "success"]
  /\ plan = [r \in Runs |-> NoAnswer]
  /\ out = [r \in Runs |-> NoAnswer]
  /\ todo = [r \in Runs |-> <<>>]
  /\ ready = [r \in Runs |-> <<>>]
  /\ effects = [r \in Runs |-> <<>>]
  /\ count = [r \in Runs |-> [done |-> 0, failed |-> 0]]
  /\ rounds = [r \in Runs |-> 0]
  /\ live = [t \in Targets |-> Previous]
  /\ observed \in Before0
  /\ seen = [r \in Runs |-> "none"]
  /\ extracted = FALSE
  /\ activity = [r \in Runs |-> "none"]
  /\ stopping = {}

----
\* Where a run goes next

Go(r, l) ==
  /\ pc' = [pc EXCEPT ![r] = l]
  /\ UNCHANGED <<row, plan, out>>

\* await self.log(...), then output = a.
Conclude(r, status, a) ==
  /\ pc' = [pc EXCEPT ![r] = "log"]
  /\ row' = [row EXCEPT ![r] = status]
  /\ plan' = [plan EXCEPT ![r] = a]
  /\ UNCHANGED out

\* Seeded bug: what handle_error returns is not kept.
HandleError_Dropped(r) == pc' = [pc EXCEPT ![r] = "log"] /\ UNCHANGED <<row, plan, out>>

\* output = self.handle_error(...), then the log.
HandleError(r) ==
  /\ pc' = [pc EXCEPT ![r] = "log"]
  /\ row' = [row EXCEPT ![r] = "error"]
  /\ out' = [out EXCEPT ![r] = Failed]
  /\ UNCHANGED plan

\* output = a, and nothing is logged.
Give(r, a) ==
  /\ pc' = [pc EXCEPT ![r] = "record"]
  /\ out' = [out EXCEPT ![r] = a]
  /\ UNCHANGED <<row, plan>>

Fail(r) == Conclude(r, "error", Failed)
Succeed(r) == Conclude(r, "success", Succeeded)

\* An exception that process lets pass.
Escape(r) == Go(r, "raised")

----
\* The guards before the first await

Refused(r) ==
  \/ Agent(r) = "titan" /\ (~Has(r, "qt_passed") \/ Mode(r) = "other")
  \/ Agent(r) \in {"mark", "qt"} /\ Mode(r) = "unknown"

Misasked(r) == Agent(r) = "calendar" /\ Mode(r) \in {"malformed", "unknown"}

\* Invitations go out with the user's consent only.
Preview(r) ==
  /\ Agent(r) = "calendar" /\ Mode(r) = "create"
  /\ Has(r, "attendees") /\ ~Has(r, "send")

Opening(r) ==
  CASE Agent(r) = "titan" -> "deploy"
    [] Agent(r) \in {"forge", "general"} -> "chat"
    [] Agent(r) = "reach" -> "discover"
    [] Agent(r) = "catch" -> IF Mode(r) = "audio" THEN "transcribe" ELSE "ollama"
    [] Agent(r) = "sentinel" -> "fetch"
    [] Agent(r) = "qt" -> IF Mode(r) = "generate" THEN "ollama" ELSE "test"
    [] Agent(r) = "pulse" -> "gather"
    [] Agent(r) = "raw" -> IF Mode(r) = "dependencies" THEN "scan" ELSE "ollama"
    [] Agent(r) = "calendar" -> IF Mode(r) = "create" THEN "create" ELSE "list"
    [] Agent(r) \in {"pm", "echo", "mark"} -> "ollama"

\* build_agent_context, which never raises
Begin(r) ==
  /\ pc[r] = "context"
  /\ \/ Refused(r) /\ Fail(r)
     \/ Misasked(r) /\ Give(r, Failed)
     \/ Preview(r) /\ Give(r, Held)
     \/ ~(Refused(r) \/ Misasked(r) \/ Preview(r)) /\ Go(r, Opening(r))
  /\ UNCHANGED <<ask, batch, deeds, rounds, live, pattern, ending, logVars>>

----
\* Drafts: the local model, and Claude when that raises

Items(n) == [i \in 1 .. n |-> i]

Github == 1
Notion == 2

PublishTo(r) ==
  CASE Mode(r) = "github" -> <<Github>>
    [] Mode(r) = "notion" -> <<Notion>>
    [] Mode(r) = "both" -> <<Github, Notion>>
    [] OTHER -> <<>>

\* What the parsers make of a readable draft: one mail, an issue for each task
\* or action item, one review.  An unreadable review is an empty one.
Mail == {Items(1)}
Tasks == {Items(n) : n \in 0 .. MaxItems}
ActionItems == {Items(n) : n \in 0 .. MaxItems}
Comments == {Items(1)}

\* What there is to send of it.
Batches(r) ==
  CASE Agent(r) = "echo" -> Mail
    [] Agent(r) = "pm" -> Tasks
    [] Agent(r) = "catch" -> ActionItems
    [] Agent(r) = "sentinel" -> Comments
    [] Agent(r) = "mark" -> {PublishTo(r)}

\* Seeded bug: PM takes any run of the loop for a success.
SentWell_Always(r, c) == Agent(r) \in {"pm", "reach"} \/ c.done > 0 \/ c.failed = 0

\* success, once all is sent: one creation is enough for PM and MARK, CATCH
\* may have nothing to create, and REACH never fails.
SentWell(r, c) ==
  CASE Agent(r) = "reach" -> TRUE
    [] Agent(r) \in {"pm", "mark"} -> c.done > 0
    [] Agent(r) = "catch" -> c.done > 0 \/ c.failed = 0
    [] Agent(r) \in {"echo", "sentinel"} -> c.failed = 0

\* The next item, or the end of the loop.
SendOrEnd(r, rest, c) ==
  IF rest # <<>> THEN Go(r, "send")
  ELSE IF SentWell(r, c) THEN Succeed(r) ELSE Fail(r)

\* The draft is shown, and nothing is sent: a later run with send drafts anew.
Ask(r) == Conclude(r, "success", Held)

\* Seeded bug: what was drafted is sent at once.
Deliverable_Unasked(r) ==
  \E b \in Batches(r) : todo' = [todo EXCEPT ![r] = b] /\ SendOrEnd(r, b, count[r])

Deliverable(r) ==
  \E b \in Batches(r) :
    IF Has(r, "send")
    THEN todo' = [todo EXCEPT ![r] = b] /\ SendOrEnd(r, b, count[r])
    ELSE Ask(r) /\ UNCHANGED todo

Parses(r) == Agent(r) \in {"echo", "pm", "catch"}

Drafted(r) ==
  \/ Parses(r) /\ Fail(r) /\ UNCHANGED todo
  \/ Agent(r) \in {"echo", "pm", "catch", "mark"} /\ Deliverable(r)
  \/ Agent(r) \in {"qt", "pulse"} /\ Succeed(r) /\ UNCHANGED todo
  \/ Agent(r) = "raw" /\ Go(r, "keep") /\ UNCHANGED todo

Ollama(r) ==
  /\ pc[r] = "ollama"
  /\ \/ Drafted(r)
     \/ Go(r, "claude") /\ UNCHANGED todo
  /\ UNCHANGED <<ask, ready, deeds, rounds, live, pattern, ending, logVars>>

\* ECHO, PM and CATCH set their output before they log that Claude failed.
ClaudeFails(r) == IF Parses(r) THEN HandleError(r) ELSE Fail(r)

Claude(r) ==
  /\ pc[r] = "claude"
  /\ \/ Drafted(r)
     \/ ClaudeFails(r) /\ UNCHANGED todo
  /\ UNCHANGED <<ask, ready, deeds, rounds, live, pattern, ending, logVars>>

\* CATCH: no handler catches what transcribe raises.
Transcribe(r) ==
  /\ pc[r] = "transcribe"
  /\ Go(r, "ollama") \/ Fail(r) \/ Escape(r)
  /\ UNCHANGED <<ask, batch, deeds, rounds, live, pattern, ending, logVars>>

\* SENTINEL: two GETs, then the review; one that does not parse is empty.
FetchPr(r) ==
  /\ pc[r] = "fetch"
  /\ Go(r, "review") \/ Fail(r)
  /\ UNCHANGED <<ask, batch, deeds, rounds, live, pattern, ending, logVars>>

Review(r) ==
  /\ pc[r] = "review"
  /\ \/ Deliverable(r)
     \/ Fail(r) /\ UNCHANGED todo
  /\ UNCHANGED <<ask, ready, deeds, rounds, live, pattern, ending, logVars>>

----
\* REACH: leads, a draft for each, mails

\* An empty or unreadable list of leads is an error.
Leads == {Items(n) : n \in 1 .. MaxItems}

Discover(r) ==
  /\ pc[r] = "discover"
  /\ \/ Fail(r) /\ UNCHANGED todo
     \/ \E leads \in Leads :
          /\ todo' = [todo EXCEPT ![r] = leads]
          /\ Go(r, "personalise")
  /\ UNCHANGED <<ask, ready, deeds, rounds, live, pattern, ending, logVars>>

\* A lead without a draft or an address stays in the result and is skipped
\* when mails are sent.
Written(r, leads) ==
  /\ ready' = [ready EXCEPT ![r] = leads]
  /\ IF Len(todo[r]) > 1
     THEN Go(r, "personalise") /\ todo' = [todo EXCEPT ![r] = Tail(@)]
     ELSE IF Has(r, "send")
          THEN SendOrEnd(r, leads, count[r]) /\ todo' = [todo EXCEPT ![r] = leads]
          ELSE Ask(r) /\ todo' = [todo EXCEPT ![r] = <<>>]

\* A draft may turn out unreadable, and is none then.
Personalised(r) ==
  Written(r, ready[r]) \/ Written(r, Append(ready[r], Head(todo[r])))

\* An unreadable draft of the local model is no draft: Claude is asked.
Personalise(r) ==
  /\ pc[r] = "personalise"
  /\ \/ Personalised(r)
     \/ Go(r, "rewrite") /\ UNCHANGED batch
  /\ UNCHANGED <<ask, deeds, rounds, live, pattern, ending, logVars>>

Rewrite(r) ==
  /\ pc[r] = "rewrite"
  /\ Personalised(r)
  /\ UNCHANGED <<ask, deeds, rounds, live, pattern, ending, logVars>>

----
\* Sending, item by item: an error is counted and the loop goes on.

Effect(r, i) == effects' = [effects EXCEPT ![r] = Append(@, i)]

Counted(r, sent) ==
  IF sent THEN [count[r] EXCEPT !.done = @ + 1] ELSE [count[r] EXCEPT !.failed = @ + 1]

\* Seeded bug: an item that failed is tried once more.
Rest_Retries(r, sent) ==
  IF sent \/ count[r].failed > 0 THEN Tail(todo[r]) ELSE todo[r]

Rest(r, sent) == Tail(todo[r])

Send(r) ==
  /\ pc[r] = "send"
  /\ \E sent \in BOOLEAN :
       /\ \/ Effect(r, Head(todo[r]))
          \/ ~sent /\ UNCHANGED effects
       /\ count' = [count EXCEPT ![r] = Counted(r, sent)]
       /\ todo' = [todo EXCEPT ![r] = Rest(r, sent)]
       /\ SendOrEnd(r, Rest(r, sent), Counted(r, sent))
  /\ UNCHANGED <<ask, ready, rounds, live, pattern, ending, logVars>>

----
\* TITAN: the target is deployed to before anybody is asked.

Put(r, version) == live' = [live EXCEPT ![Mode(r)] = version]

Abort(r, undone) == [Failed EXCEPT !.undone = undone]

\* The plan is kept while the alert is sent.
Alarm(r, undone) ==
  /\ pc' = [pc EXCEPT ![r] = "alert"]
  /\ row' = [row EXCEPT ![r] = "error"]
  /\ plan' = [plan EXCEPT ![r] = Abort(r, undone)]
  /\ UNCHANGED out

\* Without what the rollback needs in the context it is skipped.
RollsBack(r) == Has(r, "auto_rollback") /\ Has(r, "previous")

Deploy(r) ==
  /\ pc[r] = "deploy"
  /\ \/ Put(r, r) /\ Ask(r)
     \/ /\ Put(r, r) \/ UNCHANGED live
        /\ IF RollsBack(r) THEN Go(r, "rollback") ELSE Alarm(r, FALSE)
  /\ UNCHANGED <<ask, batch, deeds, rounds, pattern, ending, logVars>>

\* Seeded bug: a rollback that raised is reported like one that worked.
RollbackFails_Unseen(r) == Alarm(r, TRUE)

RollbackFails(r) == Alarm(r, FALSE)

Rollback(r) ==
  /\ pc[r] = "rollback"
  /\ \/ Put(r, Previous) /\ Alarm(r, TRUE)
     \/ (Put(r, Previous) \/ UNCHANGED live) /\ RollbackFails(r)
  /\ UNCHANGED <<ask, batch, deeds, rounds, pattern, ending, logVars>>

\* notify, whose errors are let pass
Alert(r) ==
  /\ pc[r] = "alert"
  /\ Go(r, "log")
  /\ UNCHANGED <<ask, batch, deeds, rounds, live, pattern, ending, logVars>>

----
\* FORGE and GENERAL

\* Seeded bug: a round that used tools is not counted.
Round_Tools(r) == rounds

Round(r) == [rounds EXCEPT ![r] = @ + 1]

\* end_turn, another stop reason, an error, or tools.
Chat(r) ==
  /\ pc[r] = "chat"
  /\ \/ Succeed(r)
     \/ HandleError(r)
     \/ Agent(r) = "forge" /\ Give(r, Succeeded)
     \/ Agent(r) = "forge" /\ Go(r, "tools")
  /\ UNCHANGED <<ask, batch, deeds, rounds, live, pattern, ending, logVars>>

\* Whether anything was written is told apart, and not how often.
Write(r) == effects' = [effects EXCEPT ![r] = <<1>>]

\* The tools of one reply write as they go; a failing tool is an answer to the
\* model, and a call that cannot even be read ends the run.
Tools(r) ==
  /\ pc[r] = "tools"
  /\ Write(r) \/ UNCHANGED effects
  /\ rounds' = Round(r)
  /\ \/ rounds'[r] < MaxRounds /\ Go(r, "chat")
     \/ rounds'[r] = MaxRounds /\ Give(r, Failed)
     \/ HandleError(r)
  /\ UNCHANGED <<ask, batch, count, live, pattern, ending, logVars>>

----
\* QT, PULSE and RAW

\* A report that nobody can read counts nothing: npm audit passes with it, and
\* lighthouse does not.
Reports == {"clean", "bad", "unreadable"}

Passed(mode, exited0, report) ==
  CASE mode = "pytest" -> exited0
    [] mode = "npm_audit" -> report # "bad"
    [] mode = "playwright" -> exited0 /\ report # "bad"
    [] mode = "lighthouse" -> exited0 /\ report = "clean"

\* The row says that the tests ran, the answer whether they passed.
Test(r) ==
  /\ pc[r] = "test"
  /\ \/ \E exited0 \in BOOLEAN, report \in Reports :
          Conclude(r, "success", Answer(Passed(Mode(r), exited0, report), FALSE))
     \/ Fail(r)
  /\ UNCHANGED <<ask, batch, deeds, rounds, live, pattern, ending, logVars>>

\* Five sources; only what a page raises besides BrowserError is not caught.
Gather(r) ==
  /\ pc[r] = "gather"
  /\ Go(r, "ollama") \/ Escape(r)
  /\ UNCHANGED <<ask, batch, deeds, rounds, live, pattern, ending, logVars>>

\* pip list, which never raises
Scan(r) ==
  /\ pc[r] = "scan"
  /\ Go(r, "ollama")
  /\ UNCHANGED <<ask, batch, deeds, rounds, live, pattern, ending, logVars>>

\* The summary and the packages go to memory and to the knowledge base, and
\* errors are let pass; research then reads its pages.
Keep(r) ==
  /\ pc[r] = "keep"
  /\ \E n \in (IF Mode(r) = "research" THEN 0 .. MaxItems ELSE {0}) :
       /\ todo' = [todo EXCEPT ![r] = Items(n)]
       /\ IF n = 0 THEN Succeed(r) ELSE Go(r, "page")
  /\ UNCHANGED <<ask, ready, deeds, rounds, live, pattern, ending, logVars>>

\* A page is read, summed up and kept, or skipped; an error of fetch that is
\* no BrowserError ends the run.
Page(r) ==
  /\ pc[r] = "page"
  /\ todo' = [todo EXCEPT ![r] = Tail(@)]
  /\ \/ Len(todo[r]) > 1 /\ Go(r, "page")
     \/ Len(todo[r]) = 1 /\ Succeed(r)
     \/ Fail(r)
  /\ UNCHANGED <<ask, ready, deeds, rounds, live, pattern, ending, logVars>>

----
\* CALENDAR, which logs no row

Event == 1
Mirrored == 2

Slot(r) == FreeSlotOf(ask[r].window, Length, ask[r].events)

ListEvents(r) ==
  /\ pc[r] = "list"
  /\ \/ Give(r, Failed)
     \/ Mode(r) = "list" /\ Give(r, Succeeded)
     \/ /\ Mode(r) = "find" /\ ~Incomparable(ask[r].window, ask[r].events)
        /\ Give(r, [Answer(Slot(r) # NoSlot, FALSE) EXCEPT !.slot = Slot(r)])
  /\ UNCHANGED <<ask, batch, deeds, rounds, live, pattern, ending, logVars>>

CreateEvent(r) ==
  /\ pc[r] = "create"
  /\ \/ Effect(r, Event) /\ Go(r, "mirror")
     \/ (Effect(r, Event) \/ UNCHANGED effects) /\ Give(r, Failed)
  /\ UNCHANGED <<ask, batch, count, rounds, live, pattern, ending, logVars>>

\* A MacControllerError is a warning; another error fails the run although
\* the event is in the calendar.  Blocks without guests are observed.
Mirror(r) ==
  /\ pc[r] = "mirror"
  /\ \/ /\ Effect(r, Mirrored) \/ UNCHANGED effects
        /\ IF Has(r, "attendees") THEN Give(r, Succeeded) ELSE Go(r, "observe")
     \/ UNCHANGED effects /\ Give(r, Failed)
  /\ UNCHANGED <<ask, batch, count, rounds, live, pattern, ending, logVars>>

\* observe_interaction: one statement raises the count, another reads it.
Observe(r) ==
  /\ pc[r] = "observe"
  /\ \/ /\ observed' = observed + 1
        /\ seen' = [seen EXCEPT ![r] = "counted"]
        /\ Go(r, "threshold")
     \/ Give(r, Succeeded) /\ UNCHANGED <<observed, seen>>
  /\ UNCHANGED <<ask, batch, deeds, rounds, live, extracted, ending, logVars>>

\* Seeded bug: == PATTERN_THRESHOLD.
Enough_Exactly == observed = Threshold

Enough == observed >= Threshold

\* From the threshold on, every observation starts an extraction.
ReadCount(r) ==
  /\ pc[r] = "threshold"
  /\ \/ /\ extracted' = (extracted \/ Enough)
        /\ seen' = [seen EXCEPT ![r] = "read"]
     \/ seen' = [seen EXCEPT ![r] = "unread"] /\ UNCHANGED extracted
  /\ Give(r, Succeeded)
  /\ UNCHANGED <<ask, batch, deeds, rounds, live, observed, ending, logVars>>

----
\* The end of every run

Insert(r) ==
  /\ pc[r] = "log"
  /\ InsertRow(r, row[r]) \/ UNCHANGED logs
  /\ Go(r, "publish")
  /\ UNCHANGED <<ask, batch, deeds, rounds, live, pattern, ending, published,
                 clientVars>>

Publish(r) ==
  /\ pc[r] = "publish"
  /\ PublishRow(r) \/ UNCHANGED <<published, clientVars>>
  /\ pc' = [pc EXCEPT ![r] = "record"]
  /\ out' = [out EXCEPT ![r] = IF plan[r] # NoAnswer THEN plan[r] ELSE @]
  /\ UNCHANGED <<ask, row, plan, batch, deeds, rounds, live, pattern, ending, logs>>

\* Seeded bug: the activity is recorded with the status of the row.
Recorded_Row(r) == IF row[r] = "success" THEN "success" ELSE "failure"

Recorded(r) == IF out[r].ok THEN "success" ELSE "failure"

RecordActivity(r) == activity' = [activity EXCEPT ![r] = Recorded(r)]

Record(r) ==
  /\ pc[r] = "record"
  /\ RecordActivity(r) \/ UNCHANGED activity
  /\ Go(r, IF r \in stopping THEN "stopped" ELSE "done")
  /\ UNCHANGED <<ask, batch, deeds, rounds, live, pattern, stopping, logVars>>

\* The await that is cancelled may have had its effect.
HalfDone(r) ==
  \/ /\ \/ pc[r] = "log" /\ InsertRow(r, row[r]) /\ UNCHANGED <<published, clientVars>>
        \/ pc[r] = "publish" /\ PublishRow(r) /\ UNCHANGED logs
        \/ UNCHANGED logVars
     /\ UNCHANGED <<effects, live, observed, activity>>
  \/ /\ \/ pc[r] = "send" /\ Effect(r, Head(todo[r]))
        \/ pc[r] = "tools" /\ Write(r)
        \/ pc[r] = "create" /\ Effect(r, Event)
        \/ pc[r] = "mirror" /\ Effect(r, Mirrored)
     /\ UNCHANGED <<logVars, live, observed, activity>>
  \/ /\ \/ pc[r] = "deploy" /\ Put(r, r)
        \/ pc[r] = "rollback" /\ Put(r, Previous)
     /\ UNCHANGED <<logVars, effects, observed, activity>>
  \/ /\ pc[r] = "observe" /\ observed' = observed + 1
     /\ UNCHANGED <<logVars, effects, live, activity>>
  \/ /\ pc[r] = "record" /\ RecordActivity(r)
     /\ UNCHANGED <<logVars, effects, live, observed>>

\* CancelledError passes every handler; the finally block records only what
\* had become the output by then.
Cancel(r) ==
  /\ pc[r] \notin Ended
  /\ r \notin stopping /\ Cardinality(stopping) < MaxCancels
  /\ HalfDone(r)
  /\ stopping' = stopping \cup {r}
  /\ seen' = [seen EXCEPT ![r] = IF pc[r] = "observe" THEN "unread" ELSE @]
  /\ Go(r, IF out[r] # NoAnswer /\ pc[r] # "record" THEN "record" ELSE "stopped")
  /\ UNCHANGED <<ask, batch, count, rounds, extracted>>

----
\* The specification

Closing(r) == Insert(r) \/ Publish(r) \/ Record(r)
Drafting(r) == Ollama(r) \/ Claude(r)

\* process of each agent: what Begin opens and Closing ends.
Titan(r) == Agent(r) = "titan" /\ (Deploy(r) \/ Rollback(r) \/ Alert(r))
Echo(r) == Agent(r) = "echo" /\ (Drafting(r) \/ Send(r))
Pm(r) == Agent(r) = "pm" /\ (Drafting(r) \/ Send(r))
Catch(r) == Agent(r) = "catch" /\ (Transcribe(r) \/ Drafting(r) \/ Send(r))
Mark(r) == Agent(r) = "mark" /\ (Drafting(r) \/ Send(r))
Sentinel(r) == Agent(r) = "sentinel" /\ (FetchPr(r) \/ Review(r) \/ Send(r))
Reach(r) == Agent(r) = "reach" /\ (Discover(r) \/ Personalise(r) \/ Rewrite(r) \/ Send(r))
Forge(r) == Agent(r) = "forge" /\ (Chat(r) \/ Tools(r))
General(r) == Agent(r) = "general" /\ Chat(r)
Qt(r) == Agent(r) = "qt" /\ (Test(r) \/ Drafting(r))
Pulse(r) == Agent(r) = "pulse" /\ (Gather(r) \/ Drafting(r))
Raw(r) == Agent(r) = "raw" /\ (Scan(r) \/ Drafting(r) \/ Keep(r) \/ Page(r))
Calendar(r) ==
  /\ Agent(r) = "calendar"
  /\ ListEvents(r) \/ CreateEvent(r) \/ Mirror(r) \/ Observe(r) \/ ReadCount(r)

Process(r) ==
  \/ Titan(r) \/ Echo(r) \/ Pm(r) \/ Catch(r) \/ Mark(r) \/ Sentinel(r) \/ Reach(r)
  \/ Forge(r) \/ General(r) \/ Qt(r) \/ Pulse(r) \/ Raw(r) \/ Calendar(r)

Step(r) == Begin(r) \/ Process(r) \/ Closing(r)

Read(c) ==
  Reader(c) /\ UNCHANGED <<ask, reply, batch, deeds, rounds, live, pattern, ending>>

Next == (\E r \in Runs : Step(r) \/ Cancel(r)) \/ (\E c \in Clients : Read(c))

\* A subprocess that the code sets no limit on: the tests, ssh, pip.
Unbounded(r) ==
  \/ pc[r] \in {"test", "scan"}
  \/ pc[r] \in {"deploy", "rollback"} /\ Mode(r) = "ssh"

\* Every other await ends: its client has a timeout, or it stays in the process.
Spec ==
  Init /\ [][Next]_vars /\ \A r \in Runs : WF_vars(~Unbounded(r) /\ Step(r))

----
\* Properties

Labels ==
  {"context", "ollama", "claude", "transcribe", "fetch", "review", "discover",
   "personalise", "rewrite", "send", "deploy", "rollback", "alert", "chat",
   "tools", "test", "gather", "scan", "keep", "page", "list", "create",
   "mirror", "observe", "threshold", "log", "publish", "record"} \cup Ended

\* The state has its types, and an output is there when it is recorded.
TypeOK ==
  /\ LogTypeOK
  /\ ask \in Loads
  /\ pc \in [Runs -> Labels]
  /\ row \in [Runs -> Status]
  /\ plan \in [Runs -> Answers \cup {NoAnswer}]
  /\ out \in [Runs -> Answers \cup {NoAnswer}]
  /\ todo \in [Runs -> Seq(Nat)]
  /\ ready \in [Runs -> Seq(Nat)]
  /\ effects \in [Runs -> Seq(Nat)]
  /\ count \in [Runs -> [done : Nat, failed : Nat]]
  /\ rounds \in [Runs -> 0 .. MaxRounds]
  /\ live \in [Targets -> Runs \cup {Previous}]
  /\ observed \in Nat
  /\ seen \in [Runs -> {"none", "counted", "read", "unread"}]
  /\ extracted \in BOOLEAN
  /\ activity \in [Runs -> {"none", "success", "failure"}]
  /\ stopping \subseteq Runs
  /\ \A r \in Runs : pc[r] \in {"record", "done"} => out[r] # NoAnswer

\* The agents that ask before they act: TITAN is not one of them, its approval
\* prompt comes when the deployment is out; FORGE writes files unasked.
Gated(r) ==
  \/ Agent(r) \in {"echo", "pm", "catch", "reach", "sentinel", "mark"}
  \/ Agent(r) = "calendar" /\ Has(r, "attendees")

\* A gated agent mails, posts, publishes or invites only in a run with send,
\* and no answer that asks for approval, of whatever agent, comes from a run
\* that has already done what it asks for, TITAN's excepted, which asks when the
\* deployment is in production: the requires_approval paths of the agents, through
\* errors, fallbacks, and cancellation.
NothingWithoutLeave ==
  \A r \in Runs :
    /\ Gated(r) /\ effects[r] # <<>> => Has(r, "send")
    /\ out[r] # NoAnswer /\ out[r].held /\ Agent(r) # "titan" =>
         effects[r] = <<>> /\ ~Has(r, "send")

\* The row, the answer and the activity of a run tell one story: one row at
\* most; the row of a run that gave its answer is a success if the answer is,
\* but for tests that ran and failed; an activity has an output behind it
\* that says the same, also when the run was cancelled after that; a run that
\* ended in an exception left nothing (BaseAgent.log, the finally blocks).
OneStory ==
  \A r \in Runs :
    LET mine == {i \in DOMAIN logs : logs[i].run = r}
    IN /\ Cardinality(mine) <= 1
       /\ \A i \in mine :
            out[r] # NoAnswer =>
              \/ (logs[i].status = "success") = out[r].ok
              \/ (Agent(r) = "qt" /\ logs[i].status = "success")
       /\ activity[r] # "none" =>
            out[r] # NoAnswer /\ (activity[r] = "success") = out[r].ok
       /\ pc[r] = "raised" => mine = {} /\ activity[r] = "none"

\* What a run counts as done was done, what was done is counted, as done or as
\* failed, but for the call a cancellation cut short, and no item twice; and a
\* failure of PM, CATCH, MARK, ECHO or SENTINEL that is reported after sending
\* hides nothing that was counted as done (the send loops).
CountsHonest ==
  \A r \in Runs :
    /\ IsInjective(effects[r])
    /\ Agent(r) \in {"echo", "sentinel", "pm", "catch", "reach", "mark"} =>
         /\ count[r].done <= Len(effects[r])
         /\ Len(effects[r]) <= count[r].done + count[r].failed
                                 + (IF r \in stopping THEN 1 ELSE 0)
         /\ out[r] # NoAnswer /\ ~out[r].ok => count[r].done = 0
         /\ out[r] # NoAnswer /\ out[r].ok /\ effects[r] = <<>> =>
              \/ out[r].held
              \/ Agent(r) = "reach"
              \/ Agent(r) = "catch" /\ count[r].failed = 0

\* A run that reports its deployment as rolled back has not left it in
\* production, whatever failed and whoever deployed beside it
\* (TITAN's _rollback).
RollbackTruthful ==
  \A r \in Runs : Agent(r) = "titan" =>
    /\ plan[r] # NoAnswer /\ plan[r].undone => live[Mode(r)] # r
    /\ out[r] # NoAnswer /\ out[r].undone => live[Mode(r)] # r

\* An answer to find_free_slot, the moments it is about and the one it names.
Answered(r) == out[r] # NoAnswer /\ out[r].slot # Unasked
Asked(r) == Moments(ask[r].window)
Diary(r) == {Moments(v) : v \in ask[r].events}
Offered(r) == Named(out[r].slot, ask[r].window)

\* The slot that is offered is the first one that is free, and none is offered
\* only if none is free (_first_free_slot), when the listed events are written
\* in the window's zone or all of them west of Greenwich: other zones are cut
\* off unread, see SlotIsFree.
OffersFirstSlot ==
  \A r \in Runs : Answered(r) /\ OneClock(ask[r].window, ask[r].events) =>
    IsFirstFree(Offered(r), Asked(r), Length, Diary(r))

\* calendar_find_free_slot's description: it finds the first free slot, and
\* reads busy events from Google Calendar.  Whatever zones times are written
\* in, no event is in the way of a slot that is offered.
SlotIsFree ==
  \A r \in Runs : Answered(r) /\ out[r].slot # NoSlot =>
    Fits(Offered(r), Asked(r), Length, Diary(r))

\* Once all who counted an observation have also read the count, a pattern at
\* the threshold has had its extraction started, however their statements
\* mixed (observe_interaction).
ThresholdSeen ==
  /\ \E r \in Runs : seen[r] = "read"
  /\ \A r \in Runs : seen[r] \in {"none", "read"}
  /\ observed >= Threshold
  => extracted

\* Every run ends, the loop of FORGE too, and none hangs but on a subprocess
\* without a limit (process, of all agents).
RunsEnd == \A r \in Runs : <>[](pc[r] \in Ended \/ Unbounded(r))
====

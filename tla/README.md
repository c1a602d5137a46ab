# A formal model of CRUZ

TLA+ specifications of the parts of CRUZ that keep state across `await`s, TLC
configurations that check them on small instances, and proofs, checked by
TLAPS, that almost all of their invariants hold for every instance. Paths are
relative to `src/`.

CRUZ is a personal assistant: an asyncio FastAPI process, an ARQ worker, a
LiveKit voice worker and a React front end, over Postgres, Redis and Qdrant.
Almost every state change of the backend is a read of one store, an `await`,
and a write of the same or another store. Nothing holds a lock across the
`await`, so the models take **one await as one step** and let every other
coroutine run in between.

## 1. Inventory

| Component | Code | State | Operations and interactions | What is hard | What makes it correct |
|---|---|---|---|---|---|
| Proactive gate | `services/proactive_engine.py`, `services/agent_state.py`, `agents/event_driven_agent.py` | `agent_state` rows: dedup, two cooldowns, counters; Redis copies with a TTL | `allow` = `_decide` + `_post_decision` + log; `emit` then routes; called from ARQ jobs and handlers | probe and write are several awaits apart; read-through cache filled with old rows; counter read-modify-write; restart between record and route | the five rules of the header, but for the exceptions of section 5; no false critical; what is sent is on record; a silenced duplicate has an original |
| CRUZ orchestrator | `agents/cruz/cruz_agent.py`, `services/sentence_stream.py` | locals of a turn | `process` (JSON), `stream_response` (SSE, voice); calls the model in a loop, dispatches tools and specialists, asks for approval, writes the exchange | error and departure at every await or yield; two entries that should agree; gates in the middle of a reply | exchange whole or absent; reported answers are kept; a held turn stops; the event protocol |
| Conversation, memory, handoff | `services/conversation.py`, `services/semantic_memory.py`, `services/device_handoff.py` | `conversations`, `messages`, Qdrant `cruz_memories`, Redis `cruz:device:*` | `get_or_create`, `load_history`, `save_exchange`, `store`, `detect_switch` | SELECT then INSERT; two INSERTs per exchange; LIMIT | question before answer, each once; the caller finds its own exchange |
| HTTP API | `backend/api/main.py` | none of its own | `POST /command`, `/events`, approvals, webhooks, voice token, health | stream errors; replay then subscribe | done once and last; a client that reads on shows every event outside one gap |
| Event log | `agents/base_agent.py`, `frontend/src/hooks/useEventStream.ts` | `agent_logs`, Redis channel | `BaseAgent.log` inserts, then publishes; `/events` replays, then subscribes | two stores written and read in opposite orders | see HTTP API |
| ARQ worker and tasks | `workers/arq_worker.py`, `workers/tasks/*` | Redis queue, job tries, `last_seen_ids` | `dispatch_event_to_agent`, webhook tasks, cron jobs | restarts run jobs again; poll and webhook find the same message | what is remembered as dispatched was dispatched; every listed mail is, unless it leaves the listing first |
| Event-driven agents and handlers | `agents/reply_triage`, `agents/followup`, `agents/health_guardian`, `agents/funded_watcher`, `workers/handlers/*` | lists in `agent_state` | `process(event)` reads a source and a list, emits through the gate, writes the list back | lists read, awaited over, written back whole; failures in between | no item a job knew of is lost or acted on again; criticals are earned |
| Browser service | `services/browser/service.py` | Playwright runtime, context per profile, token bucket per domain | `search`, `fetch`, `extract_text`, `download`, `screenshot`, `session`, `shutdown` | check-then-await of contexts; shutdown during calls; retries | no runtime lost to shutdown; buckets never exceeded; every page closed and every call logged once |
| Voice worker | `workers/voice_agent/worker.py`, `services/voice_sessions.py` | tasks of one event loop, STT queue, one flag for barge-in, counters and a row of `voice_sessions` | turns, barge-in, fallback voice, idle watchdog, shutdown | a flag shared by all turns; a watchdog that ends a call in mid-turn; cancelled tasks nobody awaits | the turn spoken over is broken off, and no other; the row tells the call's story; a deaf agent leaves |
| Voice front end | `frontend/src/hooks/useLiveKitRoom.ts`, `useVoiceSession.ts`, `components/PTTButton.tsx`, `routes/VoiceMode.tsx` | room and mic singletons, busy flags | connect, publish, tap-to-talk, voice mode, navigation, a change of the window's width, disconnect | operations of several awaits on one track, from two components that come and go; a room per device id | the microphone does what is shown |
| Voice daemon | `workers/voice_daemon.py`, `scripts/voice/listen.py` | none | capture, transcribe, post, speak | | |
| Specialists | `agents/titan`, `agents/forge`, `agents/pm`, `agents/catch`, ... | external systems | pipelines with an approval gate, partial sends or a rollback | approval before effect; errors and cancellation between effects | nothing gated happens unasked; counts, rows, answers and activities agree with what was done |
| Knowledge base | `services/knowledge_base.py` | Qdrant `cruz_activities`, patterns, counts | `record_agent_activity`, `observe_interaction`, searches | count written and read across awaits | a pattern at the threshold is extracted |
| Model backends, clients, dashboards, persona, relay, scripts | see `PROJECT.json` | none or external | translation, I/O, rendering | | |

`PROJECT.json` lists every component with its status, and under `hazards` each
place of the code where an ordering, a crash, a stale value or a boundary can
go wrong and a test would hardly reach it, with the properties that watch it.

## 2. Modules

| Module | What it is |
|---|---|
| `AlertPolicy` | what the gate promises about the notifications that reach a channel, over their history |
| `ProactiveGate` | the gate as ARQ jobs run it, one await per action |
| `MCProactiveGate` | the emissions the jobs of the runs may make |
| `ProactiveGateProofs` | theorems about the gate |
| `TurnLedger` | what a caller may rely on when it asks CRUZ something |
| `CruzTurn` | a turn through `process` or `stream_response`, with the stores it writes |
| `MCCruzTurn` | the requests and replies of the runs |
| `CruzTurnProofs` | theorems about turns: types, gates |
| `CruzAnswersProofs` | theorems about answers: rows, events, activities, histories, and the refinement of `TurnLedger` |
| `BrowserService` | the browser primitives as concurrent callers use them |
| `MCBrowserService` | the callers of the run |
| `BrowserServiceProofs` | theorems about it: types, runtime, pages, tries, rows and token buckets |
| `FreeSlot` | the calendar's search for a free slot, and how it reads times, beside its definition |
| `EventLog` | rows, publications and readers of the agents' log |
| `Specialists` | runs of the twelve specialist agents and TITAN over one log |
| `MCSpecialists` | what the runs may be asked |
| `SpecialistsProofs` | theorems about runs, the log and its readers, the calendar and the patterns |
| `EventLoop` | the worker's jobs over mail, threads, news, journal and sources |
| `MCEventLoop` | which jobs run side by side, and what they find |
| `EventLoopProofs` | theorems about the jobs and their lists |
| `VoicePage` | room and microphone of the browser's page |
| `VoiceWorker` | the agent of a call |
| `VoiceRoom` | a page and an agent in one room |
| `MCVoiceRoom` | the call, and the page by itself |
| `VoiceRoomProofs` | theorems about page and agent |
| `Sifting` | the elements of a sequence that lie in a set, in their order |
| `InductionProofs` | induction with a set for the hypothesis: recursive functions, and what `Sift` returns |

### 2.1 ProactiveGate

A job is one ARQ job that makes one emission (`req`). Its program counter names
the await it is at: `get` (redis.get), `load` (Postgres), `fill` (redis.set) for
each row that `_decide` probes, `budget` for the uncached counter, `set` and
`del` for each row that `_post_decision` writes, `count` and `charge` for the
counter's read-modify-write, `log`, `route`. `step` says which row is meant.
Locals that live across an await (`seen`, `verdict`, `stamp`, `cnt`) are
variables; they disappear when the frame does (`Unwind`).

* `store` and `count` are the `_gate` and counter rows, `cache` the Redis copies
  with their own expiry, `sent` the history of what `emit` handed to the router.
* Two more histories say where the properties do not bind. `mixed` has the owners
  (an agent, or the daily budget) that two jobs were at work on at once, or whose
  Redis copy could not be deleted; `clashes` counts, for each counter, the
  increments that began while another one was between its read and its write.
  ARQ runs ten jobs at once by default, so both happen in the code.
* `AlertPolicy` has the five rules of the header. It exempts by name what the code
  sends in spite of them: a critical without a listed reason (`Unlisted`; rules 2,
  3 and 5 are not asked), and an info that was demoted from something louder by
  its cooldown (rule 4 is not asked: `WithinCap` is of what was asked for as an
  info). Section 5 has both, and the race that `excused` stands for.
* `Fill` may write what `Load` read long before: the stale fill is in the model.
* `Fail` is an error of Postgres or a job timeout (`dispatch_event_to_agent`
  answers `success=False`, no retry); `WorkerRestart` drops all frames and ARQ
  runs the jobs again up to `MaxTries`. `RedisFaults` makes any Redis command
  raise; the code swallows each.
* An expired row is dropped by `Tick`. No reader sees an expired row, so whether
  `agent_state_cleanup` has deleted it makes no difference.
* The clock is scaled. The code's windows are 1 h after any notification, 24 h after
  a critical and 7 days for a dedup key, and counters are kept per day; the runs use
  1, 2, 3 (2 in `gate_concurrent`) and a day of 2, so that the order of the windows
  stays, the critical cooldown is one day long as in the code, and a day boundary
  falls inside a window. The Redis copies live for 1. The row that `_log_decision`
  writes is left out; its await is not.
* Fairness (`FairSpec`, only for `DuplicateHasOriginal`): weak fairness of each
  job's steps, because the event loop runs every coroutine that is ready and
  every await in it is bounded by a client timeout.

### 2.2 CruzTurn

A turn is one request: `via` says whether it is `process` (`json`) or
`stream_response` (`stream`). `pc` names the await or the yield it is at:
`find`, `create` (get_or_create), `history`, `getdevice`, `setdevice`,
`publish` (handoff, JSON only), `model`, `stream`, `tool`, `saveq`, `savea`
(the two INSERTs of `save_exchange`), `memq`, `mema`, `record` (the `finally`
block), `report` and `done` (`_sse_stream`).

* A reply of the model is any combination of text, a plan of tool calls from
  `Plans` and a stop on max_tokens (`MayCut`). `MaxCalls` bounds the rounds; the
  code does not. In the run max_tokens cuts replies of `process` only: a stream that
  it cuts goes on as one that has ended.
* `Results` is what comes of a tool: a result, for `Gated` tools a request for
  approval, an exception. A built-in observation (`Quiet`) is not announced and
  never raises.
* `Fault`: any statement of Postgres or the model raises. `HandoffFails` and
  `RememberFails` are the errors the code swallows. `Leave`: the consumer of a
  stream goes away (client disconnect, barge-in) at any await or yield.
  `Restart`: the process dies with all its turns.
* `SuccessSoFar` is what the `finally` block says when the consumer leaves early:
  an answer counts as a success before `done` is yielded, a held turn that has
  yielded it only if it is resumed afterwards.
* The key of the last device has a TTL; `GetDevice` may therefore read nothing.
* `ran`, `events`, `before` are histories: the tool calls of a turn, what the
  consumer received, and which turns had been answered when it began.
* No fairness is needed: a turn that could not go on would be a deadlock, which
  TLC checks, and `StreamProtocol` says how a stream that ended has ended.

### 2.3 BrowserService

A call is one use of a primitive (`ask`: kind, profile, domain). `pc` names the
await it is at: `pace`, `lock` (`_init_lock`), `start`
(`async_playwright().start()`), `launch` (`launch_persistent_context`), `page`
(`new_page`), `visit` or `request` (goto and all that is read afterwards),
`backoff`, `openlog`, `use` (the block of a `session`), `close`, `log`, and
`textlog` (the row of `extract_text`, which runs `fetch` inside). Awaits in a row
that touch nothing but the call's own page are one step, since no other
coroutine can see the difference.

* A runtime, a context and a page are named after the call that made them.
  `runtime`, `initLock`, `contexts` and `buckets` are the fields of the service;
  `alive`, `open`, `crashed` and `pages` are what really runs in Playwright, so
  that "lost" and "closed" mean something. `granted` is a history.
* `_consume_token` and `_get_context` up to its next await run without giving
  way; with the pause before them they are one step (`Dispatch`, `Refuse`).
  Tokens are counted in parts, `Unit` to a token, so that a bucket may hold a
  fraction as in the code.
* `Launch` overwrites what another call has put into `_contexts` meanwhile.
  `Breaks` is Playwright's refusal: stopped runtime, profile in use, closed
  context. `_context_locks` are created and never acquired, so they are left out.
* Cancellation may hit every await. The `finally` blocks still run, and what
  Playwright was asked for may be done although nobody takes the answer; such a
  call is `abandoned`, any other cancelled call `cancelled`. A cancelled call
  is not cancelled a second time.
* `Crash` ends the Chromium of one context; `Shutdown`, `CloseContext` and
  `StopRuntime` are one call of `shutdown`. In the repository only tests call
  it; the model lets it come at any time.
* `_log_call` swallows its errors; the model's rows are what it tried to write.

### 2.4 Specialists, EventLog, FreeSlot

A run is one call of `process` of one agent (`ask`: agent, mode, flags, and for
the calendar the window and the events). `pc` names the await it is at; the agent's own
pipeline lies between `Begin` (context of the knowledge base) and the common
end: `Insert` and `Publish` (`BaseAgent.log`), `Give` (the return), `Record`
(the `finally` block). Awaits in a row that touch only the run's own data and
fail alike are one step.

* A model's reply parses or does not; Ollama falls back to Claude; a send, a
  deployment or a page may fail before or after it took effect. `effects` is the
  history of what reached the world, `count` what the run says of it.
* `Cancel` hits any await of a run; `finally` blocks still run. `Escape` is an
  exception that `process` does not catch.
* TITAN's `live` names the deployment in production; two runs may deploy side by
  side. `Rollback` may fail. `NothingWithoutLeave` excepts TITAN, which asks when
  the deployment is out.
* `EventLog` has the rows and what was published of them, and readers that
  replay (LIMIT), subscribe, deliver and reconnect. The page's buffer of 200 events
  is a function of `view`. The branch of the replay with `last_id` is left out: the
  page opens `/events` without it, and nothing else in the repository asks.
  Rows that other code inserts and never publishes are no events of an agent.
* A time of the calendar is what the clock shows and the zone it is written in.
  `Moments` is what is meant, `Parsed` what `_parse_iso` makes of it: a Z and a
  positive offset are cut off, a negative one is kept, and such a time compares as
  the moment it is. Google lists the events by the moments meant (`Listed`), and
  Python refuses to compare aware and naive times (`Incomparable`). One zone stands
  for both ends of an event. The limit of a listing (2500 events) is left
  out. `FirstFree` is the loop of `_first_free_slot` as a
  recursive function over the sorted events; `OffersFirstSlot` compares what it
  returns, as a moment, with the definition of the earliest free slot, where the
  listed events share one clock (`OneClock`). `SlotIsFree` has no such premise and
  is violated (`calendar_zones`).
* `Observe`, `ReadCount`, `Enough` are `observe_interaction`: the update of the
  count, the read of it and the test of the threshold.
* Fairness: weak fairness of each run's steps, because every await is bounded by
  a client timeout, except the subprocesses without one (`Unbounded`).

### 2.5 EventLoop

A job is one ARQ job: the fallback poll, the Gmail webhook, a dispatched reply
triage, an outbound mail or a scan of the follow-up queue, health, funded news,
or one of six digest handlers. `rows` are the lists in `agent_state`: `copy` is
what a job has read, `kept` what it will write. `waiting` is the bag of dispatch
jobs in ARQ's queue, which `Dispatch` takes up again as triages.

* The journal is a sequence of lines (`Lines`) in any order. `ByDay` is the
  sorted list that `process` takes its last days from, newest first and lines of
  one day as in the file (Python's sort is stable); `Streak` counts the Ns at
  its head. `Sift` is a list comprehension with a membership test.
* The gate is one step (`Emit`): let through, demoted or suppressed; how it
  decides is `ProactiveGate`.
* `Break` is any error or ARQ's timeout at any await; `Restart` puts all running
  jobs back to their start with the rows as they are; `Lapse` drops a row whose
  TTL has passed. Together they are bounded by `MaxTrouble`, below ARQ's 5 tries.
* `Arrive`, `Vanish`, `Age`, `Reply`, `Midnight` are the world: a mail arrives, is
  deleted or moved out of what the poll's query finds, turns 72 hours old (a thread
  5 days), somebody answers, a day goes by. `gone` has the mails that left.
* `Used` looks `RecentDays` back (7 in the code), so a type of intervention is free
  again after that and `PickType` starts over with the first one.
* `Clients` are who `clients` and active projects name; `Addressed` are the threads
  whose queue entry has a non-empty `client_email`, which is all that the scan asks
  for. In the runs `t1` is a client's without an address and `t2` has the address of
  somebody who is no client.
* `List` has no branch for a trigger without classes: `ReplyTriageAgent` is
  registered when the worker's module is imported.
* `covers`, `based`, `did`, `acted` are histories: whose acts a list, and a job's
  copy of it, build on. They say what a job could know, which is what the
  properties ask: two jobs that overlap may both act, and the model lets them.
* Fairness, for `EveryMailDispatched`: weak fairness of the jobs' steps (awaits
  are bounded by timeouts) and of the poll's cron entry, which ARQ fires every
  5 minutes. The property is that no mail stays among the listed ones undispatched; a
  burst of more than 20 mails within five minutes pushes some out that never are.

### 2.6 VoicePage, VoiceWorker, VoiceRoom

The page has one mounted route (`ui`; a new number for each visit, as React
makes a new component with its own busy flag), the operations on the microphone
(`ops`: `_serialize` lets the first one run, each await a step), the rooms and
the microphone. `room.links` are all rooms that were asked for, each with the
device id it was joined for; `now` and `trying` are `_state`'s room and attempt.
`_ensureRoom` reuses the room only for the same device id, which `useDevice` makes
of the window's width (`Resize`): another device joins a second room, and nothing
leaves the first. The microphone's `gen` is the room it was published in: frames
flow only into that one (`Flowing`). A publication outlives a disconnect in
`_mic.published`, as in the code. `left` and `spoilt` are histories: visits that
went away with the microphone in their hand, and operations that failed half-way.

The worker has the task that takes frames (`ear`), the one that answers
(`turn`), the watchdog (`quiet`, then `Close`) and the shutdown (`Close`,
`Unwind`, `EndRow`). Pending tasks are cancelled and not awaited: `Unwind` may
come after the row is closed, and a count under way at the database may take
effect (`Landed`). A shutdown that takes too long is ended by the harness
(`ForceCancel`): the `finally` block still closes recogniser and row, and the
tasks are not cancelled, so the turn under way goes on beside a closed row
(`Onward`; the job is `killed`, then `orphaned`). `spokenOver` and `cut` are
histories of the turns. A crash of the job's process may come at any time while it
is on. `Played` is the end of the playback, whether played out or stopped at the
flag: the fallback voice never looks at it and plays on to the end of the piece.

The two meet in `Flowing`: page and agent share the frames and nothing else, so in
the run an agent comes only to a page on its first route and device, and pages that
go on have none. Fairness: time passes (`Hush`), the watchdog looks
every ten seconds and a shutdown goes on. No fairness is assumed of users,
models, recognisers or networks.

### 2.7 Conventions

A definition named `X_Something` before `X` is `X` with a plausible bug. It is
used by no specification; replacing the body of `X` by it makes TLC refute the
property it is paired with in `PROJECT.json` (`mutants`), which shows that the
property depends on that line of the code.

## 3. Runs

| Run | Question | Bounds |
|---|---|---|
| `gate_concurrent` | Two jobs interleave at every await, cache on, Redis raising: does a silenced duplicate always have an original that is sent (`DuplicateHasOriginal`, fairness), does a critical without a whitelisted reason ever go out as one, or any without its dedup row and cooldown on record (`NoFalseCriticals`)? | 2 jobs, 1 agent, 2 keys, clock to 2 |
| `gate_policy` | Two jobs side by side, errors, timeouts, restarts with retry, without Redis: is `AlertPolicy` implemented, for owners that are not mixed, is what is sent on record, do the counters cover it up to one for each clash? | 2 jobs, 2 tries each, 2 agents, 2 keys, clock to 3 |
| `gate_dedup_race` | Header rule 2 under concurrency: **violated**, both jobs probe before either writes | 2 jobs, no cache, no faults |
| `gate_rate_limit` | Header rule 5 even with one job at a time: **violated**, a critical without a listed reason skips the counter | 2 jobs, limit 1 |
| `cruz_turns` | Two turns of one conversation, both entries, all faults, departures and restarts: exchanges whole, answers kept, held turns stop, own replies read, stream protocol, truthful activities, `TurnLedger` | 2 turns, 2 model calls, plans of up to 2 tools, LIMIT 2 |
| `cruz_history` | "the last 50 messages": **violated**, the query selects the first ones | 3 turns, LIMIT 2 |
| `browser_calls` | Concurrent primitives on one profile and one domain, with cancellation, crashes and a shutdown: no runtime lost, pages closed, bucket kept, fetch's one retry, rows logged | 3 calls (`extract_text` and `session`, or `search` and `download`, beside a `fetch` with a rejected profile name), capacity 1, half a token per tick, clock to 2, 1 cancellation |
| `specialists` | Every agent in every mode beside a failing run, and pairs that share production, a calendar or a pattern, with fallbacks, partial sends, failing rollbacks, a cancellation, and a reader of the log: nothing without leave, one story in row, answer and activity, honest counts, truthful rollbacks, the first free slot on one clock, the threshold seen, events missed only in the gap, every run ends | 2 runs, 1 reader with LIMIT 1, 2 items, 2 rounds, threshold 2 from 1, calendars of up to 3 events on 5 points of time and of up to 2 in zones beside and west of Greenwich, 1 cancellation |
| `calendar_zones` | "Find the first free slot": **violated**, an event an hour to the east lies in the slot that is offered | calendars of up to 2 events, zones 0 and 1 |
| `event_loop` | Two or three jobs over shared lists with errors, timeouts, restarts, lapsed rows and deleted mails: lists keep what they built on, what is recorded was done, nothing known is done again, criticals are earned, no mail stays among the listed ones undispatched (fairness) | 3 jobs, 3 mails, a listing of 2, 2 threads, 3 articles, lists of 2, every journal of up to 3 lines for one dimension and of 2 for two, in any order of days, 3 days, interventions recent for one, 2 troubles |
| `voice_room` | A page that changes between tap-to-talk, voice mode and other routes and between devices while its rooms connect, drop and fail, and an agent that answers, is spoken over, falls silent, fails, is force-cancelled or dies: the microphone does what is shown, barge-ins hit the right turn, the row is true, deaf agents leave (fairness) | 3 routes in a row, 2 devices, 1 change of width, 1 drop; with an agent, 1 route and device; 2 turns of up to 2 pieces |
| `browser_crash` | Design, "lazy re-init on next call after crash": **violated**, the cached context is handed out again | 2 fetches of one profile |

Why the bounds are enough: each race of the gate is between two jobs over one row;
each hazard of a turn is within a turn or between two turns of one conversation. A
limit of 1 puts the boundary where two emissions reach it; a history LIMIT of 2 lets
the rows of one other turn just fit, and three turns overflow it. Two calls race for
the browser's runtime, context or bucket, while the third shows that a call that
ends early leaves the others alone; a bucket of capacity 1 that fills by halves
reaches refusal, refill and a second grant. Two tool calls are enough for "nothing
behind the gate runs". `gate_policy` needs two tries so that a retry meets the rows
of its own first attempt. Two specialist runs meet in production, in a calendar, in
a count and in the log; all else happens within one run, for which the second is a
malformed request that ends at once. A threshold of 2 from a count of 1 lets either
of two observers be the one that reaches it. In the event loop the poll lists one
mail less than arrive and remembers as many as it lists, so that ids leave its
window; two troubles let a job fail, or be restarted, on the way and again when it
is retried. An intervention that is recent for one of three days can come back on
the last. A second route, room and turn are what the first ones can spoil, and a
third route meets what the second left; a connection that drops once is enough for a
microphone published in another room. Symmetry is over jobs, turns and calls, which
no property tells apart; the runs with liveness use none.

## 4. Proofs

All theorems are for arbitrary constants that satisfy the modules' `ASSUME`s:
any number of jobs, turns, calls, runs, readers, visits, items and faults. Each
is proved from an inductive invariant, which is checked action by action; the
last step of each is temporal.

**The gate** (`ProactiveGateProofs`)

* `TypeCorrect` (`Spec => []TypeOK`). Inductive invariant `TypeInv`: `TypeOK`
  and `CanStart` (a queued job has a try left), which the bound on `tries` needs
  across `WorkerRestart`.
* `SentStaysRecorded` (`SentIsRecorded`) and `FalseCriticalsNever`
  (`NoFalseCriticals`: dedup row and critical cooldown). Inductive invariant
  `RecordInv`: besides types, `RowsBounded` (no row outlives now + TTL, so that a
  later writer never shortens one), `StampPast` (a decision's time is not in the
  future), `DecisionInv` (what a program counter says of verdict, severity and
  whitelist), `Recorded` (a job past the write of a row finds that row live for the
  window counted from its own stamp) and `SentRecorded`. The key lemma is
  `CoveredStays`: a row that covers a time goes on to cover it under every step,
  `SetRow` of other jobs and `Tick` included. They hold for any number of concurrent
  jobs, with cache faults and restarts, although the dedup rule itself does not (run
  `gate_dedup_race`): recording is safe, probing is not.
* `CountersCover` (`CountersCoverSent`), for any number of jobs at once: a day's
  counter falls short of what was sent by at most one for each increment that began
  inside another one. Inductive invariant `CountInv`: for each counter and day,
  what was sent and what is owed by jobs that have read the counter (`Promised`)
  is at most the counter, the clashes, and one if an increment is under way, and
  the same holds of the value that each of those increments has read (`Balanced`).
  A write after a write of another job takes the counter back, and the clash has
  paid for it. That nothing more is lost, across restarts, timeouts and errors, is
  what the theorem says; with no clash the counter covers all.
* `PolicyKept` (`PolicySpec`): with any number of jobs at once the gate implements
  `AlertPolicy`, where an owner is excused from the moment that two jobs are at
  work on it or the deletion of one of its Redis copies fails. Nothing is excused
  for errors of Postgres, timeouts, restarts, or jobs of other agents. Inductive
  invariant `PolicyInv`: of an owner that is not mixed at most one job is at work
  (`OneByOne`) and none of its increments clashed (`Unclashed`); every row that a
  notification left tells of it in Postgres, and in Redis where there is a copy
  (`Remembered`); what a probe has answered is still so when its job decides
  (`Probed`, `Granted`), and all that was sent is older than the decision
  (`Newest`); of the rows that a decision has to write, those behind `step` are
  written and their copies gone (`Left`). `OtherApart` makes it local: who is at
  work on an owner that is not mixed is alone with it, whatever the others do.
  That a budget read on one day serves a decision on the next needs that nothing
  was sent in between (`BudgetLeft`). A job that died after it wrote its rows
  makes the gate stricter, never laxer. `gate_dedup_race` shows what an excused
  owner may get.

**Turns** (`CruzTurnProofs`, `CruzAnswersProofs`)

* `TypeCorrect` and `HeldTurnsStop` (`HeldTurnStops`). Inductive invariant
  `TypeInv`: `TypeOK` and, for each turn, `TurnInv`: what the program counter
  says of `outcome`, `todo`, the last entry of `ran`, and that no row of a turn
  exists before it starts to write.
* `StreamsKeepProtocol` (`StreamProtocol`), `ExchangesAreWhole`
  (`ExchangesWhole`), `AnswersKept` (`AnswersAreKept`), `ActivitiesAreTruthful`
  (`ActivitiesTruthful`) and `RepliesAreRead` (`ReadYourReplies`). Inductive
  invariant `AnswersInv`: of each turn what was heard (`EventsInv`: which marks a
  stream can have seen at which await, tools started and finished in balance
  except for the one that runs), what is written (`RowsInv`: nothing, the
  question, or question and answer in their order; half an exchange only while
  the second INSERT is under way or after it failed), what is recorded
  (`ActsInv`) and what was read (`ReadsInv`: the exchanges of the turns that were
  answered before this one began, as long as LIMIT holds the conversation).
  Appends of other turns only push rows behind those that are there, which is why
  positions are stable.
* `LedgerKept` (`Spec => LedgerSpec`): CruzTurn implements `TurnLedger` under the
  mapping of the module. `LedgerInv` adds that rows are of turns of their own
  conversation and that a turn that failed has left no answer. Every step is one
  of the ledger or a stutter; the INSERT of the answer is the commit.

**The browser service** (`BrowserServiceProofs`)

* `TypeCorrect`. Inductive invariant `TypeInv`: `TypeOK` and `FilledPast` (a
  bucket was last filled in the past), without which a refill could take tokens
  away.
* `RuntimeTracked` (`OneRuntime`) and `PagesAreClosed` (`PagesClosed`).
  Inductive invariant `Tidy`: besides the properties, `LockInv` (who starts a
  runtime holds the lock, and there is none then), `PageInv` (an open page belongs
  to a call on a path through its `finally` block) and `AbandonedEnds`.
* `RetriesAreBound` (`RetriesOnce`: what `fetch` does, and that no primitive tries
  more than twice) and `RowsAreHonest` (`OneRowEach`). Inductive
  invariant `Kept` of each call: `TriesOK` (between two tries a call has been told
  of exactly one transient error, and its result is the verdict on the last try)
  and `RowsOK` (which rows may be there at which await, the inner `fetch` of
  `extract_text` included).
* `BucketsBound` (`BucketBound`), for any capacity, rate, granularity and number
  of callers. Inductive invariant `Accounts`: what a domain has used since some
  time and what its bucket still holds are no more than a full bucket and what
  came back until it was last filled.

**Specialists** (`SpecialistsProofs`)

* `TypeCorrect`, `ApprovalGate` (`NothingWithoutLeave`), `OneStoryTold`
  (`OneStory`), `CountsAreHonest` (`CountsHonest`) and `RollbackIsTruthful`
  (`RollbackTruthful`). Inductive invariant `RunInv` of each run: `PlaceInv`
  (which agent, asked for what, can be at an await), `DeedsInv` (nothing is done
  before an acting step; items are done in increasing order and all done are
  before all that are to do, so that none is done twice; effects lie between what
  is counted as done and as done or failed), `AnswerInv` (an answer is there when
  it is due and says what is so) and `StoryInv` (row, answer and activity agree).
  That the rollback stays truthful needs that another run deploys its own build.
* `SlotIsFirst` (`OffersFirstSlot`), for calendars with any number of events in any
  zones, where those that are listed are written in the zone of the window or all
  of them, and the window, west of Greenwich (`OneClock`). `FirstFreeIsFirst` is
  about the times as they are compared, by the walk's invariant: everything before
  the cursor is taken, and the events behind the walk end before it; a slot that
  was found is free and everything before it is taken. `TimesRead` says what
  `Parsed` makes of such times, `ClocksAgree` that a slot is first as it is compared
  just when it is first as a moment, whatever is not listed, and `FreeSlotIsFirst`
  puts the two together.
* `ThresholdIsSeen` (`ThresholdSeen`) is inductive beside the types: an observer
  that has counted and not read makes it hold, and each read tests the whole
  count, whoever wrote it.
* `OnlyTheGapIsMissed` (`MissedOnlyInGap`). Inductive invariant `ShownInv`: each
  row is published at most once, after it was inserted, and what a reader has seen
  or still has in its inbox is the replay and what was published since it
  subscribed, each counted once.

**The worker's jobs** (`EventLoopProofs`)

* `TypeCorrect`. Inductive invariant `TypeInv`: besides types, which kind of job
  comes to which step (`Placed`), what its lists hold (`Holds`), and that the
  mails that arrived are the first of those that will (`Arrived`).
* `ListsAreTrue` (`RecordedIsActed`). Inductive invariant `RecInv` with `Earned`:
  what a job will write has been acted on, or is still in its `todo` while it
  enqueues.
* `CriticalsAreEarned` (`CriticalsEarned`). Inductive invariant `CritInv` with
  `Grounds`: a verdict and the cache name a client as the table of clients does, a
  thread to chase is old and has an address (whether of a client, no code asks),
  and a dimension to intervene in has its streak. `StreakCounts` proves that a
  streak at the head of the sorted journal is as many newest Ns of the journal
  itself, for any journal; that there is a sorted order is an induction over its
  length (`OrderExists`).
* `NothingIsForgotten` (`RowsKeepItems`) and `NothingIsDoneTwice` (`NoSecondAct`).
  Of interventions the latter says that a type comes back within `RecentDays` only
  when its dimension had all three in that time. Inductive invariant `KeepInv`.
  Mails are placed by their position of arrival: a poll's list descends and has none
  missing from its first mail down to `Limit` before (`Newest`), and what it builds
  on is not newer than its first mail (`Covered`). Then what is listed and not
  remembered is newer than everything that the list builds on (`NewsNewest`), so it
  was not dispatched by a run it builds on even when the ids have left the window.
  This needs a window no smaller than the listing's limit (`LoopAssumption`; in the
  code 100 ids and 20 results). Once a mail was deleted, older ones come back to the
  listing and both claims hold until the window is full. The other lists keep what
  they build on outright, the funded watcher's as long as it is not full.

**Calls** (`VoiceRoomProofs`)

* `BargeInsExact` (`BargeExact`) and `RowsTrue` (`RowTrue`). Inductive invariant
  `WInv` of the agent: every turn was put to CRUZ but for one whose count is under
  way or failed (`AskedInv`), the counter of barge-ins counts the turns broken off
  (`CutInv`), an open row is behind by at most the count under way and a closed
  one ahead by at most one that came late (`RowInv`), or one off beside the turn
  that a force-cancel left running, which is the only one that still can count
  because the recogniser is closed (`Beside`), and the flag for barge-in is
  down until a reply is played and then says whether this very turn was spoken
  over (`FlagInv`).
* `MicrophoneAgrees` (`MicAgrees`). Inductive invariant `PInv` of the page: the
  queue of operations holds at most one of a visit, in the order of the visits,
  and the busy flag says that the mounted visit has one in it (`OpsInv`); who left
  while turning the microphone on is remembered until it has done so (`LeftInv`);
  a live microphone is shown, excused or still being worked on (`LiveInv`); and
  what needs the track finds it (`TrackInv`). It holds for any devices and changes
  of width: in which room the microphone is does not matter to it.
* `TypeCorrect` for both together.

**Induction over data.** The library's induction theorems take the hypothesis as
an operator, which the installed provers cannot instantiate. `InductionProofs`
states induction with a set of numbers for the hypothesis, and from it that a
recursive function exists and satisfies its equations (`RecursionExists`). That
covers the loops of the model which are recursive functions (`FirstFree`,
`Sift`). What is computed by an operator that takes an operator (`SelectSeq`,
`SortSeq`, `FoldLeft`) stays opaque, so modules with proofs filter with `Sift`
and sort by the choice of an order (`InOrder`, `ByDay`).

**Only model-checked.** Liveness under fairness (`DuplicateHasOriginal`, `RunsEnd`,
`EveryMailDispatched`, `StaleRoomsEnd`) is beyond the prover. The five violations are
TLC's counterexamples.

## 5. Where the code and its documentation disagree

1. `services/proactive_engine.py:8` promises suppression of duplicates; two
   concurrent jobs are both allowed (`gate_dedup_race`).
2. `services/proactive_engine.py:11` promises a global daily limit of non-info
   notifications; a demoted critical is not counted against it before it is
   sent (`gate_rate_limit`).
3. `services/conversation.py:23` says the last 50 messages; the query returns
   the first 50 (`cruz_history`).
4. `docs/superpowers/specs/2026-04-26-sp4-browser-automation-design.md:443`
   promises a lazy re-init on the next call after a crash (also line 70); the
   dead context stays in `_contexts` and every later call of its profile fails
   (`browser_crash`).
5. `agents/cruz/cruz_agent.py:433` offers the first free slot; `_parse_iso`
   (`calendar_agent.py:262-267`) cuts off Z and positive offsets unread, so an event
   of another zone is busy at the wrong time (`calendar_zones`).

Disagreements that the models contain, as exceptions or as what a property does not
claim, and that have no run of their own:

* `services/proactive_engine.py:10` promises a daily cap on an agent's infos; what
  the cooldown demotes to an info (line 113) is sent without a look at it
  (`AlertPolicy!WithinCap` is of what was asked for as an info).
* `docs/superpowers/plans/2026-04-26-sp5-event-loop-implementation.md:1599` holds
  the counter's increment for safe in one ARQ worker process; two jobs of one
  process lose one (`clashes` in `CountersCoverSent`).
* `agents/cruz/cruz_agent.py:1110` says that a stream persists like `process`; on
  max_tokens `process` writes nothing down (the exception of `AnswersAreKept`).
* The SP4 design, line 203 (error model 192-201), has transient navigation and
  timeout errors retried once inside the primitive. Only `fetch` does it, and
  `extract_text` through it: `search`, `screenshot` and `download` make one try, and
  Playwright's errors pass through them raw (`RetriesOnce` claims the second try
  of `fetch` only).
* `docs/superpowers/specs/2026-04-12-cruz-implementation-plan.md:520` has TITAN
  confirm with the user and then deploy; it deploys and then asks (the exception
  of `NothingWithoutLeave`).
* `agents/followup/followup_agent.py:7` has criticals for threads with a known
  client; the scan (line 136) takes any address (`Due`, `CriticalsEarned`).
* `agents/health_guardian/health_guardian_agent.py:251` has the shapes rotate from
  week to week; after seven days the first one is free again, so an intervention
  that comes less often is always a nudge (`Used`, `NoSecondAct`).
* `frontend/src/hooks/useLiveKitRoom.ts:27-28` has callers of the page share one
  room; a change of the window's width across a breakpoint joins a second one
  (line 61), and the microphone stays in the first (`Ensured`; `MicAgrees` speaks of
  all rooms).

Seen beside these:

* Browser: the same design says that calls queue on their context (line 90; the
  locks are never acquired) and that `shutdown` is registered at exit (line 71;
  it is not). It has one row per call (line 107): `extract_text` writes its own and
  that of the `fetch` inside, and an error of Playwright's own is logged as a
  success.
* Approvals: the exchange that asks for approval is not written, and a run with
  `send` drafts anew, so what is sent after a yes is not the draft that was
  shown. Nothing inserts into `approval_requests` or listens to `cruz:approval`.
* Knowledge base: `_extract_and_write_pattern`, started at the threshold, calls
  `strip` on the backend's reply object and ends in a logged error, and from the
  threshold on every observation starts it again.
* Events: an event that is inserted after the replay's query and published
  before the subscription is never shown (`main.py:949-975`); `MissedOnlyInGap`
  states that gap and that there is no other. `/events` takes a `last_id`, and no
  caller sends one.
* Calendar: a window with a negative offset beside an event without one ends in
  Python's error about naive and aware times, which the agent reports as its own.
* Mail: nothing dispatches `webhook.gmail.outbound_sent`, so the follow-up queue
  is filled by no path in the repository; the webhook lists history from the
  notification's own id; a triage that fails is not tried again although its mail
  is in `last_seen_ids`; the critical for a client's mail unanswered for 72 hours
  is hardly reachable, because a mail is dispatched once, when it is new.
* Follow-up: a scan and an outbound mail that overlap lose one of the two writes
  (in the model; `RowsKeepItems` claims what a job knew of). A failing check for
  replies counts as none, so an answered thread may be chased. Health: an
  intervention that the gate suppresses counts as used, and the streak rows are
  read by no code. Funded news: an article whose match fails is marked seen.
* Worker: `arq_worker.py` uses the database and Redis singletons that it never
  connects.
* Voice page: `exit()` returns at once while `enter()` is busy
  (`useVoiceSession.ts:140`), so End, Esc or leaving the page while it connects is
  dropped and the microphone comes on under no page
  (`docs/superpowers/specs/2026-04-19-voice-mode-and-ui-polish.md:120` has exit
  deactivate). A tap-to-talk button that unmounts leaves its microphone on. The
  background guard acts when the tab comes back, not after a minute. After a
  disconnect `_mic.published` stays set, and the next room never gets the
  microphone. A dropped connection clears `_state` whichever room it was of. A
  failing `startPTT` is caught, and the button says it listens. `MicAgrees` holds
  with the first two as its stated exceptions.
* Voice worker: pages connect when they mount, and the agent leaves after 90
  seconds without audio, so a first tap after that speaks to nobody until the
  room is left. The fallback voice does not look at the
  flag while it plays (`worker.py:160-186`), so the piece that is spoken over plays
  to its end. A reply that is broken off gets no `reply_done` and stays
  "thinking". A failing connection to the recogniser ends the frame task without
  a trace. Frame tasks are not cancelled at the end of a call: a later frame
  opens the recogniser again.
* Voice daemon: it posts `message` where `POST /command` requires `command`.

## 6. What is not modelled, and why

Prompts, persona, redaction, sentence splitting, narrowing of the tool list,
relay keywords, HTML parsers and vendor translations are data conversions with
no state. Wrappers of HTTP, SMTP, Redis, Postgres and macOS calls are pure I/O
and appear as nondeterministic outcomes. Dashboards render. Scripts do not run
in the system; the voice daemon and `listen.py` are one loop each, with one
request at a time and nothing shared. Meeting prep reads a calendar stub that
returns nothing and warm network is a stub: neither can emit. `POST /approvals`
updates rows that nothing inserts. The page's transcript and reply lists, the
speaker states, and the text of digests, drafts and notifications are data. Each
has a row in `PROJECT.json`.

## 7. Plan

Modelled and checked: gate, turns, browser, specialists with their log and
calendar, the worker's jobs, voice calls. Proved: every safety invariant that a
passing run checks, and the refinements of `AlertPolicy` and `TurnLedger`, as
listed in section 4.

To add, in this order:

1. Hazards without a property: the gap between record and route of a job that
   restarts, the two contexts of one profile, the flag that outlives a room.
2. `VoiceRoom`: what the agent hears is what the page shows (`Flowing`), from
   both invariants together.
3. The gate for a mixed owner: how many notifications get past a rule when probes
   interleave (at most one for each job at work).

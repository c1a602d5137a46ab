---- MODULE CruzTurn ----
(***************************************************************************)
(* A turn of CRUZ: one request to the orchestrator, through                *)
(* CruzAgent.process (POST /command, JSON) or CruzAgent.stream_response    *)
(* (POST /command with stream=True, and the voice worker), with the        *)
(* conversation rows in Postgres, the last device in Redis, the semantic   *)
(* memory in Qdrant, the model and the specialist agents.  Turns run       *)
(* concurrently in one asyncio process.  A step is one await, or one yield *)
(* to the consumer of the stream; between two of them other turns run.     *)
(***************************************************************************)
EXTENDS Integers, Sequences, FiniteSets, SequencesExt, Sifting

CONSTANTS
  Turns,        \* the requests
  Convs,        \* conversation ids
  Devices,      \* device names
  NoDevice,     \* no device is named, or none is stored
  Asks,         \* the requests the turns may make
  Tools,        \* names of tools the model may call
  Quiet,        \* tools that a stream does not announce
  Gated,        \* tools whose agent may ask for approval
  Plans,        \* sequences of tool calls that one reply may hold
  MaxCalls,     \* bound on the calls of the model in a turn
  HistoryLimit, \* LIMIT of load_history
  MayCut,       \* the entries whose replies max_tokens may cut short
  Faults,       \* Postgres, Redis, Qdrant, the model or a tool may raise
  Leaves,       \* the consumer of a stream may leave
  Restarts      \* the API process may restart

\* via: "json" is process, "stream" is stream_response.
Ask == [via: {"json", "stream"}, conv: Convs, device: Devices \cup {NoDevice}]

ASSUME AskAssumption ==
  /\ NoDevice \notin Devices
  /\ Asks \subseteq Ask

ASSUME ToolsAssumption ==
  /\ Quiet \subseteq Tools
  /\ Gated \subseteq Tools
  /\ Plans \subseteq Seq(Tools)
  /\ <<>> \in Plans

ASSUME BoundsAssumption ==
  /\ MaxCalls \in Nat \ {0}
  /\ HistoryLimit \in Nat \ {0}
  /\ MayCut \subseteq {"json", "stream"}

ASSUME ModesAssumption ==
  /\ Faults \in BOOLEAN
  /\ Leaves \in BOOLEAN
  /\ Restarts \in BOOLEAN

VARIABLES
  ask,        \* the request of each turn
  pc,         \* what the turn awaits next
  conversations, \* rows of conversations
  messages,   \* rows of messages, per conversation, by created_at
  lastDevice, \* Redis keys cruz:device:*
  switches,   \* messages published on cruz:device_switch
  memory,     \* points of cruz_memories
  activities, \* points of cruz_activities that CRUZ wrote
  history,    \* what load_history returned
  device,     \* what get_last_device returned
  calls,      \* calls of the model so far
  todo,       \* tool calls of the last reply that are still to run
  spoke,      \* the answer has text
  cut,        \* the last reply stopped on max_tokens
  outcome,    \* how the turn ends, once that is decided
  ran,        \* tool calls that were dispatched, and what came of each
  events,     \* what the consumer of a stream has received
  before      \* turns that were answered when this one began, a history

stores == <<conversations, messages, lastDevice, switches, memory, activities>>
talk == <<calls, todo, spoke, cut, ran>>
vars == <<ask, pc, stores, history, device, talk, outcome, events, before>>

----
\* Rows and values

Role == {"user", "assistant"}
Message == [turn: Turns, role: Role]
Row(t, r) == [turn |-> t, role |-> r]

Conv(t) == ask[t].conv
Streams(t) == ask[t].via = "stream"

HasRow(t, r) == Row(t, r) \in ToSet(messages[Conv(t)])
Saved(t) == HasRow(t, "user") /\ HasRow(t, "assistant")

Ended == {"end", "left", "lost"}
Running == {t \in Turns : pc[t] \notin Ended \cup {"new"}}

First(m, n) == SubSeq(m, 1, IF Len(m) <= n THEN Len(m) ELSE n)

\* Seeded bug: one row too few.
Oldest_OffByOne(m) == First(m, HistoryLimit - 1)

\* ORDER BY created_at ASC LIMIT n
Oldest(m) == First(m, HistoryLimit)

\* Seeded bug: a conversation without a stored device counts as a switch.
Switched_Always(last, current) == last # current

\* detect_switch
Switched(last, current) == last # NoDevice /\ last # current

\* What can come of the call of a tool.  record_pattern_observation never
\* raises; a tool that answers success=False is fed back like any other.
Results(tool) ==
  {"result"} \cup (IF tool \in Gated THEN {"approval"} ELSE {})
             \cup (IF Faults /\ tool \notin Quiet THEN {"raise"} ELSE {})

\* A stream announces the tool it is about to run.
Announce(plan) ==
  IF plan = <<>> THEN <<>>
  ELSE IF Head(plan) \in Quiet THEN <<>> ELSE <<"tool_start">>

Finished(tool) == IF tool \in Quiet THEN <<>> ELSE <<"tool_finish">>

Emit(t, es) ==
  events' = [events EXCEPT ![t] = IF Streams(t) THEN @ \o es ELSE @]

Go(t, l) == pc' = [pc EXCEPT ![t] = l]

\* The frames of the turns in T are gone, and their locals with them.
Unwind(T) ==
  /\ history' = [t \in Turns |-> IF t \in T THEN <<>> ELSE history[t]]
  /\ device' = [t \in Turns |-> IF t \in T THEN NoDevice ELSE device[t]]
  /\ calls' = [t \in Turns |-> IF t \in T THEN 0 ELSE calls[t]]
  /\ todo' = [t \in Turns |-> IF t \in T THEN <<>> ELSE todo[t]]

----
\* Init

Init ==
  /\ ask \in [Turns -> Asks]
  /\ pc = [t \in Turns |-> "new"]
  /\ conversations \in SUBSET Convs
  /\ messages = [c \in Convs |-> <<>>]
  /\ lastDevice = [c \in Convs |-> NoDevice]
  /\ switches = {}
  /\ memory = {}
  /\ activities = {}
  /\ history = [t \in Turns |-> <<>>]
  /\ device = [t \in Turns |-> NoDevice]
  /\ calls = [t \in Turns |-> 0]
  /\ todo = [t \in Turns |-> <<>>]
  /\ spoke = [t \in Turns |-> FALSE]
  /\ cut = [t \in Turns |-> FALSE]
  /\ outcome = [t \in Turns |-> "none"]
  /\ ran = [t \in Turns |-> <<>>]
  /\ events = [t \in Turns |-> <<>>]
  /\ before = [t \in Turns |-> {}]

----
\* How a turn ends

\* An exception leaves the try block.  process answers success=False,
\* stream_response lets it pass; both record the activity on the way out.
Raise(t) ==
  /\ outcome' = [outcome EXCEPT ![t] = "error"]
  /\ todo' = [todo EXCEPT ![t] = <<>>]
  /\ Go(t, "record")
  /\ UNCHANGED <<calls, spoke, cut, ran>>

\* The answer has come, and has been written down where it is to be.  A
\* stream yields Done before it records the activity.
Close(t) == IF Streams(t) THEN "done" ELSE "record"

\* Seeded bug: process writes an approval gate down like an answer.
AfterApproval_Saved(t) == IF Streams(t) THEN "done" ELSE "saveq"

AfterApproval(t) == IF Streams(t) THEN "done" ELSE "record"

\* Seeded bug: the error path of a stream runs through the finally block twice.
AfterDone_Twice(o) == "record"

AfterDone(o) == IF o = "error" THEN "end" ELSE "record"

AfterRecord(t) ==
  IF Streams(t) /\ outcome[t] = "error" THEN "report" ELSE "end"

\* The caller has been told how the turn ended.
Heard(t) ==
  IF Streams(t)
  THEN ToSet(events[t]) \cap {"approval_required", "error", "done"} # {}
  ELSE pc[t] = "end"

Answered(t) == Heard(t) /\ outcome[t] = "answer"

----
\* From the request to the first call of the model

\* The request comes in.  build_agent_context only reads.
Receive(t) ==
  /\ pc[t] = "new"
  /\ before' = [before EXCEPT ![t] = {u \in Turns : Answered(u)}]
  /\ Go(t, "find")
  /\ UNCHANGED <<ask, stores, history, device, talk, outcome, events>>

\* get_or_create_conversation: a SELECT, then an INSERT if there was no row.
FindConversation(t) ==
  /\ pc[t] = "find"
  /\ Go(t, IF Conv(t) \in conversations THEN "history" ELSE "create")
  /\ UNCHANGED <<ask, stores, history, device, talk, outcome, events, before>>

\* The INSERT violates the primary key if the row is there by now.
CreateConversation(t) ==
  /\ pc[t] = "create"
  /\ IF Conv(t) \in conversations
     THEN Raise(t) /\ UNCHANGED conversations
     ELSE /\ conversations' = conversations \cup {Conv(t)}
          /\ Go(t, "history")
          /\ UNCHANGED <<talk, outcome>>
  /\ UNCHANGED <<ask, messages, lastDevice, switches, memory, activities,
                 history, device, events, before>>

\* load_history, and the search of the semantic memory, which only reads.
LoadHistory(t) ==
  /\ pc[t] = "history"
  /\ history' = [history EXCEPT ![t] = Oldest(messages[Conv(t)])]
  /\ Go(t, IF ~Streams(t) /\ ask[t].device # NoDevice
           THEN "getdevice" ELSE "model")
  /\ UNCHANGED <<ask, stores, device, talk, outcome, events, before>>

\* The handoff check of process: a read, a write, and a message if the device
\* has changed.  An error of Redis ends the check and not the turn.  The key
\* may have expired when it is read.
GetDevice(t) ==
  /\ pc[t] = "getdevice"
  /\ \E d \in {lastDevice[Conv(t)], NoDevice} :
       device' = [device EXCEPT ![t] = d]
  /\ Go(t, "setdevice")
  /\ UNCHANGED <<ask, stores, history, talk, outcome, events, before>>

SetDevice(t) ==
  /\ pc[t] = "setdevice"
  /\ lastDevice' = [lastDevice EXCEPT ![Conv(t)] = ask[t].device]
  /\ Go(t, IF Switched(device[t], ask[t].device) THEN "publish" ELSE "model")
  /\ UNCHANGED <<ask, conversations, messages, switches, memory, activities,
                 history, device, talk, outcome, events, before>>

PublishSwitch(t) ==
  /\ pc[t] = "publish"
  /\ switches' = switches \cup {[turn |-> t, from |-> device[t]]}
  /\ Go(t, "model")
  /\ UNCHANGED <<ask, conversations, messages, lastDevice, memory, activities,
                 history, device, talk, outcome, events, before>>

HandoffFails(t) ==
  /\ Faults
  /\ pc[t] \in {"getdevice", "setdevice", "publish"}
  /\ Go(t, "model")
  /\ UNCHANGED <<ask, stores, history, device, talk, outcome, events, before>>

----
\* The agentic loop

\* The replies of the model: what it says, the tools it calls, and whether
\* max_tokens cut it short.  The code has no bound on the rounds of the loop;
\* MaxCalls is the model's.
Reply(t, text, plan, short) ==
  /\ calls[t] < MaxCalls
  /\ plan \in Plans
  /\ calls[t] + 1 = MaxCalls => plan = <<>>
  /\ short => ask[t].via \in MayCut
  /\ calls' = [calls EXCEPT ![t] = @ + 1]
  /\ cut' = [cut EXCEPT ![t] = short]
  /\ spoke' = [spoke EXCEPT ![t] = text \/ (Streams(t) /\ @)]
  /\ UNCHANGED ran

\* process: the stop reason decides.  A stop other than end_turn and tool_use
\* returns the text, runs no tool and writes nothing down.
CallModel(t) ==
  /\ pc[t] = "model"
  /\ ~Streams(t)
  /\ \E text, short \in BOOLEAN, plan \in Plans :
       /\ Reply(t, text, plan, short)
       /\ IF plan # <<>> /\ ~short
          THEN /\ todo' = [todo EXCEPT ![t] = plan]
               /\ Go(t, "tool")
               /\ UNCHANGED outcome
          ELSE /\ outcome' = [outcome EXCEPT ![t] = "answer"]
               /\ Go(t, IF short THEN "record" ELSE "saveq")
               /\ UNCHANGED todo
  /\ UNCHANGED <<ask, stores, history, device, events, before>>

\* stream_response: the sentences are yielded while the reply comes in.
StreamModel(t) ==
  /\ pc[t] = "model"
  /\ Streams(t)
  /\ \E text, short \in BOOLEAN, plan \in Plans :
       /\ Reply(t, text, plan, short)
       /\ todo' = [todo EXCEPT ![t] = plan]
       /\ Emit(t, IF text THEN <<"text">> ELSE <<>>)
  /\ Go(t, "stream")
  /\ UNCHANGED <<ask, stores, history, device, outcome, before>>

\* The reply is complete.  Only the tool calls in it decide what comes next.
EndOfStream(t) ==
  /\ pc[t] = "stream"
  /\ IF todo[t] # <<>>
     THEN /\ Go(t, "tool")
          /\ Emit(t, Announce(todo[t]))
          /\ UNCHANGED outcome
     ELSE /\ Go(t, IF spoke[t] THEN "saveq" ELSE "done")
          /\ outcome' = [outcome EXCEPT ![t] = "answer"]
          /\ UNCHANGED events
  /\ UNCHANGED <<ask, stores, history, device, talk, before>>

\* One tool call, of a built-in tool or through _dispatch_tool.  A request
\* for approval ends the turn at once; the calls behind it are dropped.
RunTool(t) ==
  LET tool == Head(todo[t])
      rest == Tail(todo[t])
  IN
  /\ pc[t] = "tool"
  /\ \E result \in Results(tool) :
       /\ ran' = [ran EXCEPT ![t] = Append(@, [tool |-> tool, result |-> result])]
       /\ CASE result = "result" ->
                 /\ todo' = [todo EXCEPT ![t] = rest]
                 /\ Emit(t, Finished(tool) \o Announce(rest))
                 /\ Go(t, IF rest = <<>> THEN "model" ELSE "tool")
                 /\ UNCHANGED outcome
            [] result = "approval" ->
                 /\ todo' = [todo EXCEPT ![t] = <<>>]
                 /\ Emit(t, <<"approval_required">>)
                 /\ Go(t, AfterApproval(t))
                 /\ outcome' = [outcome EXCEPT ![t] = "held"]
            [] result = "raise" ->
                 /\ todo' = [todo EXCEPT ![t] = <<>>]
                 /\ Go(t, "record")
                 /\ outcome' = [outcome EXCEPT ![t] = "error"]
                 /\ UNCHANGED events
  /\ UNCHANGED <<ask, stores, history, device, calls, spoke, cut, before>>

----
\* Writing the turn down

\* Seeded bug: the answer is inserted before the question.
RoleAt_Swapped(l) == IF l = "saveq" THEN "assistant" ELSE "user"

RoleAt(l) == IF l \in {"saveq", "memq"} THEN "user" ELSE "assistant"

\* Seeded bug: the answer is not inserted.
Following_NoAnswer(l) == "memq"

Following(l) == CASE l = "saveq" -> "savea" [] l = "savea" -> "memq"

\* save_exchange: two statements, each a transaction of its own.
SaveMessage(t) ==
  /\ pc[t] \in {"saveq", "savea"}
  /\ messages' = [messages EXCEPT ![Conv(t)] = Append(@, Row(t, RoleAt(pc[t])))]
  /\ Go(t, Following(pc[t]))
  /\ UNCHANGED <<ask, conversations, lastDevice, switches, memory, activities,
                 history, device, talk, outcome, events, before>>

\* SemanticMemoryService.store, once for each role.
Remember(t) ==
  /\ pc[t] \in {"memq", "mema"}
  /\ memory' = memory \cup {Row(t, RoleAt(pc[t]))}
  /\ Go(t, IF pc[t] = "memq" THEN "mema" ELSE Close(t))
  /\ UNCHANGED <<ask, conversations, messages, lastDevice, switches, activities,
                 history, device, talk, outcome, events, before>>

\* An error of the store ends the storing and not the turn.
RememberFails(t) ==
  /\ Faults
  /\ pc[t] \in {"memq", "mema"}
  /\ Go(t, Close(t))
  /\ UNCHANGED <<ask, stores, history, device, talk, outcome, events, before>>

\* Seeded bug: every turn is recorded as a success.
Success_Always(o) == TRUE

Success(o) == o # "error"

\* record_agent_activity in the finally block; it never raises.
Record(t) ==
  /\ pc[t] = "record"
  /\ \/ activities' =
          activities \cup {[turn |-> t, success |-> Success(outcome[t])]}
     \/ Faults /\ UNCHANGED activities
  /\ Go(t, AfterRecord(t))
  /\ Unwind({t})
  /\ UNCHANGED <<ask, conversations, messages, lastDevice, switches, memory,
                 spoke, cut, ran, outcome, events, before>>

\* _sse_stream turns the exception into an error event.
Report(t) ==
  /\ pc[t] = "report"
  /\ Emit(t, <<"error">>)
  /\ Go(t, "done")
  /\ UNCHANGED <<ask, stores, history, device, talk, outcome, before>>

Finish(t) ==
  /\ pc[t] = "done"
  /\ Emit(t, <<"done">>)
  /\ Go(t, AfterDone(outcome[t]))
  /\ UNCHANGED <<ask, stores, history, device, talk, outcome, before>>

----
\* The environment

\* A statement of Postgres or the model raises.
Fault(t) ==
  /\ Faults
  /\ pc[t] \in {"find", "create", "history", "model", "stream", "saveq", "savea"}
  /\ Raise(t)
  /\ UNCHANGED <<ask, stores, history, device, events, before>>

\* The consumer of a stream leaves: the client disconnects or the user barges
\* in.  The generator is closed where it is; its finally block records the
\* activity unless the cancellation cuts that short too.  An answer is a success
\* before Done is yielded; a held turn that has yielded Done only once it is
\* resumed, if it is.
SuccessSoFar(t) ==
  CASE outcome[t] = "answer" /\ pc[t] \in {"done", "record"} -> {TRUE}
    [] outcome[t] = "held" /\ pc[t] = "record" -> BOOLEAN
    [] OTHER -> {FALSE}

InGenerator(t) == ~(outcome[t] = "error" /\ pc[t] \in {"report", "done"})

Leave(t) ==
  /\ Leaves
  /\ Streams(t)
  /\ t \in Running
  /\ \/ /\ InGenerator(t)
        /\ \E s \in SuccessSoFar(t) :
             activities' = activities \cup {[turn |-> t, success |-> s]}
     \/ UNCHANGED activities
  /\ Go(t, "left")
  /\ Unwind({t})
  /\ UNCHANGED <<ask, conversations, messages, lastDevice, switches, memory,
                 spoke, cut, ran, outcome, events, before>>

\* The API process restarts: nothing of the turns it ran is left in memory.
Restart ==
  /\ Restarts
  /\ Running # {}
  /\ pc' = [t \in Turns |-> IF t \in Running THEN "lost" ELSE pc[t]]
  /\ Unwind(Running)
  /\ UNCHANGED <<ask, stores, spoke, cut, ran, outcome, events, before>>

Quiescent ==
  /\ \A t \in Turns : pc[t] \in Ended
  /\ UNCHANGED vars

TurnStep(t) ==
  \/ Receive(t) \/ FindConversation(t) \/ CreateConversation(t)
  \/ LoadHistory(t) \/ GetDevice(t) \/ SetDevice(t) \/ PublishSwitch(t)
  \/ HandoffFails(t) \/ CallModel(t) \/ StreamModel(t) \/ EndOfStream(t)
  \/ RunTool(t) \/ SaveMessage(t) \/ Remember(t) \/ RememberFails(t)
  \/ Record(t) \/ Report(t) \/ Finish(t)

Next ==
  \/ \E t \in Turns : TurnStep(t) \/ Fault(t) \/ Leave(t)
  \/ Restart
  \/ Quiescent

Spec == Init /\ [][Next]_vars

----
\* Properties

\* Type invariant.
TypeOK ==
  /\ ask \in [Turns -> Asks]
  /\ pc \in [Turns -> Ended \cup
       {"new", "find", "create", "history", "getdevice", "setdevice",
        "publish", "model", "stream", "tool", "saveq", "savea", "memq",
        "mema", "record", "report", "done"}]
  /\ conversations \subseteq Convs
  /\ messages \in [Convs -> Seq(Message)]
  /\ lastDevice \in [Convs -> Devices \cup {NoDevice}]
  /\ switches \subseteq [turn: Turns, from: Devices]
  /\ memory \subseteq Message
  /\ activities \subseteq [turn: Turns, success: BOOLEAN]
  /\ history \in [Turns -> Seq(Message)]
  /\ device \in [Turns -> Devices \cup {NoDevice}]
  /\ calls \in [Turns -> 0..MaxCalls]
  /\ todo \in [Turns -> Seq(Tools)]
  /\ spoke \in [Turns -> BOOLEAN]
  /\ cut \in [Turns -> BOOLEAN]
  /\ outcome \in [Turns -> {"none", "answer", "held", "error"}]
  /\ ran \in [Turns -> Seq([tool: Tools, result: {"result", "approval", "raise"}])]
  /\ events \in [Turns -> Seq({"text", "tool_start", "tool_finish",
                               "approval_required", "error", "done"})]
  /\ before \in [Turns -> SUBSET Turns]

\* What is written down of a turn is written once, the question before the
\* answer and both before either is remembered; a question without an answer
\* is the trace of a turn that failed or was cut off between the two.
ExchangesWhole ==
  \A t \in Turns :
    LET rows == messages[Conv(t)]
        At(r) == {i \in DOMAIN rows : rows[i] = Row(t, r)}
    IN
    /\ Cardinality(At("user")) <= 1 /\ Cardinality(At("assistant")) <= 1
    /\ \A i \in At("assistant") : \E j \in At("user") : j < i
    /\ HasRow(t, "user") /\ ~HasRow(t, "assistant") =>
         pc[t] = "savea" \/ outcome[t] = "error" \/ pc[t] \in {"left", "lost"}
    /\ \A r \in Role : Row(t, r) \in memory => Saved(t)

\* Whoever is told that the turn is over with an answer finds the exchange in
\* the conversation, except for an empty stream and a reply that max_tokens
\* cut short.
AnswersAreKept ==
  \A t \in Turns :
    Answered(t) /\ (IF Streams(t) THEN spoke[t] ELSE ~cut[t]) => Saved(t)

\* A request for approval is the last thing a turn does: no tool of the same
\* reply runs behind it, and nothing of the turn is written down or remembered.
HeldTurnStops ==
  \A t \in Turns :
    /\ \A i \in DOMAIN ran[t] :
         ran[t][i].result = "approval" => i = Len(ran[t]) /\ outcome[t] = "held"
    /\ outcome[t] = "held" =>
         /\ todo[t] = <<>>
         /\ \A r \in Role : ~HasRow(t, r) /\ Row(t, r) \notin memory

\* A caller that has its answer and asks again finds its first exchange in the
\* history that CRUZ loads, as long as LIMIT does not cut it off.
ReadYourReplies ==
  \A t \in Turns : \A u \in before[t] :
    (/\ Conv(u) = Conv(t)
     /\ Saved(u)
     /\ Len(messages[Conv(t)]) <= HistoryLimit
     /\ pc[t] \in {"getdevice", "setdevice", "publish", "model", "stream",
                   "tool", "saveq", "savea", "memq", "mema"})
      => {Row(u, "user"), Row(u, "assistant")} \subseteq ToSet(history[t])

\* The contract of _sse_stream: done comes once and last; behind an approval
\* request or an error comes done and nothing else; a tool is finished before
\* the next one starts; a stream that ran to its end has had its done.
Count(s, e) == Cardinality({i \in DOMAIN s : s[i] = e})

StreamProtocol ==
  \A t \in Turns : LET s == events[t] IN
    /\ Streams(t) /\ pc[t] = "end" => s # <<>> /\ Last(s) = "done"
    /\ \A i \in DOMAIN s :
         /\ s[i] = "done" => i = Len(s)
         /\ s[i] \in {"approval_required", "error"} /\ i < Len(s)
              => s[i + 1] = "done"
         /\ s[i] \in {"text", "tool_start"} =>
              Count(SubSeq(s, 1, i - 1), "tool_start")
                = Count(SubSeq(s, 1, i - 1), "tool_finish")

\* What CRUZ remembers of its own activity is one record per turn, and it says
\* success only of a turn that went well.
ActivitiesTruthful ==
  \A x, y \in activities :
    /\ x.turn = y.turn => x = y
    /\ x.success => outcome[x.turn] \in {"answer", "held"}

\* The callers' view: TurnLedger is implemented by the messages table and the
\* replies.
AnswerRows == {m \in Message : m.role = "assistant"}

Answers(rows) ==
  LET answers == Sift(rows, AnswerRows)
  IN  [i \in DOMAIN answers |-> answers[i].turn]

Phase(t) ==
  CASE Heard(t) /\ outcome[t] = "answer" -> "answered"
    [] Heard(t) /\ outcome[t] = "held" -> "held"
    [] Heard(t) /\ outcome[t] = "error" -> "failed"
    [] ~Heard(t) /\ pc[t] \in {"left", "lost"} -> "gone"
    [] OTHER -> "open"

Ledger == INSTANCE TurnLedger WITH
  ledger <- [c \in Convs |-> Answers(messages[c])],
  phase <- [t \in Turns |-> Phase(t)]

LedgerSpec == Ledger!LedgerSpec

\* load_history: "the last 50 messages for a conversation in chronological
\* order".
Newest(m) ==
  SubSeq(m, IF Len(m) <= HistoryLimit THEN 1 ELSE Len(m) - HistoryLimit + 1, Len(m))

HistoryIsRecent ==
  [][\A t \in Turns : history'[t] \notin {history[t], <<>>}
       => history'[t] = Newest(messages[Conv(t)])]_vars
====

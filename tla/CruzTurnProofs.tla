---- MODULE CruzTurnProofs ----
(***************************************************************************)
(* What TLAPS proves of CruzTurn for every set of turns, conversations and *)
(* tools, every bound on the loop and every LIMIT, with or without faults, *)
(* consumers that leave and restarts.                                      *)
(***************************************************************************)
EXTENDS CruzTurn, TLAPS

Early == {"find", "create", "history", "getdevice", "setdevice", "publish",
          "model", "stream", "tool"}
Saving == {"saveq", "savea", "memq", "mema"}
Closing == {"record", "report", "done"}
Pcs == Ended \cup {"new"} \cup Early \cup Saving \cup Closing

Outcomes == {"none", "answer", "held", "error"}
Call == [tool: Tools, result: {"result", "approval", "raise"}]
Event == {"text", "tool_start", "tool_finish", "approval_required", "error",
          "done"}

----
\* Sequences stay in type.
LEMMA EmitType ==
  ASSUME events \in [Turns -> Seq(Event)], NEW t \in Turns,
         NEW es \in Seq(Event), Emit(t, es)
  PROVE  events' \in [Turns -> Seq(Event)]
<1>1. events[t] \o es \in Seq(Event)
  OBVIOUS
<1>2. QED
  BY <1>1 DEF Emit

\* A sequence of one event.
LEMMA OneEvent ==
  ASSUME NEW e \in Event
  PROVE  <<e>> \in Seq(Event) /\ <<>> \in Seq(Event)
OBVIOUS

\* What a stream announces before a tool are events.
LEMMA AnnounceType ==
  ASSUME NEW plan
  PROVE  Announce(plan) \in Seq(Event)
<1>1. "tool_start" \in Event
  BY DEF Event
<1>2. QED
  BY <1>1, OneEvent DEF Announce

\* What a stream says after a tool are events.
LEMMA FinishedType ==
  ASSUME NEW tool
  PROVE  Finished(tool) \in Seq(Event)
<1>1. "tool_finish" \in Event
  BY DEF Event
<1>2. QED
  BY <1>1, OneEvent DEF Finished

\* load_history returns rows.
LEMMA OldestType ==
  ASSUME NEW m \in Seq(Message)
  PROVE  Oldest(m) \in Seq(Message)
BY BoundsAssumption DEF Oldest, First

\* A request has its types.
LEMMA AskType ==
  ASSUME TypeOK, NEW t \in Turns
  PROVE  ask[t] \in Ask /\ Conv(t) \in Convs
BY AskAssumption DEF TypeOK, Conv, Ask

\* What is left of a plan is a sequence of tools.
LEMMA PlanType ==
  ASSUME NEW plan \in Plans
  PROVE  plan \in Seq(Tools)
BY ToolsAssumption

\* A step of a turn that moves only its program counter.
LEMMA GoType ==
  ASSUME TypeOK, NEW t \in Turns, NEW l \in Pcs, Go(t, l)
  PROVE  pc' \in [Turns -> Pcs]
BY DEF Go, TypeOK, Pcs, Early, Saving, Closing, Ended

\* Raising keeps the types.
LEMMA RaiseType ==
  ASSUME TypeOK, NEW t \in Turns, Raise(t)
  PROVE  /\ pc' \in [Turns -> Pcs]
         /\ outcome' \in [Turns -> Outcomes]
         /\ todo' \in [Turns -> Seq(Tools)]
         /\ UNCHANGED <<calls, spoke, cut, ran>>
<1>1. pc' \in [Turns -> Pcs]
  BY GoType DEF Raise, Pcs, Closing
<1>2. outcome' \in [Turns -> Outcomes]
  BY DEF Raise, TypeOK, Outcomes
<1>3. todo' \in [Turns -> Seq(Tools)]
  BY DEF Raise, TypeOK
<1>4. QED
  BY <1>1, <1>2, <1>3 DEF Raise

\* A frame that goes away keeps the types.
LEMMA UnwindType ==
  ASSUME TypeOK, NEW T, Unwind(T)
  PROVE  /\ history' \in [Turns -> Seq(Message)]
         /\ device' \in [Turns -> Devices \cup {NoDevice}]
         /\ calls' \in [Turns -> 0..MaxCalls]
         /\ todo' \in [Turns -> Seq(Tools)]
BY BoundsAssumption DEF Unwind, TypeOK

\* TypeOK in two halves: what a step of a turn moves, and the stores.
Moved ==
  /\ pc \in [Turns -> Pcs]
  /\ history \in [Turns -> Seq(Message)]
  /\ device \in [Turns -> Devices \cup {NoDevice}]
  /\ calls \in [Turns -> 0..MaxCalls]
  /\ todo \in [Turns -> Seq(Tools)]
  /\ spoke \in [Turns -> BOOLEAN]
  /\ cut \in [Turns -> BOOLEAN]
  /\ outcome \in [Turns -> Outcomes]
  /\ ran \in [Turns -> Seq(Call)]
  /\ events \in [Turns -> Seq(Event)]

Stored ==
  /\ ask \in [Turns -> Asks]
  /\ conversations \subseteq Convs
  /\ messages \in [Convs -> Seq(Message)]
  /\ lastDevice \in [Convs -> Devices \cup {NoDevice}]
  /\ switches \subseteq [turn: Turns, from: Devices]
  /\ memory \subseteq Message
  /\ activities \subseteq [turn: Turns, success: BOOLEAN]
  /\ before \in [Turns -> SUBSET Turns]

\* The type invariant in two halves, of the turns and of the stores.
LEMMA TypeHalves == TypeOK <=> Moved /\ Stored
BY DEF TypeOK, Moved, Stored, Pcs, Early, Saving, Closing, Ended, Outcomes,
       Call, Event

\* The same of the next state.
LEMMA TypeHalvesNext == TypeOK' <=> Moved' /\ Stored'
BY DEF TypeOK, Moved, Stored, Pcs, Early, Saving, Closing, Ended, Outcomes,
       Call, Event

\* The types hold at first.
LEMMA InitType == Init => TypeOK
<1> SUFFICES ASSUME Init PROVE Moved /\ Stored
  BY TypeHalves
<1>1. Moved
  BY BoundsAssumption DEF Init, Moved, Pcs, Early, Saving, Closing, Ended, Outcomes
<1>2. Stored
  BY DEF Init, Stored
<1>3. QED
  BY <1>1, <1>2

\* Nothing of turn t is written down or remembered.
Untouched(t) ==
  /\ \A c \in Convs : \A i \in DOMAIN messages[c] : messages[c][i].turn # t
  /\ \A m \in memory : m.turn # t

\* What holds of every turn: a switch is published from a device that was
\* read; a turn about to run a tool has one to run; how the turn ends is open
\* until the loop is left, and is an answer while the turn is written down;
\* and until it is an answer nothing is written.
TurnInv(t) ==
  /\ pc[t] = "publish" => device[t] # NoDevice
  /\ pc[t] = "tool" => todo[t] # <<>>
  /\ pc[t] \in {"new"} \cup Early => outcome[t] = "none"
  /\ pc[t] \in Saving => outcome[t] = "answer"
  /\ outcome[t] \in {"none", "held"} => Untouched(t)
  /\ outcome[t] = "held" => todo[t] = <<>>
  /\ \A i \in DOMAIN ran[t] :
       ran[t][i].result = "approval" => i = Len(ran[t]) /\ outcome[t] = "held"

TypeInv == TypeOK /\ \A t \in Turns : TurnInv(t)

----
\* From the request to the first call of the model.
LEMMA OpeningType ==
  ASSUME TypeInv, NEW t \in Turns,
         \/ Receive(t) \/ FindConversation(t) \/ CreateConversation(t)
         \/ LoadHistory(t) \/ GetDevice(t) \/ SetDevice(t)
         \/ PublishSwitch(t) \/ HandoffFails(t)
  PROVE  TypeOK'
<1> USE DEF Pcs, Early, TypeInv
<1>a. Moved /\ Stored /\ Conv(t) \in Convs /\ ask[t] \in Ask
  BY TypeHalves, AskType
<1>1. CASE Receive(t)
  <2>1. pc' \in [Turns -> Pcs]
    BY <1>1, GoType DEF Receive
  <2>2. before' \in [Turns -> SUBSET Turns]
    BY <1>a, <1>1 DEF Receive, Stored
  <2>3. QED
    BY <1>a, <1>1, <2>1, <2>2, TypeHalvesNext DEF Receive, Moved, Stored, stores, talk
<1>2. CASE FindConversation(t)
  <2>1. pc' \in [Turns -> Pcs]
    BY <1>2, GoType DEF FindConversation
  <2>2. QED
    BY <1>a, <1>2, <2>1, TypeHalvesNext DEF FindConversation, Moved, Stored, stores, talk
<1>3. CASE CreateConversation(t)
  <2>1. /\ pc' \in [Turns -> Pcs]
        /\ outcome' \in [Turns -> Outcomes]
        /\ todo' \in [Turns -> Seq(Tools)]
        /\ UNCHANGED <<calls, spoke, cut, ran>>
    <3>1. CASE Raise(t)
      BY <3>1, RaiseType
    <3>2. CASE Go(t, "history") /\ UNCHANGED <<talk, outcome>>
      BY <3>2, <1>a, GoType DEF talk, Moved
    <3>3. QED
      BY <1>3, <3>1, <3>2 DEF CreateConversation
  <2>2. conversations' \subseteq Convs
    BY <1>a, <1>3 DEF CreateConversation, Stored
  <2>3. QED
    BY <1>a, <1>3, <2>1, <2>2, TypeHalvesNext DEF CreateConversation, Moved, Stored
<1>4. CASE LoadHistory(t)
  <2>1. pc' \in [Turns -> Pcs]
    BY <1>4, GoType DEF LoadHistory
  <2>2. messages[Conv(t)] \in Seq(Message)
    BY <1>a DEF Stored
  <2>3. history' \in [Turns -> Seq(Message)]
    BY <1>a, <1>4, <2>2, OldestType DEF LoadHistory, Moved
  <2>4. QED
    BY <1>a, <1>4, <2>1, <2>3, TypeHalvesNext DEF LoadHistory, Moved, Stored, stores, talk
<1>5. CASE GetDevice(t)
  <2>1. pc' \in [Turns -> Pcs]
    BY <1>5, GoType DEF GetDevice
  <2>2. device' \in [Turns -> Devices \cup {NoDevice}]
    BY <1>a, <1>5 DEF GetDevice, Moved, Stored
  <2>3. QED
    BY <1>a, <1>5, <2>1, <2>2, TypeHalvesNext DEF GetDevice, Moved, Stored, stores, talk
<1>6. CASE SetDevice(t)
  <2>1. pc' \in [Turns -> Pcs]
    BY <1>6, GoType DEF SetDevice
  <2>2. lastDevice' \in [Convs -> Devices \cup {NoDevice}]
    BY <1>a, <1>6 DEF SetDevice, Stored, Ask
  <2>3. QED
    BY <1>a, <1>6, <2>1, <2>2, TypeHalvesNext DEF SetDevice, Moved, Stored, talk
<1>7. CASE PublishSwitch(t)
  <2>1. pc' \in [Turns -> Pcs]
    BY <1>7, GoType DEF PublishSwitch
  <2>2. device[t] \in Devices
    BY <1>a, <1>7 DEF PublishSwitch, TurnInv, Moved
  <2>3. switches' \subseteq [turn: Turns, from: Devices]
    BY <1>a, <1>7, <2>2 DEF PublishSwitch, Stored
  <2>4. QED
    BY <1>a, <1>7, <2>1, <2>3, TypeHalvesNext DEF PublishSwitch, Moved, Stored, talk
<1>8. CASE HandoffFails(t)
  <2>1. pc' \in [Turns -> Pcs]
    BY <1>8, GoType DEF HandoffFails
  <2>2. QED
    BY <1>a, <1>8, <2>1, TypeHalvesNext DEF HandoffFails, Moved, Stored, stores, talk
<1>9. QED
  BY <1>1, <1>2, <1>3, <1>4, <1>5, <1>6, <1>7, <1>8

----
\* The agentic loop.
LEMMA ReplyType ==
  ASSUME TypeOK, NEW t \in Turns, NEW text \in BOOLEAN, NEW short \in BOOLEAN,
         NEW plan \in Plans, Reply(t, text, plan, short)
  PROVE  /\ calls' \in [Turns -> 0..MaxCalls]
         /\ spoke' \in [Turns -> BOOLEAN]
         /\ cut' \in [Turns -> BOOLEAN]
         /\ ran' = ran
<1>a. Moved
  BY TypeHalves
<1>1. calls' \in [Turns -> 0..MaxCalls]
  BY <1>a, BoundsAssumption DEF Reply, Moved
<1>2. spoke' \in [Turns -> BOOLEAN]
  <2>1. (text \/ (Streams(t) /\ spoke[t])) \in BOOLEAN
    BY Zenon
  <2>2. spoke' = [spoke EXCEPT ![t] = text \/ (Streams(t) /\ spoke[t])]
    BY <1>a DEF Reply, Moved
  <2>3. QED
    BY <1>a, <2>1, <2>2 DEF Moved
<1>3. cut' \in [Turns -> BOOLEAN]
  BY <1>a DEF Reply, Moved
<1>4. QED
  BY <1>1, <1>2, <1>3 DEF Reply

\* The steps of the model and tool loop keep the types.
LEMMA LoopType ==
  ASSUME TypeInv, NEW t \in Turns,
         CallModel(t) \/ StreamModel(t) \/ EndOfStream(t) \/ RunTool(t)
  PROVE  TypeOK'
<1> USE DEF TypeInv
<1>a. Moved /\ Stored
  BY TypeHalves
<1>1. CASE CallModel(t)
  <2>1. PICK text \in BOOLEAN, short \in BOOLEAN, plan \in Plans :
          /\ Reply(t, text, plan, short)
          /\ IF plan # <<>> /\ ~short
             THEN /\ todo' = [todo EXCEPT ![t] = plan]
                  /\ Go(t, "tool")
                  /\ UNCHANGED outcome
             ELSE /\ outcome' = [outcome EXCEPT ![t] = "answer"]
                  /\ Go(t, IF short THEN "record" ELSE "saveq")
                  /\ UNCHANGED todo
    BY <1>1 DEF CallModel
  <2>2. pc' \in [Turns -> Pcs]
    BY <2>1, GoType DEF Pcs, Early, Saving, Closing
  <2>3. todo' \in [Turns -> Seq(Tools)]
    BY <1>a, <2>1, PlanType DEF Moved
  <2>4. outcome' \in [Turns -> Outcomes]
    BY <1>a, <2>1 DEF Moved, Outcomes
  <2>5. /\ calls' \in [Turns -> 0..MaxCalls]
        /\ spoke' \in [Turns -> BOOLEAN]
        /\ cut' \in [Turns -> BOOLEAN]
        /\ ran' = ran
    BY <2>1, ReplyType
  <2>6. QED
    BY <1>a, <1>1, <2>2, <2>3, <2>4, <2>5, TypeHalvesNext
       DEF CallModel, Moved, Stored, stores
<1>2. CASE StreamModel(t)
  <2>1. PICK text \in BOOLEAN, short \in BOOLEAN, plan \in Plans :
          /\ Reply(t, text, plan, short)
          /\ todo' = [todo EXCEPT ![t] = plan]
          /\ Emit(t, IF text THEN <<"text">> ELSE <<>>)
    BY <1>2 DEF StreamModel
  <2>2. pc' \in [Turns -> Pcs]
    BY <1>2, GoType DEF StreamModel, Pcs, Early
  <2>3. todo' \in [Turns -> Seq(Tools)]
    BY <1>a, <2>1, PlanType DEF Moved
  <2>4. (IF text THEN <<"text">> ELSE <<>>) \in Seq(Event)
    BY OneEvent DEF Event
  <2>5. events' \in [Turns -> Seq(Event)]
    BY <1>a, <2>1, <2>4, EmitType DEF Moved
  <2>6. /\ calls' \in [Turns -> 0..MaxCalls]
        /\ spoke' \in [Turns -> BOOLEAN]
        /\ cut' \in [Turns -> BOOLEAN]
        /\ ran' = ran
    BY <2>1, ReplyType
  <2>7. QED
    BY <1>a, <1>2, <2>2, <2>3, <2>5, <2>6, TypeHalvesNext
       DEF StreamModel, Moved, Stored, stores
<1>3. CASE EndOfStream(t)
  <2>1. pc' \in [Turns -> Pcs]
    BY <1>3, GoType DEF EndOfStream, Pcs, Early, Saving, Closing
  <2>2. events' \in [Turns -> Seq(Event)]
    BY <1>a, <1>3, EmitType, AnnounceType DEF EndOfStream, Moved
  <2>3. outcome' \in [Turns -> Outcomes]
    BY <1>a, <1>3 DEF EndOfStream, Moved, Outcomes
  <2>4. QED
    BY <1>a, <1>3, <2>1, <2>2, <2>3, TypeHalvesNext
       DEF EndOfStream, Moved, Stored, stores, talk
<1>4. CASE RunTool(t)
  <2> DEFINE tool == Head(todo[t])
             rest == Tail(todo[t])
  <2>1. PICK result \in Results(tool) :
          /\ ran' = [ran EXCEPT ![t] = Append(@, [tool |-> tool, result |-> result])]
          /\ CASE result = "result" ->
                    /\ todo' = [todo EXCEPT ![t] = rest]
                    /\ Emit(t, Finished(tool) \o Announce(rest))
                    /\ Go(t, IF rest = <<>> THEN "model" ELSE "tool")
                    /\ UNCHANGED outcome
               [] result = "approval" ->
                    /\ todo' = [todo EXCEPT ![t] = <<>>]
                    /\ Emit(t, <<"approval_required">>)
                    /\ Go(t, AfterApproval(t))
                    /\ outcome' = [outcome EXCEPT ![t] = "held"]
               [] result = "raise" ->
                    /\ todo' = [todo EXCEPT ![t] = <<>>]
                    /\ Go(t, "record")
                    /\ outcome' = [outcome EXCEPT ![t] = "error"]
                    /\ UNCHANGED events
    BY <1>4 DEF RunTool
  <2>2. todo[t] \in Seq(Tools) /\ todo[t] # <<>>
    BY <1>a, <1>4 DEF Moved, RunTool, TurnInv
  <2>3. tool \in Tools /\ rest \in Seq(Tools)
    BY <2>2
  <2>4. result \in {"result", "approval", "raise"}
    BY <2>1 DEF Results
  <2>5. ran' \in [Turns -> Seq(Call)]
    <3>1. [tool |-> tool, result |-> result] \in Call
      BY <2>3, <2>4 DEF Call
    <3>2. ran[t] \in Seq(Call)
      BY <1>a DEF Moved
    <3>3. Append(ran[t], [tool |-> tool, result |-> result]) \in Seq(Call)
      BY <3>1, <3>2
    <3>4. QED
      BY <1>a, <2>1, <3>3 DEF Moved
  <2>6. /\ pc' \in [Turns -> Pcs]
        /\ todo' \in [Turns -> Seq(Tools)]
        /\ outcome' \in [Turns -> Outcomes]
        /\ events' \in [Turns -> Seq(Event)]
    <3>1. CASE result = "result"
      <4>1. Finished(tool) \o Announce(rest) \in Seq(Event)
        BY FinishedType, AnnounceType
      <4>2. events' \in [Turns -> Seq(Event)]
        BY <1>a, <2>1, <3>1, <4>1, EmitType DEF Moved
      <4>3. pc' \in [Turns -> Pcs]
        BY <2>1, <3>1, GoType DEF Pcs, Early
      <4>4. QED
        BY <1>a, <2>1, <2>3, <3>1, <4>2, <4>3 DEF Moved
    <3>2. CASE result = "approval"
      <4>1. <<"approval_required">> \in Seq(Event)
        BY OneEvent DEF Event
      <4>2. events' \in [Turns -> Seq(Event)]
        BY <1>a, <2>1, <3>2, <4>1, EmitType DEF Moved
      <4>3. pc' \in [Turns -> Pcs]
        BY <2>1, <3>2, GoType DEF Pcs, Closing, AfterApproval
      <4>4. todo' = [todo EXCEPT ![t] = <<>>] /\ outcome' = [outcome EXCEPT ![t] = "held"]
        BY <2>1, <3>2
      <4>5. todo' \in [Turns -> Seq(Tools)]
        BY <1>a, <4>4 DEF Moved
      <4>6. outcome' \in [Turns -> Outcomes]
        BY <1>a, <4>4 DEF Moved, Outcomes
      <4>7. QED
        BY <4>2, <4>3, <4>5, <4>6
    <3>3. CASE result = "raise"
      <4>1. pc' \in [Turns -> Pcs]
        BY <2>1, <3>3, GoType DEF Pcs, Closing
      <4>2. /\ todo' = [todo EXCEPT ![t] = <<>>]
            /\ outcome' = [outcome EXCEPT ![t] = "error"]
            /\ events' = events
        BY <2>1, <3>3
      <4>3. todo' \in [Turns -> Seq(Tools)]
        BY <1>a, <4>2 DEF Moved
      <4>4. outcome' \in [Turns -> Outcomes]
        BY <1>a, <4>2 DEF Moved, Outcomes
      <4>5. QED
        BY <1>a, <4>1, <4>2, <4>3, <4>4 DEF Moved
    <3>4. QED
      BY <2>4, <3>1, <3>2, <3>3
  <2>7. QED
    BY <1>a, <1>4, <2>5, <2>6, TypeHalvesNext DEF RunTool, Moved, Stored, stores
<1>5. QED
  BY <1>1, <1>2, <1>3, <1>4

----
\* Writing the turn down, and its end.
LEMMA WritingType ==
  ASSUME TypeInv, NEW t \in Turns,
         \/ SaveMessage(t) \/ Remember(t) \/ RememberFails(t)
         \/ Record(t) \/ Report(t) \/ Finish(t)
  PROVE  TypeOK'
<1> USE DEF TypeInv
<1>a. Moved /\ Stored /\ Conv(t) \in Convs
  BY TypeHalves, AskType
<1>b. \A l : Row(t, RoleAt(l)) \in Message
  BY DEF Row, RoleAt, Message, Role
<1>1. CASE SaveMessage(t)
  <2>1. pc' \in [Turns -> Pcs]
    BY <1>1, GoType DEF SaveMessage, Following, Pcs, Saving
  <2>2. messages[Conv(t)] \in Seq(Message)
    BY <1>a DEF Stored
  <2>3. Append(messages[Conv(t)], Row(t, RoleAt(pc[t]))) \in Seq(Message)
    BY <1>b, <2>2
  <2>4. messages' \in [Convs -> Seq(Message)]
    BY <1>a, <1>1, <2>3 DEF SaveMessage, Stored
  <2>5. QED
    BY <1>a, <1>1, <2>1, <2>4, TypeHalvesNext DEF SaveMessage, Moved, Stored, talk
<1>2. CASE Remember(t)
  <2>1. pc' \in [Turns -> Pcs]
    BY <1>2, GoType DEF Remember, Close, Pcs, Saving, Closing
  <2>2. memory' \subseteq Message
    BY <1>a, <1>b, <1>2 DEF Remember, Stored
  <2>3. QED
    BY <1>a, <1>2, <2>1, <2>2, TypeHalvesNext DEF Remember, Moved, Stored, talk
<1>3. CASE RememberFails(t)
  <2>1. pc' \in [Turns -> Pcs]
    BY <1>3, GoType DEF RememberFails, Close, Pcs, Closing
  <2>2. QED
    BY <1>a, <1>3, <2>1, TypeHalvesNext DEF RememberFails, Moved, Stored, stores, talk
<1>4. CASE Record(t)
  <2>1. pc' \in [Turns -> Pcs]
    BY <1>4, GoType DEF Record, AfterRecord, Pcs, Closing, Ended
  <2>2. activities' \subseteq [turn: Turns, success: BOOLEAN]
    <3>1. Success(outcome[t]) \in BOOLEAN
      BY DEF Success
    <3>2. QED
      BY <1>a, <1>4, <3>1 DEF Record, Stored
  <2>3. QED
    BY <1>a, <1>4, <2>1, <2>2, UnwindType, TypeHalvesNext DEF Record, Moved, Stored
<1>5. CASE Report(t)
  <2>1. pc' \in [Turns -> Pcs]
    BY <1>5, GoType DEF Report, Pcs, Closing
  <2>2. <<"error">> \in Seq(Event)
    BY OneEvent DEF Event
  <2>3. events' \in [Turns -> Seq(Event)]
    BY <1>a, <1>5, <2>2, EmitType DEF Report, Moved
  <2>4. QED
    BY <1>a, <1>5, <2>1, <2>3, TypeHalvesNext DEF Report, Moved, Stored, stores, talk
<1>6. CASE Finish(t)
  <2>1. pc' \in [Turns -> Pcs]
    BY <1>6, GoType DEF Finish, AfterDone, Pcs, Closing, Ended
  <2>2. <<"done">> \in Seq(Event)
    BY OneEvent DEF Event
  <2>3. events' \in [Turns -> Seq(Event)]
    BY <1>a, <1>6, <2>2, EmitType DEF Finish, Moved
  <2>4. QED
    BY <1>a, <1>6, <2>1, <2>3, TypeHalvesNext DEF Finish, Moved, Stored, stores, talk
<1>7. QED
  BY <1>1, <1>2, <1>3, <1>4, <1>5, <1>6

----
\* The environment.
LEMMA EnvironmentType ==
  ASSUME TypeInv,
         \/ \E t \in Turns : Fault(t) \/ Leave(t)
         \/ Restart \/ Quiescent \/ UNCHANGED vars
  PROVE  TypeOK'
<1> USE DEF TypeInv
<1>a. Moved /\ Stored
  BY TypeHalves
<1>1. ASSUME NEW t \in Turns, Fault(t)
      PROVE  TypeOK'
  <2>1. Raise(t)
    BY <1>1 DEF Fault
  <2>2. QED
    BY <1>a, <1>1, <2>1, RaiseType, TypeHalvesNext DEF Fault, Moved, Stored, stores
<1>2. ASSUME NEW t \in Turns, Leave(t)
      PROVE  TypeOK'
  <2>1. pc' \in [Turns -> Pcs]
    BY <1>2, GoType DEF Leave, Pcs, Ended
  <2>2. activities' \subseteq [turn: Turns, success: BOOLEAN]
    <3>1. SuccessSoFar(t) \subseteq BOOLEAN
      BY DEF SuccessSoFar
    <3>2. QED
      BY <1>a, <1>2, <3>1 DEF Leave, Stored
  <2>3. QED
    BY <1>a, <1>2, <2>1, <2>2, UnwindType, TypeHalvesNext DEF Leave, Moved, Stored
<1>3. CASE Restart
  <2>1. pc' \in [Turns -> Pcs]
    BY <1>a, <1>3 DEF Restart, Moved, Pcs, Ended
  <2>2. QED
    BY <1>a, <1>3, <2>1, UnwindType, TypeHalvesNext DEF Restart, Moved, Stored, stores
<1>4. CASE Quiescent \/ UNCHANGED vars
  BY <1>a, <1>4, TypeHalvesNext DEF Quiescent, vars, Moved, Stored, stores, talk
<1>5. QED
  BY <1>1, <1>2, <1>3, <1>4

\* Every step keeps the types.
LEMMA StepType ==
  ASSUME TypeInv, [Next]_vars
  PROVE  TypeOK'
BY OpeningType, LoopType, WritingType, EnvironmentType DEF Next, TurnStep

----
\* TurnInv is inductive.  A step of turn t leaves the other turns alone.
LEMMA InitTurns ==
  ASSUME Init, NEW t \in Turns
  PROVE  TurnInv(t)
BY DEF Init, TurnInv, Untouched, Early, Saving

\* The steps before the loop keep TurnInv of every turn.
LEMMA OpeningTurns ==
  ASSUME TypeInv, NEW t \in Turns, NEW u \in Turns,
         \/ Receive(t) \/ FindConversation(t) \/ CreateConversation(t)
         \/ LoadHistory(t) \/ GetDevice(t) \/ SetDevice(t)
         \/ PublishSwitch(t) \/ HandoffFails(t)
  PROVE  TurnInv(u)'
<1>a. Moved /\ TurnInv(t) /\ TurnInv(u)
  BY TypeHalves DEF TypeInv
<1> USE DEF TurnInv, Untouched, Early, Saving, Go
<1>1. CASE Receive(t)
  BY <1>a, <1>1 DEF Receive, Moved, stores, talk
<1>2. CASE FindConversation(t)
  BY <1>a, <1>2 DEF FindConversation, Moved, stores, talk
<1>3. CASE CreateConversation(t)
  BY <1>a, <1>3 DEF CreateConversation, Raise, Moved, talk
<1>4. CASE LoadHistory(t)
  BY <1>a, <1>4 DEF LoadHistory, Moved, stores, talk
<1>5. CASE GetDevice(t)
  BY <1>a, <1>5 DEF GetDevice, Moved, stores, talk
<1>6. CASE SetDevice(t)
  BY <1>a, <1>6 DEF SetDevice, Switched, Moved, talk
<1>7. CASE PublishSwitch(t)
  BY <1>a, <1>7 DEF PublishSwitch, Moved, talk
<1>8. CASE HandoffFails(t)
  BY <1>a, <1>8 DEF HandoffFails, Moved, stores, talk
<1>9. QED
  BY <1>1, <1>2, <1>3, <1>4, <1>5, <1>6, <1>7, <1>8

\* The steps of the model and tool loop keep TurnInv of every turn.
LEMMA LoopTurns ==
  ASSUME TypeInv, NEW t \in Turns, NEW u \in Turns,
         CallModel(t) \/ StreamModel(t) \/ EndOfStream(t) \/ RunTool(t)
  PROVE  TurnInv(u)'
<1>a. Moved /\ TurnInv(t) /\ TurnInv(u)
  BY TypeHalves DEF TypeInv
<1> USE DEF TurnInv, Untouched, Early, Saving, Go
<1>1. CASE CallModel(t)
  BY <1>a, <1>1 DEF CallModel, Reply, Moved, stores
<1>2. CASE StreamModel(t)
  BY <1>a, <1>2 DEF StreamModel, Reply, Moved, stores
<1>3. CASE EndOfStream(t)
  BY <1>a, <1>3 DEF EndOfStream, Moved, stores, talk
<1>4. CASE RunTool(t)
  <2> DEFINE tool == Head(todo[t])
  <2>1. PICK result \in Results(tool) :
          /\ ran' = [ran EXCEPT ![t] = Append(@, [tool |-> tool, result |-> result])]
          /\ CASE result = "result" ->
                    /\ todo' = [todo EXCEPT ![t] = Tail(todo[t])]
                    /\ Emit(t, Finished(tool) \o Announce(Tail(todo[t])))
                    /\ Go(t, IF Tail(todo[t]) = <<>> THEN "model" ELSE "tool")
                    /\ UNCHANGED outcome
               [] result = "approval" ->
                    /\ todo' = [todo EXCEPT ![t] = <<>>]
                    /\ Emit(t, <<"approval_required">>)
                    /\ Go(t, AfterApproval(t))
                    /\ outcome' = [outcome EXCEPT ![t] = "held"]
               [] result = "raise" ->
                    /\ todo' = [todo EXCEPT ![t] = <<>>]
                    /\ Go(t, "record")
                    /\ outcome' = [outcome EXCEPT ![t] = "error"]
                    /\ UNCHANGED events
    BY <1>4 DEF RunTool
  <2>k. result \in {"result", "approval", "raise"}
    BY <2>1 DEF Results
  <2>2. /\ UNCHANGED <<messages, memory, device>>
        /\ outcome[t] = "none" /\ Untouched(t)
    BY <1>a, <1>4 DEF RunTool, stores
  <2>3. ran[t] \in Seq(Call)
    BY <1>a DEF Moved
  <2>4. ASSUME u = t PROVE TurnInv(u)'
    <3>1. \A i \in DOMAIN ran[t] : ran[t][i].result # "approval"
      BY <1>a, <2>2
    <3>2. /\ ran'[t] = Append(ran[t], [tool |-> tool, result |-> result])
          /\ Len(ran'[t]) = Len(ran[t]) + 1
      BY <1>a, <2>1, <2>3 DEF Moved
    <3>3. \A i \in DOMAIN ran'[t] :
            ran'[t][i].result = "approval" => i = Len(ran'[t]) /\ result = "approval"
      BY <2>3, <3>1, <3>2
    <3>4. CASE result = "approval"
      <4>1. /\ todo'[t] = <<>> /\ outcome'[t] = "held"
            /\ pc'[t] \in {"record", "done"}
        BY <1>a, <2>1, <3>4 DEF Moved, AfterApproval
      <4>2. QED
        BY <1>a, <2>2, <2>4, <3>3, <4>1
    <3>5. CASE result = "result"
      <4>1. /\ todo'[t] = Tail(todo[t]) /\ outcome'[t] = "none"
            /\ pc'[t] = IF Tail(todo[t]) = <<>> THEN "model" ELSE "tool"
        BY <1>a, <2>1, <2>2, <3>5 DEF Moved
      <4>2. QED
        BY <1>a, <2>2, <2>4, <3>3, <3>5, <4>1
    <3>6. CASE result = "raise"
      <4>1. outcome'[t] = "error" /\ pc'[t] = "record"
        BY <1>a, <2>1, <3>6 DEF Moved
      <4>2. QED
        BY <1>a, <2>2, <2>4, <3>3, <3>6, <4>1
    <3>7. QED
      BY <2>k, <3>4, <3>5, <3>6
  <2>5. ASSUME u # t PROVE TurnInv(u)'
    <3>1. /\ pc'[u] = pc[u] /\ todo'[u] = todo[u] /\ outcome'[u] = outcome[u]
          /\ ran'[u] = ran[u]
      BY <1>a, <2>1, <2>k, <2>5 DEF Moved
    <3>2. QED
      BY <1>a, <2>2, <3>1
  <2>6. QED
    BY <2>4, <2>5
<1>5. QED
  BY <1>1, <1>2, <1>3, <1>4

\* The steps that write the exchange down keep TurnInv of every turn.
LEMMA WritingTurns ==
  ASSUME TypeInv, NEW t \in Turns, NEW u \in Turns,
         \/ SaveMessage(t) \/ Remember(t) \/ RememberFails(t)
         \/ Record(t) \/ Report(t) \/ Finish(t)
  PROVE  TurnInv(u)'
<1>a. Moved /\ Stored /\ TurnInv(t) /\ TurnInv(u) /\ Conv(t) \in Convs
  BY TypeHalves, AskType DEF TypeInv
<1> USE DEF TurnInv, Untouched, Early, Saving, Go
<1>1. CASE SaveMessage(t)
  <2>1. outcome[t] = "answer"
    BY <1>a, <1>1 DEF SaveMessage
  <2>2. /\ pc' = [pc EXCEPT ![t] = Following(pc[t])]
        /\ Following(pc[t]) \in {"savea", "memq"}
        /\ UNCHANGED <<memory, device, todo, outcome, ran>>
    BY <1>1 DEF SaveMessage, Following, talk
  <2>3. ASSUME Untouched(u), u # t PROVE Untouched(u)'
    <3>1. messages' = [messages EXCEPT ![Conv(t)] =
                         Append(messages[Conv(t)], Row(t, RoleAt(pc[t])))]
      BY <1>1 DEF SaveMessage
    <3>2. \A c \in Convs : messages[c] \in Seq(Message)
      BY <1>a DEF Stored
    <3>3. Row(t, RoleAt(pc[t])).turn # u
      BY <2>3 DEF Row
    <3>4. ASSUME NEW c \in Convs, NEW i \in DOMAIN messages'[c]
          PROVE  messages'[c][i].turn # u
      BY <1>a, <2>3, <3>1, <3>2, <3>3, <3>4 DEF Stored
    <3>5. QED
      BY <2>2, <2>3, <3>4
  <2>4. QED
    BY <1>a, <2>1, <2>2, <2>3 DEF Moved
<1>2. CASE Remember(t)
  BY <1>a, <1>2 DEF Remember, Close, Row, Moved, talk
<1>3. CASE RememberFails(t)
  BY <1>a, <1>3 DEF RememberFails, Close, Moved, stores, talk
<1>4. CASE Record(t)
  BY <1>a, <1>4 DEF Record, AfterRecord, Unwind, Moved
<1>5. CASE Report(t)
  BY <1>a, <1>5 DEF Report, Moved, stores, talk
<1>6. CASE Finish(t)
  BY <1>a, <1>6 DEF Finish, AfterDone, Moved, stores, talk
<1>7. QED
  BY <1>1, <1>2, <1>3, <1>4, <1>5, <1>6

\* Faults, departures and restarts keep TurnInv of every turn.
LEMMA EnvironmentTurns ==
  ASSUME TypeInv, NEW u \in Turns,
         \/ \E t \in Turns : Fault(t) \/ Leave(t)
         \/ Restart \/ Quiescent \/ UNCHANGED vars
  PROVE  TurnInv(u)'
<1>a. Moved /\ TurnInv(u) /\ \A t \in Turns : TurnInv(t)
  BY TypeHalves DEF TypeInv
<1> USE DEF TurnInv, Untouched, Early, Saving, Go
<1>1. ASSUME NEW t \in Turns, Fault(t) PROVE TurnInv(u)'
  BY <1>a, <1>1 DEF Fault, Raise, Moved, stores
<1>2. ASSUME NEW t \in Turns, Leave(t) PROVE TurnInv(u)'
  BY <1>a, <1>2 DEF Leave, Unwind, Moved
<1>3. CASE Restart
  BY <1>a, <1>3 DEF Restart, Unwind, Moved, stores
<1>4. CASE Quiescent \/ UNCHANGED vars
  BY <1>a, <1>4 DEF Quiescent, vars, stores, talk
<1>5. QED
  BY <1>1, <1>2, <1>3, <1>4

\* Every step keeps TurnInv of every turn.
LEMMA StepTurns ==
  ASSUME TypeInv, [Next]_vars, NEW u \in Turns
  PROVE  TurnInv(u)'
BY OpeningTurns, LoopTurns, WritingTurns, EnvironmentTurns DEF Next, TurnStep

----
\* TypeInv is an invariant of concurrent turns.
LEMMA TypeInvariant == Spec => []TypeInv
<1>1. Init => TypeInv
  BY InitType, InitTurns DEF TypeInv
<1>2. TypeInv /\ [Next]_vars => TypeInv'
  BY StepType, StepTurns DEF TypeInv
<1>3. QED
  BY <1>1, <1>2, PTL DEF Spec

\* Type correctness of a turn, for any turns, tools and bounds.
THEOREM TypeCorrect == Spec => []TypeOK
<1>1. TypeInv => TypeOK
  BY DEF TypeInv
<1>2. QED
  BY <1>1, TypeInvariant, PTL

\* Once a tool has asked for approval the turn runs nothing and writes nothing
\* more, whatever else the reply asked for and whichever turns run beside it.
THEOREM HeldTurnsStop == Spec => []HeldTurnStops
<1>1. TypeInv => HeldTurnStops
  <2>1. SUFFICES ASSUME TypeInv, NEW t \in Turns
        PROVE  /\ \A i \in DOMAIN ran[t] :
                    ran[t][i].result = "approval"
                      => i = Len(ran[t]) /\ outcome[t] = "held"
               /\ outcome[t] = "held" =>
                    /\ todo[t] = <<>>
                    /\ \A r \in Role : ~HasRow(t, r) /\ Row(t, r) \notin memory
    BY DEF HeldTurnStops
  <2>2. TurnInv(t) /\ Conv(t) \in Convs
    BY <2>1, AskType DEF TypeInv
  <2>3. ASSUME Untouched(t), NEW r \in Role
        PROVE  ~HasRow(t, r) /\ Row(t, r) \notin memory
    BY <2>2, <2>3 DEF Untouched, HasRow, Row, ToSet
  <2>4. QED
    BY <2>1, <2>2, <2>3 DEF TurnInv
<1>2. QED
  BY <1>1, TypeInvariant, PTL
====

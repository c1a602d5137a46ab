---- MODULE CruzAnswersProofs ----
(***************************************************************************)
(* What TLAPS proves of the answers of CruzTurn, beside CruzTurnProofs:    *)
(* which rows of an exchange are there at which point of a turn, what a    *)
(* stream has said by then, what has been recorded of it, and that all of  *)
(* it is what TurnLedger promises the callers.                             *)
(***************************************************************************)
EXTENDS CruzTurnProofs, InductionProofs, FiniteSetTheorems, SequenceTheorems

----
\* Where the rows of a turn stand in its conversation.
At(t, r) == {i \in DOMAIN messages[Conv(t)] : messages[Conv(t)][i] = Row(t, r)}

\* Nothing, the question, or the question and behind it the answer.
Blank(t) == At(t, "user") = {} /\ At(t, "assistant") = {}
Half(t) == (\E i \in Nat : At(t, "user") = {i}) /\ At(t, "assistant") = {}
Whole(t) == \E i, j \in Nat :
              i < j /\ At(t, "user") = {i} /\ At(t, "assistant") = {j}

\* The consumer of the stream has heard how the turn ends, or that it is over.
Marks == {"approval_required", "error", "done"}
Told(t) == \E i \in DOMAIN events[t] : events[t][i] \in Marks

\* The answers that are to be kept.
Kept(t) == IF Streams(t) THEN spoke[t] ELSE ~cut[t]

\* A stream has announced a tool and not finished it.
Owes(t) == pc[t] = "tool" /\ Streams(t) /\ Head(todo[t]) \notin Quiet

Balanced(t) == Count(events[t], "tool_start")
                 = Count(events[t], "tool_finish") + (IF Owes(t) THEN 1 ELSE 0)

\* StreamProtocol of one sequence of events.
Ordered(s) ==
  \A i \in DOMAIN s :
    /\ s[i] = "done" => i = Len(s)
    /\ s[i] \in {"approval_required", "error"} /\ i < Len(s)
         => s[i + 1] = "done"
    /\ s[i] \in {"text", "tool_start"} =>
         Count(SubSeq(s, 1, i - 1), "tool_start")
           = Count(SubSeq(s, 1, i - 1), "tool_finish")

\* Where a turn is, and what its consumer has heard by then.
EventsInv(t) ==
  /\ ~Streams(t) => events[t] = <<>> /\ pc[t] # "stream"
  /\ pc[t] \in {"new", "report"} \cup Early \cup Saving => ~Told(t)
  /\ pc[t] = "report" => outcome[t] = "error"
  /\ pc[t] = "done" /\ outcome[t] = "answer" => ~Told(t)
  /\ pc[t] = "record" /\ outcome[t] = "error" => ~Told(t)
  /\ pc[t] = "done" =>
       \A i \in DOMAIN events[t] :
         events[t][i] \in Marks => i = Len(events[t]) /\ events[t][i] # "done"
  /\ Streams(t) /\ (pc[t] = "end" \/ (pc[t] = "record" /\ outcome[t] # "error"))
       => events[t] # <<>> /\ Last(events[t]) = "done"
  /\ pc[t] \in {"new"} \cup Early => Balanced(t)
  /\ Ordered(events[t])

----
\* Counting events.  A count is a number, and grows by the event appended.
LEMMA CountType ==
  ASSUME NEW s \in Seq(Event), NEW e
  PROVE  Count(s, e) \in Nat /\ IsFiniteSet({i \in DOMAIN s : s[i] = e})
<1>1. IsFiniteSet(1..Len(s))
  BY FS_Interval
<1>2. {i \in DOMAIN s : s[i] = e} \subseteq 1..Len(s)
  OBVIOUS
<1>3. IsFiniteSet({i \in DOMAIN s : s[i] = e})
  BY <1>1, <1>2, FS_Subset
<1>4. QED
  BY <1>3, FS_CardinalityType DEF Count

LEMMA CountAppend ==
  ASSUME NEW s \in Seq(Event), NEW x \in Event, NEW e
  PROVE  Count(Append(s, x), e) = Count(s, e) + (IF x = e THEN 1 ELSE 0)
<1> DEFINE D == {i \in DOMAIN s : s[i] = e}
           E == {i \in DOMAIN Append(s, x) : Append(s, x)[i] = e}
<1>1. IsFiniteSet(D) /\ Cardinality(D) \in Nat
  BY CountType DEF Count
<1>2. CASE x = e
  <2>1. E = D \cup {Len(s) + 1}
    BY <1>2
  <2>2. Len(s) + 1 \notin D
    OBVIOUS
  <2>3. Cardinality(E) = Cardinality(D) + 1
    BY <1>1, <2>1, <2>2, FS_AddElement
  <2>4. QED
    BY <1>2, <2>3 DEF Count
<1>3. CASE x # e
  <2>1. E = D
    BY <1>3
  <2>2. Cardinality(D) + 0 = Cardinality(D)
    BY <1>1
  <2>3. QED
    BY <1>3, <2>1, <2>2 DEF Count
<1>4. QED
  BY <1>2, <1>3

\* What an event sees before it stays when another is appended.
LEMMA PrefixAppend ==
  ASSUME NEW s \in Seq(Event), NEW x \in Event
  PROVE  /\ \A i \in 1..Len(s) :
              SubSeq(Append(s, x), 1, i - 1) = SubSeq(s, 1, i - 1)
         /\ SubSeq(Append(s, x), 1, Len(s)) = s
<1>1. /\ Append(s, x) \in Seq(Event) /\ Len(Append(s, x)) = Len(s) + 1
      /\ \A i \in 1..Len(s) : Append(s, x)[i] = s[i]
  OBVIOUS
<1>2. ASSUME NEW i \in 1..Len(s)
      PROVE  SubSeq(Append(s, x), 1, i - 1) = SubSeq(s, 1, i - 1)
  BY <1>1
<1>3. SubSeq(Append(s, x), 1, Len(s)) = s
  BY <1>1
<1>4. QED
  BY <1>2, <1>3

\* An event keeps the protocol if nothing final precedes it, but for the done
\* behind an approval request or an error, and if a text or a start finds
\* every tool finished.
LEMMA OrderedAppend ==
  ASSUME NEW s \in Seq(Event), NEW x \in Event, Ordered(s),
         \A i \in DOMAIN s :
           s[i] \in Marks => i = Len(s) /\ s[i] # "done" /\ x = "done",
         x \in {"text", "tool_start"} =>
           Count(s, "tool_start") = Count(s, "tool_finish")
  PROVE  Ordered(Append(s, x))
<1> DEFINE z == Append(s, x)
<1>1. /\ z \in Seq(Event) /\ Len(z) = Len(s) + 1 /\ DOMAIN z = 1..(Len(s) + 1)
      /\ DOMAIN s = 1..Len(s) /\ Len(s) \in Nat
      /\ \A i \in 1..Len(s) : z[i] = s[i]
      /\ z[Len(s) + 1] = x
  OBVIOUS
<1>2. SUFFICES ASSUME NEW i \in DOMAIN z
      PROVE  /\ z[i] = "done" => i = Len(z)
             /\ z[i] \in {"approval_required", "error"} /\ i < Len(z)
                  => z[i + 1] = "done"
             /\ z[i] \in {"text", "tool_start"} =>
                  Count(SubSeq(z, 1, i - 1), "tool_start")
                    = Count(SubSeq(z, 1, i - 1), "tool_finish")
  BY DEF Ordered
<1>3. CASE i \in 1..Len(s)
  <2>1. z[i] = s[i] /\ SubSeq(z, 1, i - 1) = SubSeq(s, 1, i - 1)
    BY <1>1, <1>3, PrefixAppend
  <2>2. z[i] # "done"
    BY <1>1, <1>3, <2>1 DEF Marks
  <2>3. z[i] \in {"approval_required", "error"} => z[i + 1] = "done"
    BY <1>1, <1>3, <2>1 DEF Marks
  <2>4. z[i] \in {"text", "tool_start"} =>
          Count(SubSeq(z, 1, i - 1), "tool_start")
            = Count(SubSeq(z, 1, i - 1), "tool_finish")
    BY <1>1, <1>3, <2>1 DEF Ordered
  <2>5. QED
    BY <2>2, <2>3, <2>4
<1>4. CASE i = Len(s) + 1
  <2>1. z[i] = x /\ SubSeq(z, 1, i - 1) = s
    <3>1. i - 1 = Len(s)
      BY <1>1, <1>4
    <3>2. QED
      BY <1>1, <1>4, <3>1, PrefixAppend
  <2>2. i = Len(z) /\ ~(i < Len(z))
    BY <1>1, <1>4
  <2>3. x \in {"text", "tool_start"} =>
          Count(SubSeq(z, 1, i - 1), "tool_start")
            = Count(SubSeq(z, 1, i - 1), "tool_finish")
    BY <2>1
  <2>4. QED
    BY <2>1, <2>2, <2>3
<1>5. QED
  BY <1>1, <1>3, <1>4

----
\* A step that leaves turn u, its rows and its records alone.
Apart(u) ==
  /\ pc'[u] = pc[u] /\ outcome'[u] = outcome[u] /\ todo'[u] = todo[u]
  /\ events'[u] = events[u] /\ history'[u] = history[u]
  /\ spoke'[u] = spoke[u] /\ cut'[u] = cut[u] /\ before'[u] = before[u]
  /\ \A r \in Role : At(u, r)' = At(u, r)
  /\ {m \in memory' : m.turn = u} = {m \in memory : m.turn = u}
  /\ {a \in activities' : a.turn = u} = {a \in activities : a.turn = u}

\* No step changes what was asked.
LEMMA AskStays == ASSUME [Next]_vars PROVE ask' = ask
BY DEF Next, TurnStep, vars, Receive, FindConversation, CreateConversation,
       LoadHistory, GetDevice, SetDevice, PublishSwitch, HandoffFails,
       CallModel, StreamModel, EndOfStream, RunTool, SaveMessage, Remember,
       RememberFails, Record, Report, Finish, Fault, Leave, Restart, Quiescent

\* An event of one turn is not heard by another.
LEMMA EmitApart ==
  ASSUME events \in [Turns -> Seq(Event)], NEW t \in Turns, NEW u \in Turns,
         u # t, NEW es, Emit(t, es)
  PROVE  events'[u] = events[u]
BY DEF Emit

\* The steps before the loop leave the other turns alone.
LEMMA OpeningApart ==
  ASSUME TypeInv, ask' = ask, NEW t \in Turns, NEW u \in Turns, u # t,
         \/ Receive(t) \/ FindConversation(t) \/ CreateConversation(t)
         \/ LoadHistory(t) \/ GetDevice(t) \/ SetDevice(t)
         \/ PublishSwitch(t) \/ HandoffFails(t) \/ Fault(t)
  PROVE  Apart(u)
<1>a. Moved /\ Stored
  BY TypeHalves DEF TypeInv
<1> USE DEF Apart, At, Conv, Go
<1>1. CASE Receive(t)
  BY <1>a, <1>1 DEF Receive, Moved, Stored, stores, talk
<1>2. CASE FindConversation(t)
  BY <1>a, <1>2 DEF FindConversation, Moved, stores, talk
<1>3. CASE CreateConversation(t)
  BY <1>a, <1>3 DEF CreateConversation, Raise, Moved, talk
<1>4. CASE LoadHistory(t)
  BY <1>a, <1>4 DEF LoadHistory, Moved, stores, talk
<1>5. CASE GetDevice(t)
  BY <1>a, <1>5 DEF GetDevice, Moved, stores, talk
<1>6. CASE SetDevice(t)
  BY <1>a, <1>6 DEF SetDevice, Moved, talk
<1>7. CASE PublishSwitch(t)
  BY <1>a, <1>7 DEF PublishSwitch, Moved, talk
<1>8. CASE HandoffFails(t)
  BY <1>a, <1>8 DEF HandoffFails, Moved, stores, talk
<1>9. CASE Fault(t)
  BY <1>a, <1>9 DEF Fault, Raise, Moved, stores
<1>10. QED
  BY <1>1, <1>2, <1>3, <1>4, <1>5, <1>6, <1>7, <1>8, <1>9

\* What can come of a tool call.
LEMMA RunToolCases ==
  ASSUME NEW t \in Turns, RunTool(t)
  PROVE  \/ /\ todo' = [todo EXCEPT ![t] = Tail(todo[t])]
            /\ Emit(t, Finished(Head(todo[t])) \o Announce(Tail(todo[t])))
            /\ Go(t, IF Tail(todo[t]) = <<>> THEN "model" ELSE "tool")
            /\ UNCHANGED outcome
         \/ /\ todo' = [todo EXCEPT ![t] = <<>>]
            /\ Emit(t, <<"approval_required">>)
            /\ Go(t, AfterApproval(t))
            /\ outcome' = [outcome EXCEPT ![t] = "held"]
         \/ /\ todo' = [todo EXCEPT ![t] = <<>>]
            /\ Go(t, "record")
            /\ outcome' = [outcome EXCEPT ![t] = "error"]
            /\ UNCHANGED events
<1>1. PICK result \in Results(Head(todo[t])) :
        CASE result = "result" ->
               /\ todo' = [todo EXCEPT ![t] = Tail(todo[t])]
               /\ Emit(t, Finished(Head(todo[t])) \o Announce(Tail(todo[t])))
               /\ Go(t, IF Tail(todo[t]) = <<>> THEN "model" ELSE "tool")
               /\ UNCHANGED outcome
          [] result = "approval" ->
               /\ todo' = [todo EXCEPT ![t] = <<>>]
               /\ Emit(t, <<"approval_required">>)
               /\ Go(t, AfterApproval(t))
               /\ outcome' = [outcome EXCEPT ![t] = "held"]
          [] result = "raise" ->
               /\ todo' = [todo EXCEPT ![t] = <<>>]
               /\ Go(t, "record")
               /\ outcome' = [outcome EXCEPT ![t] = "error"]
               /\ UNCHANGED events
  BY DEF RunTool
<1>2. result \in {"result", "approval", "raise"}
  BY DEF Results
<1>3. QED
  BY <1>1, <1>2

\* The steps of the loop leave the other turns alone.
LEMMA LoopApart ==
  ASSUME TypeInv, ask' = ask, NEW t \in Turns, NEW u \in Turns, u # t,
         CallModel(t) \/ StreamModel(t) \/ EndOfStream(t) \/ RunTool(t)
  PROVE  Apart(u)
<1>a. Moved /\ Stored
  BY TypeHalves DEF TypeInv
<1> USE DEF Apart, At, Conv, Go
<1>1. CASE CallModel(t)
  BY <1>a, <1>1 DEF CallModel, Reply, Moved, stores
<1>2. CASE StreamModel(t)
  BY <1>a, <1>2 DEF StreamModel, Reply, Emit, Moved, stores
<1>3. CASE EndOfStream(t)
  BY <1>a, <1>3 DEF EndOfStream, Emit, Moved, stores, talk
<1>4. CASE RunTool(t)
  <2>1. UNCHANGED <<ask, stores, history, device, calls, spoke, cut, before>>
    BY <1>4 DEF RunTool
  <2>2. /\ pc'[u] = pc[u] /\ outcome'[u] = outcome[u] /\ todo'[u] = todo[u]
        /\ events'[u] = events[u]
    BY <1>a, <1>4, RunToolCases DEF Emit, Moved
  <2>3. QED
    BY <2>1, <2>2 DEF stores
<1>5. QED
  BY <1>1, <1>2, <1>3, <1>4

\* A row of one turn does not move the rows of another.
LEMMA SavedApart ==
  ASSUME TypeInv, ask' = ask, NEW t \in Turns, NEW u \in Turns, u # t,
         SaveMessage(t), NEW r \in Role
  PROVE  At(u, r)' = At(u, r)
<1> DEFINE m == Row(t, RoleAt(pc[t]))
<1>a. Stored /\ Conv(t) \in Convs /\ Conv(u) \in Convs
  BY TypeHalves, AskType DEF TypeInv
<1>1. messages' = [messages EXCEPT ![Conv(t)] = Append(@, m)]
  BY DEF SaveMessage
<1>2. m # Row(u, r)
  BY DEF Row
<1>3. messages[Conv(u)] \in Seq(Message)
  BY <1>a DEF Stored
<1>4. CASE Conv(u) = Conv(t)
  <2>1. messages'[Conv(u)] = Append(messages[Conv(u)], m)
    BY <1>a, <1>1, <1>4 DEF Stored
  <2>2. Conv(u)' = Conv(u)
    BY DEF Conv
  <2>3. \A i \in DOMAIN messages'[Conv(u)] :
          \/ i \in DOMAIN messages[Conv(u)]
             /\ messages'[Conv(u)][i] = messages[Conv(u)][i]
          \/ messages'[Conv(u)][i] = m
    BY <1>3, <2>1
  <2>4. \A i \in DOMAIN messages[Conv(u)] :
          /\ i \in DOMAIN messages'[Conv(u)]
          /\ messages'[Conv(u)][i] = messages[Conv(u)][i]
    BY <1>3, <2>1
  <2>5. Row(u, r)' = Row(u, r)
    BY DEF Row
  <2>6. QED
    BY <1>2, <2>2, <2>3, <2>4, <2>5 DEF At
<1>5. CASE Conv(u) # Conv(t)
  <2>1. messages'[Conv(u)] = messages[Conv(u)]
    BY <1>a, <1>1, <1>5 DEF Stored
  <2>2. QED
    BY <2>1 DEF At, Conv, Row
<1>6. QED
  BY <1>4, <1>5

\* Writing a turn down leaves the other turns alone.
LEMMA WritingApart ==
  ASSUME TypeInv, ask' = ask, NEW t \in Turns, NEW u \in Turns, u # t,
         \/ SaveMessage(t) \/ Remember(t) \/ RememberFails(t)
         \/ Record(t) \/ Report(t) \/ Finish(t) \/ Leave(t)
  PROVE  Apart(u)
<1>a. Moved /\ Stored
  BY TypeHalves DEF TypeInv
<1> USE DEF Apart, Go
<1>1. CASE SaveMessage(t)
  BY <1>a, <1>1, SavedApart DEF SaveMessage, Moved, talk
<1>2. CASE Remember(t)
  BY <1>a, <1>2 DEF Remember, Row, At, Conv, Moved, talk
<1>3. CASE RememberFails(t)
  BY <1>a, <1>3 DEF RememberFails, At, Conv, Moved, stores, talk
<1>4. CASE Record(t)
  BY <1>a, <1>4 DEF Record, Unwind, At, Conv, Moved
<1>5. CASE Report(t)
  BY <1>a, <1>5 DEF Report, Emit, At, Conv, Moved, stores, talk
<1>6. CASE Finish(t)
  BY <1>a, <1>6 DEF Finish, Emit, At, Conv, Moved, stores, talk
<1>7. CASE Leave(t)
  BY <1>a, <1>7 DEF Leave, Unwind, At, Conv, Moved
<1>8. QED
  BY <1>1, <1>2, <1>3, <1>4, <1>5, <1>6, <1>7

\* A step of one turn leaves every other alone.
LEMMA StepApart ==
  ASSUME TypeInv, [Next]_vars, NEW t \in Turns, NEW u \in Turns, u # t,
         TurnStep(t) \/ Fault(t) \/ Leave(t)
  PROVE  Apart(u)
BY AskStays, OpeningApart, LoopApart, WritingApart DEF TurnStep

\* A step that moves nothing leaves every turn alone.
LEMMA StutterApart ==
  ASSUME Quiescent \/ UNCHANGED vars, NEW u \in Turns
  PROVE  Apart(u) /\ ask' = ask
BY DEF Quiescent, vars, stores, talk, Apart, At, Conv

\* A restart takes the running turns and leaves their rows and records.
LEMMA RestartApart ==
  ASSUME TypeInv, Restart, NEW u \in Turns
  PROVE  /\ pc'[u] = IF pc[u] \in Ended \cup {"new"} THEN pc[u] ELSE "lost"
         /\ UNCHANGED <<ask, stores, spoke, cut, outcome, events, before>>
         /\ \A r \in Role : At(u, r)' = At(u, r)
BY DEF Restart, Running, stores, At, Conv

----
\* EventsInv holds at first.
LEMMA InitEvents ==
  ASSUME Init, NEW t \in Turns
  PROVE  EventsInv(t)
<1>1. events[t] = <<>> /\ pc[t] = "new"
  BY DEF Init
<1>2. Count(events[t], "tool_start") = Count(events[t], "tool_finish")
  <2>1. \A e : {i \in DOMAIN events[t] : events[t][i] = e} = {}
    BY <1>1
  <2>2. QED
    BY <2>1 DEF Count
<1>3. Count(events[t], "tool_finish") \in Nat
  <2>1. <<>> \in Seq(Event)
    OBVIOUS
  <2>2. QED
    BY <1>1, <2>1, CountType
<1>4. QED
  BY <1>1, <1>2, <1>3 DEF EventsInv, Told, Balanced, Owes, Ordered

\* A turn left alone keeps EventsInv.
LEMMA ApartEvents ==
  ASSUME NEW u \in Turns, EventsInv(u), Apart(u), ask' = ask
  PROVE  EventsInv(u)'
BY DEF EventsInv, Apart, Streams, Told, Balanced, Owes, Ordered

\* The steps before the loop, and errors, say nothing.
LEMMA OpeningEvents ==
  ASSUME TypeInv, ask' = ask, NEW t \in Turns, EventsInv(t),
         \/ Receive(t) \/ FindConversation(t) \/ CreateConversation(t)
         \/ LoadHistory(t) \/ GetDevice(t) \/ SetDevice(t)
         \/ PublishSwitch(t) \/ HandoffFails(t) \/ Fault(t)
  PROVE  EventsInv(t)'
<1>a. Moved /\ TurnInv(t)
  BY TypeHalves DEF TypeInv
<1>1. /\ events' = events
      /\ pc[t] \in {"new"} \cup Early \cup Saving
      /\ pc[t] \notin {"tool"}
      /\ \/ /\ pc'[t] \in Early \ {"tool", "stream"}
            /\ pc[t] \in {"new"} \cup Early
         \/ pc'[t] = "record" /\ outcome'[t] = "error"
  BY <1>a DEF Receive, FindConversation, CreateConversation, LoadHistory,
              GetDevice, SetDevice, PublishSwitch, HandoffFails, Fault, Raise,
              Go, Moved, stores, talk, Early, Saving
<1>2. ~Told(t) /\ ~Told(t)'
  BY <1>1 DEF EventsInv, Told
<1>3. QED
  BY <1>1, <1>2 DEF EventsInv, Streams, Balanced, Owes, Early, Saving

\* A turn that raises has said nothing final, and says nothing more.
LEMMA RaiseEvents ==
  ASSUME NEW t \in Turns, EventsInv(t), ask' = ask, events' = events,
         pc[t] \in Early, pc'[t] = "record", outcome'[t] = "error"
  PROVE  EventsInv(t)'
<1>1. ~Told(t) /\ ~Told(t)'
  BY DEF EventsInv, Told
<1>2. QED
  BY <1>1 DEF EventsInv, Streams, Early, Saving

\* The ways an event is appended to a stream.
LEMMA Appended ==
  ASSUME NEW s \in Seq(Event), NEW x \in Event, NEW y \in Event
  PROVE  /\ s \o <<>> = s
         /\ s \o <<x>> = Append(s, x)
         /\ s \o (<<x>> \o <<y>>) = Append(Append(s, x), y)
         /\ <<x>> \o <<>> = <<x>> /\ <<>> \o <<x>> = <<x>>
         /\ <<>> \o <<>> = <<>>
OBVIOUS

\* A text or a start may follow when every tool is finished.
LEMMA SayNext ==
  ASSUME NEW s \in Seq(Event), Ordered(s),
         \A i \in DOMAIN s : s[i] \notin Marks,
         NEW x \in Event \ Marks, 
         x \in {"text", "tool_start"} =>
           Count(s, "tool_start") = Count(s, "tool_finish")
  PROVE  /\ Ordered(Append(s, x))
         /\ \A i \in DOMAIN Append(s, x) : Append(s, x)[i] \notin Marks
         /\ Append(s, x) \in Seq(Event)
<1>1. Ordered(Append(s, x))
  BY OrderedAppend
<1>2. QED
  BY <1>1

\* What a stream says when it runs a tool keeps the protocol.
LEMMA ToolEvents ==
  ASSUME NEW s \in Seq(Event), Ordered(s),
         \A i \in DOMAIN s : s[i] \notin Marks,
         NEW tool, NEW rest,
         Count(s, "tool_start")
           = Count(s, "tool_finish") + (IF tool \notin Quiet THEN 1 ELSE 0),
         NEW z, z = s \o (Finished(tool) \o Announce(rest))
  PROVE  /\ Ordered(z)
         /\ \A i \in DOMAIN z : z[i] \notin Marks
         /\ Count(z, "tool_start")
              = Count(z, "tool_finish")
                  + (IF rest # <<>> /\ Head(rest) \notin Quiet THEN 1 ELSE 0)
<1>a. "tool_finish" \in Event \ Marks /\ "tool_start" \in Event \ Marks
  BY DEF Event, Marks
<1>b. Count(s, "tool_start") \in Nat /\ Count(s, "tool_finish") \in Nat
  BY CountType
<1> DEFINE f == IF tool \in Quiet THEN s ELSE Append(s, "tool_finish")
           g == IF rest # <<>> /\ Head(rest) \notin Quiet
                THEN Append(f, "tool_start") ELSE f
<1>1. z = g
  BY <1>a, Appended DEF Finished, Announce
<1>2. /\ Ordered(f) /\ f \in Seq(Event)
      /\ \A i \in DOMAIN f : f[i] \notin Marks
      /\ Count(f, "tool_start") = Count(f, "tool_finish")
  <2>1. CASE tool \in Quiet
    BY <1>b, <2>1
  <2>2. CASE tool \notin Quiet
    <3>1. /\ Count(f, "tool_start") = Count(s, "tool_start") + 0
          /\ Count(f, "tool_finish") = Count(s, "tool_finish") + 1
      BY <1>a, <2>2, CountAppend
    <3>2. QED
      BY <1>a, <1>b, <2>2, <3>1, SayNext
  <2>3. QED
    BY <2>1, <2>2
<1>3. Count(f, "tool_start") \in Nat /\ Count(f, "tool_finish") \in Nat
  BY <1>2, CountType
<1> HIDE DEF f
<1>4. CASE rest # <<>> /\ Head(rest) \notin Quiet
  <2>1. /\ Count(g, "tool_start") = Count(f, "tool_start") + 1
        /\ Count(g, "tool_finish") = Count(f, "tool_finish") + 0
    BY <1>a, <1>2, <1>4, CountAppend
  <2>2. Ordered(g) /\ \A i \in DOMAIN g : g[i] \notin Marks
    BY <1>a, <1>2, <1>4, SayNext
  <2>3. QED
    BY <1>1, <1>2, <1>3, <1>4, <2>1, <2>2
<1>5. CASE ~(rest # <<>> /\ Head(rest) \notin Quiet)
  BY <1>1, <1>2, <1>3, <1>5
<1>6. QED
  BY <1>4, <1>5

\* The steps of the loop keep the protocol.
LEMMA LoopEvents ==
  ASSUME TypeInv, ask' = ask, NEW t \in Turns, EventsInv(t),
         CallModel(t) \/ StreamModel(t) \/ EndOfStream(t) \/ RunTool(t)
  PROVE  EventsInv(t)'
<1>a. Moved /\ TurnInv(t) /\ events[t] \in Seq(Event)
  BY TypeHalves DEF TypeInv, Moved
<1>b. /\ pc[t] \in Early /\ ~Told(t) /\ Balanced(t) /\ Ordered(events[t])
      /\ \A i \in DOMAIN events[t] : events[t][i] \notin Marks
  BY DEF CallModel, StreamModel, EndOfStream, RunTool, EventsInv, Early, Told
<1>c. /\ Count(events[t], "tool_start") \in Nat
      /\ Count(events[t], "tool_finish") \in Nat
  BY <1>a, CountType
<1>d. Streams(t)' = Streams(t)
  BY DEF Streams
<1>1. CASE CallModel(t)
  <2>1. /\ ~Streams(t) /\ events' = events
        /\ \/ pc'[t] = "tool"
           \/ pc'[t] \in {"record", "saveq"} /\ outcome'[t] = "answer"
    BY <1>a, <1>1 DEF CallModel, Go, Moved
  <2>2. pc[t] = "model" /\ ~Told(t)'
    BY <1>1, <1>b, <2>1 DEF CallModel, Told
  <2>3. Balanced(t)'
    BY <1>b, <1>d, <2>1, <2>2 DEF Balanced, Owes
  <2>4. QED
    BY <1>a, <1>b, <1>d, <2>1, <2>2, <2>3 DEF EventsInv, Early, Saving
<1>2. CASE StreamModel(t)
  <2>1. PICK text \in BOOLEAN : Emit(t, IF text THEN <<"text">> ELSE <<>>)
    BY <1>2 DEF StreamModel
  <2>2. pc[t] = "model" /\ pc'[t] = "stream" /\ Streams(t)
    BY <1>a, <1>2 DEF StreamModel, Go, Moved
  <2>3. Count(events[t], "tool_start") = Count(events[t], "tool_finish")
    BY <1>b, <1>c, <2>2 DEF Balanced, Owes
  <2>4. "text" \in Event \ Marks
    BY DEF Event, Marks
  <2>5. events'[t] = IF text THEN Append(events[t], "text") ELSE events[t]
    BY <1>a, <2>1, <2>2, <2>4, Appended DEF Emit, Moved
  <2>6. /\ Ordered(events'[t])
        /\ \A i \in DOMAIN events'[t] : events'[t][i] \notin Marks
    BY <1>a, <1>b, <2>3, <2>4, <2>5, SayNext
  <2>7. Count(events'[t], "tool_start") = Count(events'[t], "tool_finish")
    <3>1. CASE text
      <4>1. /\ Count(events'[t], "tool_start")
                  = Count(events[t], "tool_start") + 0
            /\ Count(events'[t], "tool_finish")
                  = Count(events[t], "tool_finish") + 0
        BY <1>a, <2>4, <2>5, <3>1, CountAppend
      <4>2. QED
        BY <1>c, <2>3, <4>1
    <3>2. CASE ~text
      BY <2>3, <2>5, <3>2
    <3>3. QED
      BY <3>1, <3>2
  <2>8. Count(events'[t], "tool_finish") \in Nat
    <3>1. events'[t] \in Seq(Event)
      BY <1>a, <2>4, <2>5
    <3>2. QED
      BY <3>1, CountType
  <2>9. QED
    BY <1>d, <2>2, <2>6, <2>7, <2>8
       DEF EventsInv, Told, Balanced, Owes, Early, Saving
<1>3. CASE EndOfStream(t)
  <2>1. pc[t] = "stream" /\ Streams(t)
    BY <1>3 DEF EndOfStream, EventsInv
  <2>2. Count(events[t], "tool_start") = Count(events[t], "tool_finish")
    BY <1>b, <1>c, <2>1 DEF Balanced, Owes
  <2>3. CASE todo[t] # <<>>
    <3>1. pc'[t] = "tool" /\ todo'[t] = todo[t] /\ Emit(t, Announce(todo[t]))
      BY <1>a, <1>3, <2>3 DEF EndOfStream, Go, Moved, talk
    <3>2. "tool_start" \in Event \ Marks
      BY DEF Event, Marks
    <3>3. events'[t] = IF Head(todo[t]) \in Quiet THEN events[t]
                       ELSE Append(events[t], "tool_start")
      BY <1>a, <2>1, <2>3, <3>1, <3>2, Appended DEF Emit, Announce, Moved
    <3>4. /\ Ordered(events'[t])
          /\ \A i \in DOMAIN events'[t] : events'[t][i] \notin Marks
      BY <1>a, <1>b, <2>2, <3>2, <3>3, SayNext
    <3>5. Count(events'[t], "tool_start") = Count(events'[t], "tool_finish")
            + (IF Head(todo[t]) \notin Quiet THEN 1 ELSE 0)
      <4>1. CASE Head(todo[t]) \in Quiet
        BY <1>c, <2>2, <3>3, <4>1
      <4>2. CASE Head(todo[t]) \notin Quiet
        <5>1. /\ Count(events'[t], "tool_start")
                  = Count(events[t], "tool_start") + 1
              /\ Count(events'[t], "tool_finish")
                  = Count(events[t], "tool_finish") + 0
          BY <1>a, <3>2, <3>3, <4>2, CountAppend
        <5>2. QED
          BY <1>c, <2>2, <4>2, <5>1
      <4>3. QED
        BY <4>1, <4>2
    <3>6. Balanced(t)'
      BY <1>d, <2>1, <3>1, <3>5 DEF Balanced, Owes
    <3>7. QED
      BY <1>d, <2>1, <3>1, <3>4, <3>6 DEF EventsInv, Told, Early, Saving
  <2>4. CASE todo[t] = <<>>
    <3>1. /\ events' = events /\ outcome'[t] = "answer"
          /\ pc'[t] \in {"saveq", "done"}
      BY <1>a, <1>3, <2>4 DEF EndOfStream, Go, Moved
    <3>2. ~Told(t)'
      BY <1>b, <3>1 DEF Told
    <3>3. QED
      BY <1>b, <1>d, <2>1, <3>1, <3>2 DEF EventsInv, Told, Early, Saving
  <2>5. QED
    BY <2>3, <2>4
<1>4. CASE RunTool(t)
  <2>1. pc[t] = "tool" /\ todo[t] \in Seq(Tools)
    BY <1>a, <1>4 DEF RunTool, Moved
  <2>2. CASE /\ todo' = [todo EXCEPT ![t] = Tail(todo[t])]
             /\ Emit(t, Finished(Head(todo[t])) \o Announce(Tail(todo[t])))
             /\ Go(t, IF Tail(todo[t]) = <<>> THEN "model" ELSE "tool")
             /\ UNCHANGED outcome
    <3>1. /\ todo'[t] = Tail(todo[t])
          /\ pc'[t] = IF Tail(todo[t]) = <<>> THEN "model" ELSE "tool"
      BY <1>a, <2>2 DEF Go, Moved
    <3>2. CASE Streams(t)
      <4>1. events'[t] =
              events[t] \o (Finished(Head(todo[t])) \o Announce(Tail(todo[t])))
        BY <1>a, <2>2, <3>2 DEF Emit, Moved
      <4>2. Count(events[t], "tool_start") = Count(events[t], "tool_finish")
              + (IF Head(todo[t]) \notin Quiet THEN 1 ELSE 0)
        BY <1>b, <2>1, <3>2 DEF Balanced, Owes
      <4>3. /\ Ordered(events'[t])
            /\ \A i \in DOMAIN events'[t] : events'[t][i] \notin Marks
            /\ Count(events'[t], "tool_start") = Count(events'[t], "tool_finish")
                 + (IF Tail(todo[t]) # <<>> /\ Head(Tail(todo[t])) \notin Quiet
                    THEN 1 ELSE 0)
        BY <1>a, <1>b, <4>1, <4>2, ToolEvents
      <4>4. Balanced(t)'
        BY <1>d, <3>1, <3>2, <4>3 DEF Balanced, Owes
      <4>5. QED
        BY <1>d, <3>1, <3>2, <4>3, <4>4 DEF EventsInv, Told, Early, Saving
    <3>3. CASE ~Streams(t)
      <4>1. events'[t] = events[t]
        BY <1>a, <2>2, <3>3 DEF Emit, Moved
      <4>2. ~Told(t)' /\ Balanced(t)'
        BY <1>b, <1>d, <3>1, <3>3, <4>1 DEF Told, Balanced, Owes
      <4>3. QED
        BY <1>b, <1>d, <3>1, <3>3, <4>1, <4>2 DEF EventsInv, Early, Saving
    <3>4. QED
      BY <3>2, <3>3
  <2>3. CASE /\ Emit(t, <<"approval_required">>)
             /\ Go(t, AfterApproval(t))
             /\ outcome' = [outcome EXCEPT ![t] = "held"]
    <3>1. /\ outcome'[t] = "held"
          /\ pc'[t] = IF Streams(t) THEN "done" ELSE "record"
      BY <1>a, <2>3 DEF Go, AfterApproval, Moved
    <3>2. CASE Streams(t)
      <4>1. "approval_required" \in Event
        BY DEF Event
      <4>2. events'[t] = Append(events[t], "approval_required")
        BY <1>a, <2>3, <3>2, <4>1, Appended DEF Emit, Moved
      <4>3. Ordered(events'[t])
        BY <1>a, <1>b, <4>1, <4>2, OrderedAppend
      <4>4. \A i \in DOMAIN events'[t] : events'[t][i] \in Marks =>
              i = Len(events'[t]) /\ events'[t][i] # "done"
        BY <1>a, <1>b, <4>1, <4>2
      <4>5. QED
        BY <1>d, <3>1, <3>2, <4>3, <4>4 DEF EventsInv, Early, Saving
    <3>3. CASE ~Streams(t)
      <4>1. events'[t] = events[t] /\ ~Told(t)'
        BY <1>a, <1>b, <2>3, <3>3 DEF Emit, Told, Moved
      <4>2. QED
        BY <1>d, <3>1, <3>3, <4>1 DEF EventsInv, Early, Saving
    <3>4. QED
      BY <3>2, <3>3
  <2>4. CASE /\ Go(t, "record")
             /\ outcome' = [outcome EXCEPT ![t] = "error"]
             /\ UNCHANGED events
    <3>1. pc'[t] = "record" /\ outcome'[t] = "error"
      BY <1>a, <2>4 DEF Go, Moved
    <3>2. QED
      BY <1>b, <2>4, <3>1, RaiseEvents
  <2>5. QED
    BY <1>4, <2>2, <2>3, <2>4, RunToolCases
<1>5. QED
  BY <1>1, <1>2, <1>3, <1>4

\* Writing the turn down and ending it keep the protocol.
LEMMA WritingEvents ==
  ASSUME TypeInv, ask' = ask, NEW t \in Turns, EventsInv(t),
         \/ SaveMessage(t) \/ Remember(t) \/ RememberFails(t)
         \/ Record(t) \/ Report(t) \/ Finish(t)
  PROVE  EventsInv(t)'
<1>a. Moved /\ TurnInv(t) /\ events[t] \in Seq(Event)
  BY TypeHalves DEF TypeInv, Moved
<1>d. Streams(t)' = Streams(t)
  BY DEF Streams
<1>1. CASE SaveMessage(t) \/ Remember(t) \/ RememberFails(t)
  <2>1. /\ events' = events /\ outcome' = outcome
        /\ pc[t] \in Saving
        /\ pc'[t] \in Saving \cup {IF Streams(t) THEN "done" ELSE "record"}
    BY <1>a, <1>1 DEF SaveMessage, Remember, RememberFails, Following, Close,
                      Go, Moved, Saving, stores, talk
  <2>2. ~Told(t) /\ ~Told(t)' /\ outcome[t] = "answer"
    BY <1>a, <2>1 DEF EventsInv, TurnInv, Told
  <2>3. QED
    BY <1>d, <2>1, <2>2 DEF EventsInv, Told, Early, Saving
<1>2. CASE Record(t)
  <2>1. /\ events' = events /\ outcome' = outcome /\ pc[t] = "record"
        /\ pc'[t] = IF Streams(t) /\ outcome[t] = "error"
                    THEN "report" ELSE "end"
    BY <1>a, <1>2 DEF Record, AfterRecord, Go, Moved
  <2>2. Told(t)' = Told(t)
    BY <2>1 DEF Told
  <2>3. QED
    BY <1>d, <2>1, <2>2 DEF EventsInv, Early, Saving
<1>3. CASE Report(t)
  <2>1. /\ outcome' = outcome /\ pc[t] = "report" /\ pc'[t] = "done"
        /\ Emit(t, <<"error">>)
    BY <1>a, <1>3 DEF Report, Go, Moved
  <2>2. outcome[t] = "error" /\ ~Told(t) /\ Ordered(events[t])
    BY <2>1 DEF EventsInv
  <2>3. "error" \in Event
    BY DEF Event
  <2>4. events'[t] = IF Streams(t) THEN Append(events[t], "error")
                     ELSE events[t]
    BY <1>a, <2>1, <2>3, Appended DEF Emit, Moved
  <2>5. \A i \in DOMAIN events[t] : events[t][i] \notin Marks
    BY <2>2 DEF Told
  <2>6. Ordered(events'[t])
    BY <1>a, <2>2, <2>3, <2>4, <2>5, OrderedAppend
  <2>7. \A i \in DOMAIN events'[t] : events'[t][i] \in Marks =>
          i = Len(events'[t]) /\ events'[t][i] # "done"
    BY <1>a, <2>3, <2>4, <2>5
  <2>8. QED
    BY <1>d, <2>1, <2>2, <2>4, <2>6, <2>7 DEF EventsInv, Early, Saving
<1>4. CASE Finish(t)
  <2>1. /\ outcome' = outcome /\ pc[t] = "done" /\ Emit(t, <<"done">>)
        /\ pc'[t] = IF outcome[t] = "error" THEN "end" ELSE "record"
    BY <1>a, <1>4 DEF Finish, AfterDone, Go, Moved
  <2>2. /\ Ordered(events[t])
        /\ \A i \in DOMAIN events[t] : events[t][i] \in Marks =>
             i = Len(events[t]) /\ events[t][i] # "done"
    BY <2>1 DEF EventsInv
  <2>3. "done" \in Event
    BY DEF Event
  <2>4. events'[t] = IF Streams(t) THEN Append(events[t], "done") ELSE events[t]
    BY <1>a, <2>1, <2>3, Appended DEF Emit, Moved
  <2>5. Ordered(events'[t])
    BY <1>a, <2>2, <2>3, <2>4, OrderedAppend
  <2>6. Streams(t) => events'[t] # <<>> /\ Last(events'[t]) = "done"
    BY <1>a, <2>3, <2>4 DEF Last
  <2>7. QED
    BY <1>d, <2>1, <2>4, <2>5, <2>6 DEF EventsInv, Early, Saving
<1>5. QED
  BY <1>1, <1>2, <1>3, <1>4

\* A consumer that leaves hears no more, and neither does one whose stream
\* a restart ends.
LEMMA DroppedEvents ==
  ASSUME TypeInv, NEW t \in Turns, EventsInv(t),
         Leave(t) \/ Restart, ask' = ask
  PROVE  EventsInv(t)'
<1>1. /\ events' = events /\ outcome' = outcome
      /\ \/ pc'[t] \in {"left", "lost"}
         \/ pc'[t] = pc[t] /\ pc[t] \in Ended \cup {"new"}
  <2>1. CASE Leave(t)
    BY <2>1, TypeHalves DEF Leave, Go, TypeInv, Moved
  <2>2. CASE Restart
    BY <2>2, RestartApart
  <2>3. QED
    BY <2>1, <2>2
<1>2. Streams(t)' = Streams(t) /\ Told(t)' = Told(t)
  BY <1>1 DEF Streams, Told
<1>3. QED
  BY <1>1, <1>2 DEF EventsInv, Balanced, Owes, Early, Saving, Ended

\* Every step keeps the protocol of every stream.
LEMMA StepEvents ==
  ASSUME TypeInv, \A t \in Turns : EventsInv(t), [Next]_vars, NEW u \in Turns
  PROVE  EventsInv(u)'
<1>1. ask' = ask
  BY AskStays
<1>2. ASSUME NEW t \in Turns, TurnStep(t) \/ Fault(t) \/ Leave(t)
      PROVE  EventsInv(u)'
  <2>1. CASE u = t
    BY <1>1, <1>2, <2>1, OpeningEvents, LoopEvents, WritingEvents, DroppedEvents
       DEF TurnStep
  <2>2. CASE u # t
    BY <1>1, <1>2, <2>2, StepApart, ApartEvents
  <2>3. QED
    BY <2>1, <2>2
<1>3. CASE Restart
  BY <1>1, <1>3, DroppedEvents
<1>4. CASE Quiescent \/ UNCHANGED vars
  BY <1>4, StutterApart, ApartEvents
<1>5. QED
  BY <1>2, <1>3, <1>4 DEF Next

----
\* What is written down of a turn, and what was heard of it by then.
RowsInv(t) ==
  /\ \/ Blank(t) \/ Whole(t)
     \/ /\ Half(t)
        /\ \/ pc[t] = "savea" \/ outcome[t] = "error"
           \/ pc[t] \in {"left", "lost"}
  /\ pc[t] \in {"new", "saveq"} \cup Early => Blank(t)
  /\ pc[t] = "savea" => Half(t)
  /\ pc[t] \in {"memq", "mema"} => Whole(t)
  /\ \A m \in memory : m.turn = t => Whole(t)
  /\ outcome[t] = "answer" /\ pc[t] \in {"done", "record", "end"} /\ Kept(t)
       => Whole(t)
  /\ Answered(t) /\ Kept(t) => Whole(t)

\* A consumer has heard the end of its stream when it holds a mark.
LEMMA HeardTold ==
  ASSUME NEW t \in Turns, Streams(t)
  PROVE  Heard(t) <=> Told(t)
BY DEF Heard, Told, Marks, ToSet

\* The same of the next state.
LEMMA HeardToldNext ==
  ASSUME NEW t \in Turns, Streams(t)'
  PROVE  Heard(t)' <=> Told(t)'
BY DEF Heard, Told, Marks, ToSet

\* A turn whose answer was heard is over, or about to be recorded.
LEMMA AnsweredWhere ==
  ASSUME TypeInv, NEW t \in Turns, EventsInv(t), Answered(t)
  PROVE  /\ outcome[t] = "answer"
         /\ pc[t] \in {"record", "end", "left", "lost"}
         /\ Streams(t) => Told(t)
         /\ ~Streams(t) => pc[t] = "end"
<1>1. pc[t] \in Pcs /\ outcome[t] = "answer"
  BY TypeHalves DEF TypeInv, Moved, Answered
<1>2. CASE Streams(t)
  <2>1. Told(t)
    BY <1>2, HeardTold DEF Answered
  <2>2. QED
    BY <1>1, <1>2, <2>1 DEF EventsInv, Pcs, Ended, Early, Saving, Closing
<1>3. CASE ~Streams(t)
  BY <1>1, <1>3 DEF Answered, Heard
<1>4. QED
  BY <1>2, <1>3

\* The rows of a turn stand in its conversation.
LEMMA AtRange ==
  ASSUME TypeOK, NEW t \in Turns, NEW r \in Role
  PROVE  /\ messages[Conv(t)] \in Seq(Message)
         /\ Len(messages[Conv(t)]) \in Nat
         /\ At(t, r) \subseteq 1..Len(messages[Conv(t)])
<1>1. messages[Conv(t)] \in Seq(Message)
  BY TypeHalves, AskType DEF Stored
<1>2. QED
  BY <1>1 DEF At

\* A statement of save_exchange puts its row behind the others.
LEMMA SavedOwn ==
  ASSUME TypeInv, ask' = ask, NEW t \in Turns, SaveMessage(t), NEW r \in Role
  PROVE  At(t, r)' = At(t, r) \cup
           (IF r = RoleAt(pc[t]) THEN {Len(messages[Conv(t)]) + 1} ELSE {})
<1> DEFINE rows == messages[Conv(t)]
           m == Row(t, RoleAt(pc[t]))
<1>1. rows \in Seq(Message) /\ Conv(t) \in Convs /\ Stored
  BY TypeHalves, AskType, AtRange DEF TypeInv
<1>2. messages'[Conv(t)] = Append(rows, m)
  BY <1>1 DEF SaveMessage, Stored
<1>3. Conv(t)' = Conv(t)
  BY DEF Conv
<1>4. m = Row(t, r) <=> r = RoleAt(pc[t])
  BY DEF Row
<1>5. /\ DOMAIN Append(rows, m) = DOMAIN rows \cup {Len(rows) + 1}
      /\ \A i \in DOMAIN rows : Append(rows, m)[i] = rows[i]
      /\ Append(rows, m)[Len(rows) + 1] = m
      /\ Len(rows) + 1 \notin DOMAIN rows
  BY <1>1
<1>6. At(t, r)' =
        {i \in DOMAIN Append(rows, m) : Append(rows, m)[i] = Row(t, r)}
  BY <1>2, <1>3 DEF At, Row
<1>7. QED
  BY <1>4, <1>5, <1>6 DEF At

\* The rows hold at first.
LEMMA InitRows ==
  ASSUME Init, NEW t \in Turns
  PROVE  RowsInv(t)
<1>1. Conv(t) \in Convs
  BY InitType, AskType
<1>2. messages[Conv(t)] = <<>>
  BY <1>1 DEF Init
<1>3. Blank(t)
  BY <1>2 DEF Blank, At
<1>4. pc[t] = "new" /\ outcome[t] = "none" /\ memory = {}
  BY DEF Init
<1>5. QED
  BY <1>3, <1>4 DEF RowsInv, Answered

\* A turn left alone keeps its rows.
LEMMA ApartRows ==
  ASSUME NEW u \in Turns, RowsInv(u), Apart(u), ask' = ask
  PROVE  RowsInv(u)'
<1>1. /\ At(u, "user")' = At(u, "user")
      /\ At(u, "assistant")' = At(u, "assistant")
  BY DEF Apart, Role
<1>2. /\ Blank(u)' <=> Blank(u)
      /\ Half(u)' <=> Half(u)
      /\ Whole(u)' <=> Whole(u)
  BY <1>1 DEF Blank, Half, Whole
<1>3. pc'[u] = pc[u] /\ outcome'[u] = outcome[u] /\ events'[u] = events[u]
  BY DEF Apart
<1>4. Kept(u)' <=> Kept(u)
  BY DEF Kept, Streams, Apart
<1>5. Answered(u)' <=> Answered(u)
  BY <1>3 DEF Answered, Heard, Streams
<1>6. \A m \in memory' : m.turn = u => m \in memory
  BY DEF Apart
<1>7. QED
  BY <1>2, <1>3, <1>4, <1>5, <1>6 DEF RowsInv

\* A step that writes nothing leaves the rows of its turn where they are.
LEMMA UnwrittenRows ==
  ASSUME ask' = ask, messages' = messages, NEW t
  PROVE  /\ Blank(t)' <=> Blank(t)
         /\ Half(t)' <=> Half(t)
         /\ Whole(t)' <=> Whole(t)
BY DEF Blank, Half, Whole, At, Conv, Row

\* The steps before the loop, and errors, write nothing down.
LEMMA OpeningRows ==
  ASSUME TypeInv, TypeInv', ask' = ask, NEW t \in Turns,
         EventsInv(t)', RowsInv(t),
         \/ Receive(t) \/ FindConversation(t) \/ CreateConversation(t)
         \/ LoadHistory(t) \/ GetDevice(t) \/ SetDevice(t)
         \/ PublishSwitch(t) \/ HandoffFails(t) \/ Fault(t)
  PROVE  RowsInv(t)'
<1>a. Moved /\ TurnInv(t)'
  BY TypeHalves DEF TypeInv
<1>1. /\ messages' = messages /\ memory' = memory
      /\ \/ pc'[t] \in Early /\ pc[t] \in {"new"} \cup Early
         \/ pc'[t] = "record" /\ outcome'[t] = "error"
  BY <1>a DEF Receive, FindConversation, CreateConversation, LoadHistory,
              GetDevice, SetDevice, PublishSwitch, HandoffFails, Fault, Raise,
              Go, Moved, stores, talk, Early
<1>2. outcome'[t] # "answer"
  BY <1>a, <1>1 DEF TurnInv, Early
<1>3. /\ Blank(t)' <=> Blank(t)
      /\ Half(t)' <=> Half(t)
      /\ Whole(t)' <=> Whole(t)
  BY <1>1, UnwrittenRows
<1>4. ~Answered(t)'
  BY <1>2 DEF Answered
<1>5. CASE pc'[t] \in Early /\ pc[t] \in {"new"} \cup Early
  BY <1>1, <1>2, <1>3, <1>4, <1>5 DEF RowsInv, Early
<1>6. CASE pc'[t] = "record" /\ outcome'[t] = "error"
  BY <1>1, <1>2, <1>3, <1>4, <1>6 DEF RowsInv, Early
<1>7. QED
  BY <1>1, <1>5, <1>6

\* The loop writes nothing down, and is left for the saving of an answer, or
\* for the end with nothing to keep.
LEMMA LoopRows ==
  ASSUME TypeInv, TypeInv', ask' = ask, NEW t \in Turns,
         EventsInv(t), EventsInv(t)', RowsInv(t),
         CallModel(t) \/ StreamModel(t) \/ EndOfStream(t) \/ RunTool(t)
  PROVE  RowsInv(t)'
<1>a. Moved /\ TurnInv(t) /\ TurnInv(t)'
  BY TypeHalves DEF TypeInv
<1>1. messages' = messages /\ memory' = memory /\ pc[t] \in Early
  BY DEF CallModel, StreamModel, EndOfStream, RunTool, stores, Early
<1>2. Blank(t)' /\ \A m \in memory' : m.turn # t
  <2>1. Blank(t) /\ outcome[t] = "none"
    BY <1>a, <1>1 DEF RowsInv, TurnInv
  <2>2. \A m \in memory : m.turn # t
    BY <1>a, <2>1 DEF TurnInv, Untouched
  <2>3. QED
    BY <1>1, <2>1, <2>2, UnwrittenRows
<1>3. \/ pc'[t] \in Early \cup {"saveq"}
      \/ pc'[t] \in {"record", "done"} /\ (outcome'[t] = "answer" => ~Kept(t)')
  <2>1. CASE CallModel(t)
    <3>1. PICK text \in BOOLEAN, short \in BOOLEAN, plan \in Plans :
            /\ Reply(t, text, plan, short)
            /\ \/ Go(t, "tool")
               \/ Go(t, IF short THEN "record" ELSE "saveq")
      BY <2>1 DEF CallModel
    <3>2. ~Streams(t)' /\ cut'[t] = short
      BY <1>a, <2>1, <3>1 DEF CallModel, Streams, Reply, Moved
    <3>3. CASE short
      <4>1. pc'[t] \in {"tool", "record"} /\ cut'[t] = TRUE
        BY <1>a, <3>1, <3>2, <3>3 DEF Go, Moved
      <4>2. QED
        BY <3>2, <4>1 DEF Kept, Early
    <3>4. CASE ~short
      BY <1>a, <3>1, <3>4 DEF Go, Moved, Early
    <3>5. QED
      BY <3>3, <3>4
  <2>2. CASE StreamModel(t)
    BY <1>a, <2>2 DEF StreamModel, Go, Moved, Early
  <2>3. CASE EndOfStream(t)
    <3>1. Streams(t) /\ Streams(t)' /\ spoke' = spoke
      BY <2>3 DEF EndOfStream, EventsInv, Streams, talk
    <3>2. \/ pc'[t] \in {"tool", "saveq"}
          \/ pc'[t] = "done" /\ ~spoke[t]
      BY <1>a, <2>3 DEF EndOfStream, Go, Moved
    <3>3. QED
      BY <3>1, <3>2 DEF Kept, Early
  <2>4. CASE RunTool(t)
    <3>1. \/ pc'[t] \in {"model", "tool"}
          \/ pc'[t] \in {"record", "done"} /\ outcome'[t] \in {"held", "error"}
      BY <1>a, <2>4, RunToolCases DEF Go, AfterApproval, Moved
    <3>2. QED
      BY <3>1 DEF Early
  <2>5. QED
    BY <2>1, <2>2, <2>3, <2>4
<1>4. Answered(t)' => ~Kept(t)'
  <2>1. SUFFICES ASSUME pc'[t] \in Early \cup {"saveq"} PROVE ~Answered(t)'
    BY <1>3 DEF Answered
  <2>2. ~Told(t)' /\ pc'[t] # "end"
    BY <2>1 DEF EventsInv, Early, Saving
  <2>3. CASE Streams(t)'
    BY <2>2, <2>3, HeardToldNext DEF Answered
  <2>4. CASE ~Streams(t)'
    BY <2>2, <2>4 DEF Answered, Heard
  <2>5. QED
    BY <2>3, <2>4
<1>5. QED
  BY <1>2, <1>3, <1>4 DEF RowsInv, Early

\* save_exchange writes the question and then the answer.
LEMMA SavingRows ==
  ASSUME TypeInv, TypeInv', ask' = ask, NEW t \in Turns,
         EventsInv(t)', RowsInv(t), SaveMessage(t)
  PROVE  RowsInv(t)'
<1>a. Moved /\ TurnInv(t) /\ TypeOK
  BY TypeHalves DEF TypeInv
<1>1. /\ \/ pc[t] = "saveq" /\ pc'[t] = "savea"
         \/ pc[t] = "savea" /\ pc'[t] = "memq"
      /\ memory' = memory
  BY <1>a DEF SaveMessage, Following, Go, Moved
<1>2. ~Answered(t)'
  <2>1. ~Told(t)' /\ pc'[t] # "end"
    BY <1>1 DEF EventsInv, Saving
  <2>2. QED
    BY <2>1, HeardToldNext DEF Answered, Heard
<1>3. Len(messages[Conv(t)]) \in Nat
  BY <1>a, AtRange DEF Role
<1>4. CASE pc[t] = "saveq"
  <2>1. /\ At(t, "user")' = At(t, "user") \cup {Len(messages[Conv(t)]) + 1}
        /\ At(t, "assistant")' = At(t, "assistant")
    BY <1>4, SavedOwn DEF RoleAt, Role
  <2>2. Blank(t)
    BY <1>4 DEF RowsInv
  <2>3. Half(t)' /\ ~Whole(t)
    BY <1>3, <2>1, <2>2 DEF Blank, Half, Whole
  <2>4. \A m \in memory : m.turn # t
    BY <2>3 DEF RowsInv
  <2>5. pc'[t] = "savea"
    BY <1>1, <1>4
  <2>6. QED
    BY <1>1, <1>2, <2>3, <2>4, <2>5 DEF RowsInv, Early
<1>5. CASE pc[t] = "savea"
  <2>1. /\ At(t, "user")' = At(t, "user")
        /\ At(t, "assistant")' =
             At(t, "assistant") \cup {Len(messages[Conv(t)]) + 1}
    BY <1>5, SavedOwn DEF RoleAt, Role
  <2>2. At(t, "user") \subseteq 1..Len(messages[Conv(t)])
    BY <1>a, AtRange DEF Role
  <2>3. Half(t)
    BY <1>5 DEF RowsInv
  <2>4. Whole(t)'
    BY <1>3, <2>1, <2>2, <2>3 DEF Half, Whole
  <2>5. pc'[t] = "memq"
    BY <1>1, <1>5
  <2>6. QED
    BY <1>1, <1>2, <2>4, <2>5 DEF RowsInv, Early
<1>6. QED
  BY <1>1, <1>4, <1>5

\* What comes behind save_exchange finds the exchange whole.
LEMMA ClosingRows ==
  ASSUME TypeInv, TypeInv', ask' = ask, NEW t \in Turns,
         EventsInv(t), EventsInv(t)', RowsInv(t),
         \/ Remember(t) \/ RememberFails(t)
         \/ Record(t) \/ Report(t) \/ Finish(t)
  PROVE  RowsInv(t)'
<1>a. Moved /\ TurnInv(t)
  BY TypeHalves DEF TypeInv
<1>1. messages' = messages /\ outcome' = outcome
  BY DEF Remember, RememberFails, Record, Report, Finish, stores
<1>2. /\ Blank(t)' <=> Blank(t)
      /\ Half(t)' <=> Half(t)
      /\ Whole(t)' <=> Whole(t)
  BY <1>1, UnwrittenRows
<1>3. Kept(t)' <=> Kept(t)
  BY DEF Kept, Streams, Remember, RememberFails, Record, Report, Finish, talk
<1>4. CASE Remember(t) \/ RememberFails(t)
  <2>1. Whole(t)
    BY <1>4 DEF Remember, RememberFails, RowsInv
  <2>2. pc'[t] \notin {"new", "saveq", "savea"} \cup Early
    BY <1>a, <1>4 DEF Remember, RememberFails, Close, Go, Moved, Early
  <2>3. QED
    BY <1>2, <2>1, <2>2 DEF RowsInv
<1>5. CASE Record(t) \/ Report(t) \/ Finish(t)
  <2>1. memory' = memory
    BY <1>5 DEF Record, Report, Finish, stores
  <2>2. /\ pc[t] \in {"record", "report", "done"}
        /\ pc'[t] \in {"record", "report", "done", "end"}
        /\ pc'[t] \in {"report", "done"} => outcome[t] # "answer"
        /\ outcome[t] = "answer" => pc[t] \in {"record", "done"}
    BY <1>a, <1>5 DEF Record, Report, Finish, AfterRecord, AfterDone, EventsInv,
                      Go, Moved
  <2>3. outcome[t] = "answer" /\ Kept(t) => Whole(t)
    BY <2>2 DEF RowsInv
  <2>4. QED
    BY <1>1, <1>2, <1>3, <2>1, <2>2, <2>3 DEF RowsInv, Answered, Early
<1>6. QED
  BY <1>4, <1>5

\* A turn that is cut off leaves what it had written.
LEMMA DroppedRows ==
  ASSUME TypeInv, NEW t \in Turns, EventsInv(t), RowsInv(t),
         Leave(t) \/ Restart, ask' = ask
  PROVE  RowsInv(t)'
<1>1. /\ UNCHANGED <<messages, memory, events, outcome, spoke, cut>>
      /\ \/ pc'[t] \in {"left", "lost"} /\ pc[t] \notin Ended
         \/ pc'[t] = pc[t]
  <2>1. CASE Leave(t)
    BY <2>1, TypeHalves DEF Leave, Running, Go, TypeInv, Moved
  <2>2. CASE Restart
    BY <2>2, RestartApart DEF stores
  <2>3. QED
    BY <2>1, <2>2
<1>2. /\ Blank(t)' <=> Blank(t)
      /\ Half(t)' <=> Half(t)
      /\ Whole(t)' <=> Whole(t)
      /\ Kept(t)' <=> Kept(t)
  BY <1>1, UnwrittenRows DEF Kept, Streams
<1>3. Answered(t)' => Answered(t)
  BY <1>1 DEF Answered, Heard, Streams
<1>4. QED
  BY <1>1, <1>2, <1>3 DEF RowsInv, Early, Ended

\* Every step keeps the rows of every turn.
LEMMA StepRows ==
  ASSUME TypeInv, TypeInv', [Next]_vars, NEW u \in Turns,
         \A t \in Turns : EventsInv(t) /\ RowsInv(t),
         \A t \in Turns : EventsInv(t)'
  PROVE  RowsInv(u)'
<1>1. ask' = ask
  BY AskStays
<1>2. ASSUME NEW t \in Turns, TurnStep(t) \/ Fault(t) \/ Leave(t)
      PROVE  RowsInv(u)'
  <2>1. CASE u = t
    BY <1>1, <1>2, <2>1, OpeningRows, LoopRows, SavingRows, ClosingRows,
       DroppedRows DEF TurnStep
  <2>2. CASE u # t
    BY <1>1, <1>2, <2>2, StepApart, ApartRows
  <2>3. QED
    BY <2>1, <2>2
<1>3. CASE Restart
  BY <1>1, <1>3, DroppedRows
<1>4. CASE Quiescent \/ UNCHANGED vars
  BY <1>4, StutterApart, ApartRows
<1>5. QED
  BY <1>2, <1>3, <1>4 DEF Next

----
\* What is recorded of the activity of a turn: nothing until its finally
\* block has run, then one record, and a success only of a turn that went well.
ActsInv(t) ==
  /\ \A a \in activities : a.turn = t =>
       /\ \/ pc[t] \in {"end", "left", "lost"}
          \/ pc[t] \in {"report", "done"} /\ outcome[t] = "error"
       /\ a.success => outcome[t] \in {"answer", "held"}
  /\ \A a, b \in activities : a.turn = t /\ b.turn = t => a = b
  /\ pc[t] \in Closing => outcome[t] # "none"

\* A turn left alone keeps its record.
LEMMA ApartActs ==
  ASSUME NEW u \in Turns, ActsInv(u), Apart(u)
  PROVE  ActsInv(u)'
<1>1. \A a : a \in activities' /\ a.turn = u => a \in activities
  BY DEF Apart
<1>2. QED
  BY <1>1 DEF ActsInv, Apart

\* A turn that is not yet recorded has no record; the steps that record
\* nothing keep it so.
LEMMA UnrecordedActs ==
  ASSUME NEW t \in Turns, ActsInv(t), activities' = activities,
         \/ /\ pc[t] \notin {"end", "left", "lost"}
            /\ ~(pc[t] \in {"report", "done"} /\ outcome[t] = "error")
         \/ /\ pc'[t] \in {"end", "left", "lost", "report", "done"}
            /\ pc'[t] \in {"report", "done"} => outcome'[t] = "error"
            /\ outcome'[t] = outcome[t],
         pc'[t] \in Closing => outcome'[t] # "none"
  PROVE  ActsInv(t)'
BY DEF ActsInv

\* The first record of a turn.
LEMMA RecordedActs ==
  ASSUME NEW t \in Turns, ActsInv(t), NEW s \in BOOLEAN,
         activities' = activities \cup {[turn |-> t, success |-> s]},
         \A a \in activities : a.turn # t,
         s => outcome'[t] \in {"answer", "held"},
         \/ pc'[t] \in {"end", "left"}
         \/ pc'[t] = "report" /\ outcome'[t] = "error"
  PROVE  ActsInv(t)'
<1> DEFINE n == [turn |-> t, success |-> s]
<1>1. n.turn = t /\ n.success = s
  OBVIOUS
<1>2. \A a \in activities' : a.turn = t => a = n
  BY <1>1
<1>3. \A a \in activities' :
        a.turn = t /\ a.success => outcome'[t] \in {"answer", "held"}
  BY <1>1, <1>2
<1>4. QED
  BY <1>2, <1>3 DEF ActsInv, Closing

\* Every step keeps the records of every turn.
LEMMA StepActs ==
  ASSUME TypeInv, TypeInv', [Next]_vars, NEW u \in Turns,
         \A t \in Turns : EventsInv(t) /\ EventsInv(t)' /\ ActsInv(t)
  PROVE  ActsInv(u)'
<1>a. Moved /\ \A t \in Turns : TurnInv(t) /\ TurnInv(t)'
  BY TypeHalves DEF TypeInv
<1> USE DEF Go, Closing, Early, Saving
<1>1. ASSUME NEW t \in Turns,
             \/ Receive(t) \/ FindConversation(t) \/ CreateConversation(t)
             \/ LoadHistory(t) \/ GetDevice(t) \/ SetDevice(t)
             \/ PublishSwitch(t) \/ HandoffFails(t) \/ Fault(t)
      PROVE  ActsInv(t)'
  <2>1. /\ activities' = activities
        /\ pc[t] \in {"new"} \cup Early \cup Saving
        /\ \/ pc'[t] \in Early
           \/ pc'[t] = "record" /\ outcome'[t] = "error"
    BY <1>a, <1>1 DEF Receive, FindConversation, CreateConversation,
         LoadHistory, GetDevice, SetDevice, PublishSwitch, HandoffFails, Fault,
         Raise, Moved, stores, talk
  <2>2. QED
    BY <2>1, UnrecordedActs
<1>2. ASSUME NEW t \in Turns,
             CallModel(t) \/ StreamModel(t) \/ EndOfStream(t) \/ RunTool(t)
      PROVE  ActsInv(t)'
  <2>1. activities' = activities /\ pc[t] \in Early
    BY <1>2 DEF CallModel, StreamModel, EndOfStream, RunTool, stores
  <2>2. pc'[t] \in Closing => outcome'[t] # "none"
    <3>1. CASE CallModel(t)
      BY <1>a, <3>1 DEF CallModel, Moved
    <3>2. CASE StreamModel(t)
      BY <1>a, <3>2 DEF StreamModel, Moved
    <3>3. CASE EndOfStream(t)
      BY <1>a, <3>3 DEF EndOfStream, Moved
    <3>4. CASE RunTool(t)
      BY <1>a, <3>4, RunToolCases DEF AfterApproval, Moved
    <3>5. QED
      BY <1>2, <3>1, <3>2, <3>3, <3>4
  <2>3. QED
    BY <2>1, <2>2, UnrecordedActs
<1>3. ASSUME NEW t \in Turns,
             SaveMessage(t) \/ Remember(t) \/ RememberFails(t)
      PROVE  ActsInv(t)'
  <2>1. activities' = activities /\ pc[t] \in Saving /\ outcome' = outcome
    BY <1>3 DEF SaveMessage, Remember, RememberFails, stores
  <2>2. outcome'[t] = "answer"
    BY <1>a, <2>1 DEF TurnInv
  <2>3. QED
    BY <2>1, <2>2, UnrecordedActs
<1>4. ASSUME NEW t \in Turns, Report(t) \/ Finish(t)
      PROVE  ActsInv(t)'
  <2>1. /\ activities' = activities /\ outcome' = outcome
        /\ pc[t] \in {"report", "done"}
        /\ \/ pc'[t] \in {"end", "done"} /\ outcome[t] = "error"
           \/ pc'[t] = "record" /\ outcome[t] # "error" /\ pc[t] = "done"
    BY <1>a, <1>4 DEF Report, Finish, AfterDone, EventsInv, Moved, stores
  <2>2. outcome[t] # "none"
    BY <2>1 DEF ActsInv
  <2>3. QED
    BY <2>1, <2>2, UnrecordedActs
<1>5. ASSUME NEW t \in Turns, Record(t)
      PROVE  ActsInv(t)'
  <2>1. /\ pc[t] = "record" /\ outcome' = outcome
        /\ \/ pc'[t] = "end"
           \/ pc'[t] = "report" /\ outcome[t] = "error"
    BY <1>a, <1>5 DEF Record, AfterRecord, Moved
  <2>2. outcome[t] \in {"answer", "held", "error"}
    BY <1>a, <2>1 DEF ActsInv, Moved, Outcomes
  <2>3. \A a \in activities : a.turn # t
    BY <2>1 DEF ActsInv
  <2>4. CASE activities' =
               activities \cup {[turn |-> t, success |-> Success(outcome[t])]}
    BY <2>1, <2>2, <2>3, <2>4, RecordedActs DEF Success
  <2>5. CASE activities' = activities
    BY <2>1, <2>2, <2>5, UnrecordedActs
  <2>6. QED
    BY <1>5, <2>4, <2>5 DEF Record
<1>6. ASSUME NEW t \in Turns, Leave(t)
      PROVE  ActsInv(t)'
  <2>1. /\ pc[t] \notin {"end", "left", "lost", "new"} /\ outcome' = outcome
        /\ pc'[t] = "left"
    BY <1>a, <1>6 DEF Leave, Running, Ended, Moved
  <2>2. CASE activities' = activities
    BY <2>1, <2>2, UnrecordedActs
  <2>3. ASSUME NEW s \in SuccessSoFar(t), InGenerator(t),
               activities' = activities \cup {[turn |-> t, success |-> s]}
        PROVE  ActsInv(t)'
    <3>1. \A a \in activities : a.turn # t
      BY <2>1, <2>3 DEF InGenerator, ActsInv
    <3>2. s \in BOOLEAN
      BY DEF SuccessSoFar
    <3>3. s => outcome'[t] \in {"answer", "held"}
      BY <2>1 DEF SuccessSoFar
    <3>4. QED
      BY <2>1, <2>3, <3>1, <3>2, <3>3, RecordedActs
  <2>4. QED
    BY <1>6, <2>2, <2>3 DEF Leave
<1>7. CASE Restart
  <2>1. /\ activities' = activities /\ outcome' = outcome
        /\ \/ pc'[u] = "lost"
           \/ pc'[u] = pc[u]
    BY <1>7, RestartApart DEF stores
  <2>2. QED
    BY <2>1 DEF ActsInv
<1>8. CASE Quiescent \/ UNCHANGED vars
  BY <1>8, StutterApart, ApartActs
<1>9. ASSUME NEW t \in Turns, TurnStep(t) \/ Fault(t) \/ Leave(t)
      PROVE  ActsInv(u)'
  <2>1. CASE u = t
    BY <1>1, <1>2, <1>3, <1>4, <1>5, <1>6, <1>9, <2>1 DEF TurnStep
  <2>2. CASE u # t
    BY <1>9, <2>2, StepApart, ApartActs
  <2>3. QED
    BY <2>1, <2>2
<1>10. QED
  BY <1>7, <1>8, <1>9 DEF Next

----
\* What a turn read of the turns that were answered when it began.
Reading == {"getdevice", "setdevice", "publish", "model", "stream", "tool",
            "saveq", "savea", "memq", "mema"}

ReadsInv(t) ==
  \A u \in before[t] :
    /\ Answered(u)
    /\ (/\ Conv(u) = Conv(t)
        /\ At(u, "user") # {} /\ At(u, "assistant") # {}
        /\ Len(messages[Conv(t)]) <= HistoryLimit
        /\ pc[t] \in Reading)
         => {Row(u, "user"), Row(u, "assistant")} \subseteq ToSet(history[t])

\* An answer that was heard stays heard, and nothing more is written of it.
LEMMA AnswerStays ==
  ASSUME TypeInv, \A t \in Turns : EventsInv(t), [Next]_vars,
         NEW u \in Turns, Answered(u)
  PROVE  Answered(u)' /\ \A r \in Role : At(u, r)' = At(u, r)
<1>a. Moved /\ ask' = ask
  BY TypeHalves, AskStays DEF TypeInv
<1>b. /\ outcome[u] = "answer"
      /\ pc[u] \in {"record", "end", "left", "lost"}
      /\ Streams(u) => Told(u)
      /\ ~Streams(u) => pc[u] = "end"
  BY AnsweredWhere
<1>1. SUFFICES ASSUME \/ Apart(u)
                      \/ /\ outcome'[u] = outcome[u] /\ events'[u] = events[u]
                         /\ pc[u] = "end" => pc'[u] = "end"
                         /\ \A r \in Role : At(u, r)' = At(u, r)
                PROVE  Answered(u)'
  <2>1. ASSUME NEW t \in Turns, TurnStep(t) \/ Fault(t) \/ Leave(t), t = u
        PROVE  /\ outcome'[u] = outcome[u] /\ events'[u] = events[u]
               /\ pc[u] = "end" => pc'[u] = "end"
               /\ \A r \in Role : At(u, r)' = At(u, r)
    <3>1. Record(u) \/ Leave(u)
      BY <1>b, <2>1 DEF TurnStep, Receive, FindConversation, CreateConversation,
           LoadHistory, GetDevice, SetDevice, PublishSwitch, HandoffFails,
           CallModel, StreamModel, EndOfStream, RunTool, SaveMessage, Remember,
           RememberFails, Report, Finish, Fault
    <3>2. /\ UNCHANGED <<messages, outcome, events>>
          /\ pc[u] # "end"
      BY <1>b, <3>1 DEF Record, Leave, Running, Ended
    <3>3. QED
      BY <1>a, <3>2 DEF At, Conv, Row
  <2>2. ASSUME Restart
        PROVE  /\ outcome'[u] = outcome[u] /\ events'[u] = events[u]
               /\ pc[u] = "end" => pc'[u] = "end"
               /\ \A r \in Role : At(u, r)' = At(u, r)
    BY <2>2, RestartApart DEF Ended
  <2>3. ASSUME Quiescent \/ UNCHANGED vars
        PROVE  Apart(u)
    BY <2>3, StutterApart
  <2>4. \/ Apart(u)
        \/ /\ outcome'[u] = outcome[u] /\ events'[u] = events[u]
           /\ pc[u] = "end" => pc'[u] = "end"
           /\ \A r \in Role : At(u, r)' = At(u, r)
    BY <2>1, <2>2, <2>3, StepApart DEF Next
  <2>5. \A r \in Role : At(u, r)' = At(u, r)
    BY <2>4 DEF Apart
  <2>6. QED
    BY <1>1, <2>4, <2>5
<1>2. /\ outcome'[u] = "answer" /\ events'[u] = events[u]
      /\ pc[u] = "end" => pc'[u] = "end"
  BY <1>1, <1>b DEF Apart
<1>3. Streams(u)' = Streams(u)
  BY <1>a DEF Streams
<1>4. CASE Streams(u)
  <2>1. Told(u)'
    BY <1>1, <1>b, <1>4 DEF Told, Apart
  <2>2. QED
    BY <1>1, <1>b, <1>3, <1>4, <2>1, HeardToldNext DEF Answered, Apart
<1>5. CASE ~Streams(u)
  BY <1>1, <1>b, <1>3, <1>5 DEF Answered, Heard, Apart
<1>6. QED
  BY <1>4, <1>5

\* Conversations only grow.
LEMMA MessagesGrow ==
  ASSUME TypeInv, [Next]_vars, NEW c \in Convs
  PROVE  Len(messages[c]) <= Len(messages'[c])
<1>a. Stored /\ messages[c] \in Seq(Message) /\ Len(messages[c]) \in Nat
  BY TypeHalves DEF TypeInv, Stored
<1>1. ASSUME NEW t \in Turns, SaveMessage(t)
      PROVE  Len(messages[c]) <= Len(messages'[c])
  <2>1. messages' = [messages EXCEPT ![Conv(t)] =
                       Append(messages[Conv(t)], Row(t, RoleAt(pc[t])))]
    BY <1>1 DEF SaveMessage
  <2>2. CASE c = Conv(t)
    <3>1. messages'[c] = Append(messages[c], Row(t, RoleAt(pc[t])))
      BY <1>a, <2>1, <2>2 DEF Stored
    <3>2. Len(messages'[c]) = Len(messages[c]) + 1
      BY <1>a, <3>1
    <3>3. QED
      BY <1>a, <3>2
  <2>3. CASE c # Conv(t)
    BY <1>a, <2>1, <2>3 DEF Stored
  <2>4. QED
    BY <2>2, <2>3
<1>2. ASSUME ~ \E t \in Turns : SaveMessage(t)
      PROVE  messages' = messages
  BY <1>2 DEF Next, TurnStep, vars, stores, Receive, FindConversation,
       CreateConversation, LoadHistory, GetDevice, SetDevice, PublishSwitch,
       HandoffFails, CallModel, StreamModel, EndOfStream, RunTool, Remember,
       RememberFails, Record, Report, Finish, Fault, Leave, Restart, Quiescent
<1>3. QED
  BY <1>a, <1>1, <1>2

\* Who is reading has read by then, and what it read stays.
LEMMA HistoryStays ==
  ASSUME TypeInv, [Next]_vars, NEW t \in Turns, pc'[t] \in Reading
  PROVE  \/ LoadHistory(t)
         \/ pc[t] \in Reading /\ history'[t] = history[t]
<1>a. Moved /\ Stored
  BY TypeHalves DEF TypeInv
<1>1. ASSUME TurnStep(t)
      PROVE  LoadHistory(t) \/ (pc[t] \in Reading /\ history'[t] = history[t])
  <2>1. CASE Receive(t) \/ FindConversation(t) \/ CreateConversation(t)
    BY <1>a, <2>1 DEF Receive, FindConversation, CreateConversation, Raise, Go,
                      Reading, Moved
  <2>2. CASE GetDevice(t) \/ SetDevice(t) \/ PublishSwitch(t) \/ HandoffFails(t)
    BY <2>2 DEF GetDevice, SetDevice, PublishSwitch, HandoffFails, Reading
  <2>3. CASE CallModel(t) \/ StreamModel(t) \/ EndOfStream(t) \/ RunTool(t)
    BY <2>3 DEF CallModel, StreamModel, EndOfStream, RunTool, Reading
  <2>4. CASE SaveMessage(t) \/ Remember(t) \/ RememberFails(t)
    BY <2>4 DEF SaveMessage, Remember, RememberFails, Reading
  <2>5. CASE Record(t) \/ Report(t) \/ Finish(t)
    BY <1>a, <2>5 DEF Record, AfterRecord, Report, Finish, AfterDone, Go,
                      Reading, Moved
  <2>6. QED
    BY <1>1, <2>1, <2>2, <2>3, <2>4, <2>5 DEF TurnStep
<1>2. ~Fault(t) /\ ~Leave(t)
  BY <1>a DEF Fault, Raise, Leave, Go, Reading, Moved
<1>3. CASE Restart
  BY <1>a, <1>3 DEF Restart, Unwind, Running, Reading, Ended, Moved
<1>4. ASSUME NEW u \in Turns, TurnStep(u) \/ Fault(u) \/ Leave(u), u # t
      PROVE  pc[t] \in Reading /\ history'[t] = history[t]
  BY <1>4, StepApart DEF Apart
<1>5. CASE Quiescent \/ UNCHANGED vars
  BY <1>5 DEF Quiescent, vars
<1>6. QED
  BY <1>1, <1>2, <1>3, <1>4, <1>5 DEF Next

\* What a turn reads of an exchange is what the rows say.
LEMMA SavedAt ==
  ASSUME TypeOK, NEW u \in Turns, NEW t \in Turns, Conv(u) = Conv(t)
  PROVE  \A r \in Role :
           At(u, r) # {} <=> Row(u, r) \in ToSet(messages[Conv(t)])
BY DEF At, ToSet

\* Every step keeps what the turns read.
LEMMA StepReads ==
  ASSUME TypeInv, TypeInv', \A t \in Turns : EventsInv(t), [Next]_vars,
         NEW t \in Turns, ReadsInv(t)
  PROVE  ReadsInv(t)'
<1>a. Moved /\ Stored /\ ask' = ask /\ Conv(t) \in Convs
  BY TypeHalves, AskStays, AskType DEF TypeInv
<1>1. SUFFICES ASSUME NEW u \in before'[t]
      PROVE  /\ Answered(u)'
             /\ (/\ Conv(u) = Conv(t)
                 /\ At(u, "user")' # {} /\ At(u, "assistant")' # {}
                 /\ Len(messages'[Conv(t)]) <= HistoryLimit
                 /\ pc'[t] \in Reading)
                  => {Row(u, "user"), Row(u, "assistant")}
                       \subseteq ToSet(history'[t])
  BY <1>a DEF ReadsInv, Conv, Row
<1>2. u \in Turns /\ Answered(u)
      /\ (u \in before[t] \/ pc'[t] = "find")
  <2>1. before'[t] = before[t] \/ Receive(t)
    <3>1. ASSUME NEW v \in Turns, TurnStep(v) \/ Fault(v) \/ Leave(v), v # t
          PROVE  before'[t] = before[t]
      BY <3>1, StepApart DEF Apart
    <3>2. ASSUME TurnStep(t) \/ Fault(t) \/ Leave(t), ~Receive(t)
          PROVE  before'[t] = before[t]
      BY <3>2 DEF TurnStep, FindConversation, CreateConversation,
           LoadHistory, GetDevice, SetDevice, PublishSwitch, HandoffFails,
           CallModel, StreamModel, EndOfStream, RunTool, SaveMessage, Remember,
           RememberFails, Record, Report, Finish, Fault, Leave
    <3>3. ASSUME Restart \/ Quiescent \/ UNCHANGED vars
          PROVE  before'[t] = before[t]
      BY <3>3 DEF Restart, Quiescent, vars
    <3>4. QED
      BY <3>1, <3>2, <3>3 DEF Next
  <2>2. ASSUME Receive(t)
        PROVE  before'[t] = {v \in Turns : Answered(v)} /\ pc'[t] = "find"
    BY <1>a, <2>2 DEF Receive, Go, Moved, Stored
  <2>3. \A v \in before[t] : v \in Turns /\ Answered(v)
    BY <1>a DEF ReadsInv, Stored
  <2>4. QED
    BY <2>1, <2>2, <2>3
<1>3. Answered(u)' /\ \A r \in Role : At(u, r)' = At(u, r)
  BY <1>2, AnswerStays
<1>4. ASSUME Conv(u) = Conv(t),
             At(u, "user")' # {}, At(u, "assistant")' # {},
             Len(messages'[Conv(t)]) <= HistoryLimit,
             pc'[t] \in Reading
      PROVE  {Row(u, "user"), Row(u, "assistant")} \subseteq ToSet(history'[t])
  <2>1. u \in before[t]
    BY <1>2, <1>4 DEF Reading
  <2>2. At(u, "user") # {} /\ At(u, "assistant") # {}
    BY <1>3, <1>4 DEF Role
  <2>3. messages[Conv(t)] \in Seq(Message)
    BY <1>a DEF Stored
  <2>4. Len(messages[Conv(t)]) <= HistoryLimit
    <3>1. Len(messages[Conv(t)]) <= Len(messages'[Conv(t)])
      BY <1>a, MessagesGrow
    <3>2. Len(messages[Conv(t)]) \in Nat /\ Len(messages'[Conv(t)]) \in Nat
      <4>1. messages'[Conv(t)] \in Seq(Message)
        BY <1>a, TypeHalvesNext DEF TypeInv, Stored
      <4>2. QED
        BY <2>3, <4>1
    <3>3. QED
      BY <1>4, <3>1, <3>2, BoundsAssumption
  <2>5. CASE LoadHistory(t)
    <3>1. history'[t] = Oldest(messages[Conv(t)])
      BY <1>a, <2>5 DEF LoadHistory, Moved
    <3>2. Oldest(messages[Conv(t)]) = messages[Conv(t)]
      BY <2>3, <2>4 DEF Oldest, First
    <3>3. QED
      BY <1>2, <1>4, <2>2, <3>1, <3>2, SavedAt DEF TypeInv, Role
  <2>6. CASE pc[t] \in Reading /\ history'[t] = history[t]
    BY <1>4, <2>1, <2>2, <2>4, <2>6 DEF ReadsInv
  <2>7. QED
    BY <1>4, <2>5, <2>6, HistoryStays
<1>5. Answered(u)'
  BY <1>3
<1>6. QED
  BY <1>4, <1>5

----
\* The inductive invariant: the types and TurnInv, and of every turn what was
\* heard, written down, recorded and read of it.
AnswersInv ==
  /\ TypeInv
  /\ \A t \in Turns : EventsInv(t) /\ RowsInv(t) /\ ActsInv(t) /\ ReadsInv(t)

LEMMA AnswersInvariant == Spec => []AnswersInv
<1>1. Init => AnswersInv
  <2> SUFFICES ASSUME Init PROVE AnswersInv
    OBVIOUS
  <2>1. TypeInv
    BY InitType, InitTurns DEF TypeInv
  <2>2. ASSUME NEW t \in Turns PROVE ActsInv(t) /\ ReadsInv(t)
    BY DEF Init, ActsInv, ReadsInv, Closing
  <2>3. QED
    BY <2>1, <2>2, InitEvents, InitRows DEF AnswersInv
<1>2. AnswersInv /\ [Next]_vars => AnswersInv'
  <2> SUFFICES ASSUME AnswersInv, [Next]_vars PROVE AnswersInv'
    OBVIOUS
  <2> USE DEF AnswersInv
  <2>1. TypeInv'
    BY StepType, StepTurns DEF TypeInv
  <2>2. \A t \in Turns : EventsInv(t)'
    BY StepEvents
  <2>3. \A t \in Turns : RowsInv(t)'
    BY <2>1, <2>2, StepRows
  <2>4. \A t \in Turns : ActsInv(t)'
    BY <2>1, <2>2, StepActs
  <2>5. \A t \in Turns : ReadsInv(t)'
    BY <2>1, StepReads
  <2>6. QED
    BY <2>1, <2>2, <2>3, <2>4, <2>5
<1>3. QED
  BY <1>1, <1>2, PTL DEF Spec

\* Nothing of a turn is written twice or in the wrong order, half an exchange
\* is the trace of a turn that failed or was cut off, and only whole exchanges
\* are remembered, whichever turns of the conversation run beside it.
THEOREM ExchangesAreWhole == Spec => []ExchangesWhole
<1>1. AnswersInv => ExchangesWhole
  <2> SUFFICES ASSUME AnswersInv, NEW t \in Turns
      PROVE  /\ Cardinality(At(t, "user")) <= 1
             /\ Cardinality(At(t, "assistant")) <= 1
             /\ \A i \in At(t, "assistant") : \E j \in At(t, "user") : j < i
             /\ HasRow(t, "user") /\ ~HasRow(t, "assistant") =>
                  \/ pc[t] = "savea" \/ outcome[t] = "error"
                  \/ pc[t] \in {"left", "lost"}
             /\ \A r \in Role : Row(t, r) \in memory => Saved(t)
    BY DEF ExchangesWhole, At
  <2>1. RowsInv(t) /\ TypeOK
    BY DEF AnswersInv, TypeInv
  <2>2. /\ HasRow(t, "user") <=> At(t, "user") # {}
        /\ HasRow(t, "assistant") <=> At(t, "assistant") # {}
    BY <2>1, SavedAt DEF HasRow, Role
  <2>3. Cardinality({}) = 0 /\ \A i \in Nat : Cardinality({i}) = 1
    BY FS_EmptySet, FS_Singleton
  <2>4. Blank(t) \/ Half(t) \/ Whole(t)
    BY <2>1 DEF RowsInv
  <2>5. /\ Cardinality(At(t, "user")) <= 1
        /\ Cardinality(At(t, "assistant")) <= 1
        /\ \A i \in At(t, "assistant") : \E j \in At(t, "user") : j < i
    BY <2>3, <2>4 DEF Blank, Half, Whole
  <2>6. Whole(t) => Saved(t)
    BY <2>2 DEF Whole, Saved
  <2>7. HasRow(t, "user") /\ ~HasRow(t, "assistant") => ~Blank(t) /\ ~Whole(t)
    BY <2>2 DEF Blank, Whole
  <2>8. \A r \in Role : Row(t, r) \in memory => Saved(t)
    BY <2>1, <2>6 DEF RowsInv, Row
  <2>9. QED
    BY <2>1, <2>5, <2>7, <2>8 DEF RowsInv
<1>2. QED
  BY <1>1, AnswersInvariant, PTL

\* A caller that was told it has its answer finds the exchange written down,
\* but for an empty stream and a reply cut short, with any errors, departures
\* and restarts around it.
THEOREM AnswersKept == Spec => []AnswersAreKept
<1>1. AnswersInv => AnswersAreKept
  <2> SUFFICES ASSUME AnswersInv, NEW t \in Turns,
               Answered(t) /\ (IF Streams(t) THEN spoke[t] ELSE ~cut[t])
      PROVE  Saved(t)
    BY DEF AnswersAreKept
  <2>1. RowsInv(t) /\ TypeOK
    BY DEF AnswersInv, TypeInv
  <2>2. Whole(t)
    BY <2>1 DEF RowsInv, Kept
  <2>3. QED
    BY <2>1, <2>2, SavedAt DEF Whole, Saved, HasRow, Role
<1>2. QED
  BY <1>1, AnswersInvariant, PTL

\* The contract of _sse_stream holds of every stream, however it ends.
THEOREM StreamsKeepProtocol == Spec => []StreamProtocol
<1>1. AnswersInv => StreamProtocol
  BY DEF AnswersInv, EventsInv, Ordered, StreamProtocol
<1>2. QED
  BY <1>1, AnswersInvariant, PTL

\* One record of each turn, and a success only of a turn that went well.
THEOREM ActivitiesAreTruthful == Spec => []ActivitiesTruthful
<1>1. AnswersInv => ActivitiesTruthful
  <2> SUFFICES ASSUME AnswersInv, NEW x \in activities, NEW y \in activities
      PROVE  /\ x.turn = y.turn => x = y
             /\ x.success => outcome[x.turn] \in {"answer", "held"}
    BY DEF ActivitiesTruthful
  <2>1. x.turn \in Turns
    BY TypeHalves DEF AnswersInv, TypeInv, Stored
  <2>2. ActsInv(x.turn)
    BY <2>1 DEF AnswersInv
  <2>3. QED
    BY <2>2 DEF ActsInv
<1>2. QED
  BY <1>1, AnswersInvariant, PTL

\* Who has its answer and asks again is answered by a CRUZ that has read the
\* first exchange, as long as LIMIT leaves room for it.
THEOREM RepliesAreRead == Spec => []ReadYourReplies
<1>1. AnswersInv => ReadYourReplies
  <2> SUFFICES ASSUME AnswersInv, NEW t \in Turns, NEW u \in before[t],
               Conv(u) = Conv(t), Saved(u),
               Len(messages[Conv(t)]) <= HistoryLimit,
               pc[t] \in Reading
      PROVE  {Row(u, "user"), Row(u, "assistant")} \subseteq ToSet(history[t])
    BY DEF ReadYourReplies, Reading
  <2>1. u \in Turns /\ TypeOK /\ ReadsInv(t)
    BY TypeHalves DEF AnswersInv, TypeInv, Stored
  <2>2. At(u, "user") # {} /\ At(u, "assistant") # {}
    BY <2>1, SavedAt DEF Saved, HasRow, Role
  <2>3. QED
    BY <2>1, <2>2 DEF ReadsInv
<1>2. QED
  BY <1>1, AnswersInvariant, PTL
----
\* The ledger: what the rows of a conversation answer

\* Every row of a conversation is of a turn of that conversation, and a turn
\* that failed has left no answer.
LedgerInv ==
  /\ \A c \in Convs : \A i \in DOMAIN messages[c] : Conv(messages[c][i].turn) = c
  /\ \A t \in Turns : outcome[t] = "error" => At(t, "assistant") = {}

\* Only save_exchange changes a conversation.
LEMMA OnlySaved ==
  ASSUME [Next]_vars, ~ \E t \in Turns : SaveMessage(t)
  PROVE  messages' = messages
BY DEF Next, TurnStep, vars, stores, Receive, FindConversation,
     CreateConversation, LoadHistory, GetDevice, SetDevice, PublishSwitch,
     HandoffFails, CallModel, StreamModel, EndOfStream, RunTool, Remember,
     RememberFails, Record, Report, Finish, Fault, Leave, Restart, Quiescent

\* The row that save_exchange adds, and where.
LEMMA SavedRow ==
  ASSUME TypeInv, NEW t \in Turns, SaveMessage(t)
  PROVE  /\ Conv(t) \in Convs
         /\ messages[Conv(t)] \in Seq(Message)
         /\ Row(t, RoleAt(pc[t])) \in Message
         /\ messages' = [messages EXCEPT ![Conv(t)] =
                           Append(messages[Conv(t)], Row(t, RoleAt(pc[t])))]
         /\ messages'[Conv(t)] = Append(messages[Conv(t)], Row(t, RoleAt(pc[t])))
         /\ \A c \in Convs : c # Conv(t) => messages'[c] = messages[c]
<1>1. Stored /\ Conv(t) \in Convs
  BY TypeHalves, AskType DEF TypeInv
<1>2. Row(t, RoleAt(pc[t])) \in Message
  BY DEF Row, RoleAt, Message, Role
<1>3. messages' = [messages EXCEPT ![Conv(t)] =
                     Append(messages[Conv(t)], Row(t, RoleAt(pc[t])))]
  BY DEF SaveMessage
<1>4. QED
  BY <1>1, <1>2, <1>3 DEF Stored

\* No row, no failure at first.
LEMMA InitLedger ==
  ASSUME Init
  PROVE  LedgerInv
BY DEF Init, LedgerInv

\* Rows enter the conversation of their turn.
LEMMA StepHome ==
  ASSUME TypeInv, LedgerInv, [Next]_vars, NEW c \in Convs
  PROVE  \A i \in DOMAIN messages'[c] : ask'[messages'[c][i].turn].conv = c
<1>1. \A u : ask'[u].conv = Conv(u)
  BY AskStays DEF Conv
<1>2. messages[c] \in Seq(Message)
  BY TypeHalves DEF TypeInv, Stored
<1>3. CASE messages'[c] = messages[c]
  BY <1>1, <1>3 DEF LedgerInv
<1>4. ASSUME NEW t \in Turns, SaveMessage(t), c = Conv(t)
      PROVE  \A i \in DOMAIN messages'[c] : ask'[messages'[c][i].turn].conv = c
  <2>1. messages'[c] = Append(messages[c], Row(t, RoleAt(pc[t])))
    BY <1>4, SavedRow
  <2>2. ASSUME NEW i \in DOMAIN messages'[c] PROVE ask'[messages'[c][i].turn].conv = c
    <3>1. \/ i \in DOMAIN messages[c] /\ messages'[c][i] = messages[c][i]
          \/ messages'[c][i] = Row(t, RoleAt(pc[t]))
      BY <1>2, <2>1
    <3>2. Row(t, RoleAt(pc[t])).turn = t
      BY DEF Row
    <3>3. CASE i \in DOMAIN messages[c] /\ messages'[c][i] = messages[c][i]
      BY <1>1, <3>3 DEF LedgerInv
    <3>4. CASE messages'[c][i] = Row(t, RoleAt(pc[t]))
      BY <1>1, <1>4, <3>2, <3>4
    <3>5. QED
      BY <3>1, <3>3, <3>4
  <2>3. QED
    BY <2>2
<1>5. QED
  BY <1>3, <1>4, OnlySaved, SavedRow

\* A turn fails before its answer is written, or not at all.
LEMMA StepFailed ==
  ASSUME TypeInv, \A t \in Turns : RowsInv(t), LedgerInv, [Next]_vars,
         NEW u \in Turns, outcome'[u] = "error"
  PROVE  At(u, "assistant")' = {}
<1>a. Moved /\ TurnInv(u) /\ RowsInv(u) /\ ask' = ask
  BY TypeHalves, AskStays DEF TypeInv
<1>b. "assistant" \in Role
  BY DEF Role
<1>1. CASE Apart(u)
  BY <1>1, <1>b DEF Apart, LedgerInv
<1>2. ASSUME messages' = messages, outcome'[u] = outcome[u]
      PROVE  At(u, "assistant")' = {}
  BY <1>a, <1>2 DEF At, Conv, Row, LedgerInv
<1>3. ASSUME TurnStep(u) \/ Fault(u) \/ Leave(u)
      PROVE  At(u, "assistant")' = {}
  <2>1. ~SaveMessage(u)
    BY <1>a DEF SaveMessage, TurnInv, Saving
  <2>2. \/ messages' = messages /\ outcome'[u] = outcome[u]
        \/ messages' = messages /\ pc[u] \in Early \cup {"saveq", "savea"}
    BY <1>3, <2>1 DEF TurnStep, stores, Receive, FindConversation,
       CreateConversation, LoadHistory, GetDevice, SetDevice, PublishSwitch,
       HandoffFails, CallModel, StreamModel, EndOfStream, RunTool, Remember,
       RememberFails, Record, Report, Finish, Fault, Leave, Early
  <2>3. ASSUME messages' = messages, pc[u] \in Early \cup {"saveq", "savea"}
        PROVE  At(u, "assistant")' = {}
    <3>1. At(u, "assistant") = {}
      BY <1>a, <2>3 DEF RowsInv, Blank, Half
    <3>2. QED
      BY <1>a, <2>3, <3>1 DEF At, Conv, Row
  <2>4. QED
    BY <1>2, <2>2, <2>3
<1>4. CASE Restart
  BY <1>2, <1>4, RestartApart DEF stores
<1>5. QED
  BY <1>1, <1>3, <1>4, StepApart, StutterApart DEF Next

\* Every step keeps both.
LEMMA StepLedger ==
  ASSUME TypeInv, \A t \in Turns : RowsInv(t), LedgerInv, [Next]_vars
  PROVE  LedgerInv'
<1>1. \A c \in Convs : \A i \in DOMAIN messages'[c] :
        ask'[messages'[c][i].turn].conv = c
  BY StepHome
<1>2. \A u \in Turns : outcome'[u] = "error" => At(u, "assistant")' = {}
  BY StepFailed
<1>3. QED
  BY <1>1, <1>2 DEF LedgerInv, Conv

\* Who is in the ledger of a conversation has its answer there.
LEMMA AnswersRow ==
  ASSUME NEW rows \in Seq(Message), NEW t \in ToSet(Answers(rows))
  PROVE  \E i \in DOMAIN rows : rows[i] = Row(t, "assistant")
<1> DEFINE S == {rows[i] : i \in DOMAIN rows}
           answers == Sift(rows, AnswerRows)
<1>1. rows \in Seq(S)
  OBVIOUS
<1> HIDE DEF S
<1>2. answers \in Seq(S \cap AnswerRows)
  BY <1>1, SiftType
<1>3. PICK i \in DOMAIN answers : t = answers[i].turn
  <2> HIDE DEF answers
  <2>1. t \in ToSet([i \in DOMAIN answers |-> answers[i].turn])
    BY DEF Answers, answers
  <2>2. QED
    BY <2>1 DEF ToSet
<1>4. answers[i] \in S \cap AnswerRows
  <2> HIDE DEF answers
  <2>1. QED
    BY <1>2, <1>3
<1>5. answers[i] = Row(t, "assistant")
  <2> HIDE DEF answers
  <2>1. answers[i] \in Message /\ answers[i].role = "assistant"
    BY <1>4 DEF AnswerRows
  <2>2. QED
    BY <1>3, <2>1 DEF Message, Row
<1>6. QED
  BY <1>4, <1>5 DEF S

\* A committed turn has its answer in its conversation.
LEMMA CommittedAt ==
  ASSUME TypeInv, LedgerInv, NEW t \in Turns, NEW c \in Convs,
         t \in ToSet(Answers(messages[c]))
  PROVE  At(t, "assistant") # {}
<1>1. messages[c] \in Seq(Message)
  BY TypeHalves DEF TypeInv, Stored
<1>2. PICK i \in DOMAIN messages[c] : messages[c][i] = Row(t, "assistant")
  BY <1>1, AnswersRow
<1>3. Conv(t) = c
  <2>1. Row(t, "assistant").turn = t
    BY DEF Row
  <2>2. QED
    BY <1>2, <2>1 DEF LedgerInv
<1>4. QED
  BY <1>2, <1>3 DEF At

\* A question does not move the ledger, and an answer enters it at its end.
LEMMA AnswersAppend ==
  ASSUME NEW rows \in Seq(Message), NEW t \in Turns, NEW r \in Role
  PROVE  Answers(Append(rows, Row(t, r))) =
           IF r = "assistant" THEN Append(Answers(rows), t) ELSE Answers(rows)
<1> DEFINE m == Row(t, r)
           old == Sift(rows, AnswerRows)
           new == Sift(Append(rows, m), AnswerRows)
           Names(s) == [i \in DOMAIN s |-> s[i].turn]
<1>1. m \in Message /\ m.turn = t /\ m.role = r
  BY DEF Row, Message
<1>2. m \in AnswerRows <=> r = "assistant"
  BY <1>1 DEF AnswerRows
<1>3. new = IF m \in AnswerRows THEN Append(old, m) ELSE old
  <2> HIDE DEF m
  <2>1. QED
    BY <1>1, SiftAppend
<1>4. old \in Seq(Message)
  <2>1. old \in Seq(Message \cap AnswerRows)
    BY SiftType
  <2> HIDE DEF old
  <2>2. QED
    BY <2>1
<1>5. Answers(rows) = Names(old) /\ Answers(Append(rows, m)) = Names(new)
  BY DEF Answers
<1> HIDE DEF m, old, new
<1>6. Names(Append(old, m)) = Append(Names(old), t)
  <2>1. /\ DOMAIN Append(old, m) = 1 .. Len(old) + 1 /\ DOMAIN old = 1 .. Len(old)
        /\ Len(old) \in Nat
        /\ \A i \in 1 .. Len(old) : Append(old, m)[i] = old[i]
        /\ Append(old, m)[Len(old) + 1] = m
    BY <1>1, <1>4
  <2>2. Names(old) \in Seq(Turns) /\ Len(Names(old)) = Len(old)
    <3>1. \A i \in 1 .. Len(old) : old[i].turn \in Turns
      <4>1. \A i \in 1 .. Len(old) : old[i] \in Message
        BY <1>4, <2>1
      <4>2. \A x \in Message : x.turn \in Turns
        BY DEF Message
      <4>3. QED
        BY <4>1, <4>2
    <3>2. Names(old) \in [1 .. Len(old) -> Turns]
      BY <2>1, <3>1
    <3>3. QED
      <4> DEFINE n == Names(old)
      <4> HIDE DEF n
      <4>1. n \in [1 .. Len(old) -> Turns]
        BY <3>2 DEF n
      <4>2. n \in Seq(Turns) /\ Len(n) = Len(old)
        BY <2>1, <4>1
      <4>3. QED
        BY <4>2 DEF n
  <2>3. Append(Names(old), t) =
          [i \in 1 .. Len(old) + 1 |-> IF i \in 1 .. Len(old) THEN Names(old)[i] ELSE t]
    BY <2>2
  <2>4. QED
    BY <1>1, <2>1, <2>3
<1>7. QED
  BY <1>2, <1>3, <1>5, <1>6 DEF m

----
\* The phases of a turn: what was heard stays

\* Who has heard how a turn ends is not told otherwise later.
LEMMA HeardStays ==
  ASSUME TypeInv, \A t \in Turns : EventsInv(t), [Next]_vars,
         NEW u \in Turns, Heard(u)
  PROVE  Heard(u)' /\ outcome'[u] = outcome[u]
<1>a. Moved /\ ask' = ask /\ EventsInv(u) /\ events[u] \in Seq(Event)
  BY TypeHalves, AskStays DEF TypeInv, Moved
<1>b. Streams(u)' = Streams(u)
  BY <1>a DEF Streams
<1>1. /\ Streams(u) => Told(u)
      /\ pc[u] \in Ended \/ (Streams(u) /\ pc[u] \in {"record", "done"})
  <2>1. Streams(u) => Told(u)
    BY HeardTold
  <2>2. QED
    BY <1>a, <2>1 DEF Heard, EventsInv, Moved, Pcs, Ended, Early, Saving, Closing
<1>2. ASSUME events'[u] = events[u], outcome'[u] = outcome[u],
             pc[u] = "end" => pc'[u] = "end"
      PROVE  Heard(u)' /\ outcome'[u] = outcome[u]
  BY <1>b, <1>2 DEF Heard
<1>3. CASE Apart(u)
  BY <1>2, <1>3 DEF Apart
<1>4. ASSUME TurnStep(u) \/ Fault(u) \/ Leave(u)
      PROVE  Heard(u)' /\ outcome'[u] = outcome[u]
  <2>1. Record(u) \/ Leave(u) \/ Finish(u)
    BY <1>1, <1>4 DEF TurnStep, Receive, FindConversation, CreateConversation,
         LoadHistory, GetDevice, SetDevice, PublishSwitch, HandoffFails,
         CallModel, StreamModel, EndOfStream, RunTool, SaveMessage, Remember,
         RememberFails, Report, Fault, Ended
  <2>2. CASE Record(u) \/ Leave(u)
    BY <1>2, <2>2 DEF Record, Leave, Running, Ended
  <2>3. CASE Finish(u)
    <3>1. Streams(u) /\ Told(u) /\ outcome'[u] = outcome[u]
      BY <1>1, <2>3 DEF Finish, Ended
    <3>2. events'[u] = Append(events[u], "done")
      <4>1. events[u] \o <<"done">> = Append(events[u], "done")
        BY <1>a
      <4>2. QED
        BY <1>a, <2>3, <3>1, <4>1 DEF Finish, Emit, Moved
    <3>3. Told(u)'
      BY <1>a, <3>1, <3>2 DEF Told
    <3>4. QED
      BY <1>b, <3>1, <3>3, HeardToldNext
  <2>4. QED
    BY <2>1, <2>2, <2>3
<1>5. CASE Restart
  BY <1>2, <1>5, RestartApart DEF Ended
<1>6. QED
  BY <1>3, <1>4, <1>5, StepApart, StutterApart DEF Next

\* What a phase is made of.
LEMMA PhaseHeard ==
  ASSUME NEW t
  PROVE  /\ Heard(t) /\ outcome[t] = "answer" => Phase(t) = "answered"
         /\ Heard(t) /\ outcome[t] = "held" => Phase(t) = "held"
         /\ Heard(t) /\ outcome[t] = "error" => Phase(t) = "failed"
         /\ Heard(t) /\ outcome[t] \notin {"answer", "held", "error"} => Phase(t) = "open"
         /\ ~Heard(t) /\ pc[t] \in {"left", "lost"} => Phase(t) = "gone"
         /\ ~Heard(t) /\ pc[t] \notin {"left", "lost"} => Phase(t) = "open"
BY DEF Phase

\* The same of the next state.
LEMMA PhaseHeardNext ==
  ASSUME NEW t
  PROVE  /\ Heard(t)' /\ outcome'[t] = "answer" => Phase(t)' = "answered"
         /\ Heard(t)' /\ outcome'[t] = "held" => Phase(t)' = "held"
         /\ Heard(t)' /\ outcome'[t] = "error" => Phase(t)' = "failed"
         /\ Heard(t)' /\ outcome'[t] \notin {"answer", "held", "error"} => Phase(t)' = "open"
         /\ ~Heard(t)' /\ pc'[t] \in {"left", "lost"} => Phase(t)' = "gone"
         /\ ~Heard(t)' /\ pc'[t] \notin {"left", "lost"} => Phase(t)' = "open"
BY DEF Phase

\* A phase that is not open stays, and one that closes is told of a turn that
\* has no answer in the ledger if it was held or failed.
LEMMA PhaseStays ==
  ASSUME TypeInv, \A t \in Turns : EventsInv(t), [Next]_vars, NEW u \in Turns
  PROVE  \/ Phase(u)' = Phase(u)
         \/ Phase(u) = "open" /\ Phase(u)' \in Ledger!Closed
<1>a. Moved
  BY TypeHalves DEF TypeInv
<1>1. CASE Heard(u)
  <2>1. Heard(u)' /\ outcome'[u] = outcome[u]
    BY <1>1, HeardStays
  <2>2. QED
    BY <1>1, <2>1, PhaseHeard, PhaseHeardNext
<1>2. CASE ~Heard(u) /\ pc[u] \in {"left", "lost"}
  <2>1. /\ pc'[u] = pc[u] /\ events'[u] = events[u]
        /\ ask' = ask
    <3>1. ~TurnStep(u) /\ ~Fault(u) /\ ~Leave(u)
      BY <1>2 DEF TurnStep, Receive, FindConversation, CreateConversation,
         LoadHistory, GetDevice, SetDevice, PublishSwitch, HandoffFails,
         CallModel, StreamModel, EndOfStream, RunTool, SaveMessage, Remember,
         RememberFails, Record, Report, Finish, Fault, Leave, Running, Ended
    <3>2. Apart(u) \/ Restart
      BY <3>1, StepApart, StutterApart DEF Next
    <3>3. QED
      BY <1>2, <3>2, AskStays, RestartApart DEF Apart, Ended
  <2>2. ~Heard(u)'
    BY <1>2, <2>1 DEF Heard, Streams
  <2>3. QED
    BY <1>2, <2>1, <2>2, PhaseHeard, PhaseHeardNext
<1>3. CASE ~Heard(u) /\ pc[u] \notin {"left", "lost"}
  <2>1. Phase(u) = "open"
    BY <1>3, PhaseHeard
  <2>2. Phase(u)' \in Ledger!Closed \cup {"open"}
    BY PhaseHeardNext DEF Ledger!Closed
  <2>3. QED
    BY <2>1, <2>2
<1>4. QED
  BY <1>1, <1>2, <1>3

\* The phase of a turn left alone.
LEMMA ApartPhase ==
  ASSUME NEW u \in Turns, Apart(u), ask' = ask
  PROVE  Phase(u)' = Phase(u)
<1>1. Heard(u)' <=> Heard(u)
  BY DEF Heard, Streams, Apart
<1>2. QED
  BY <1>1, PhaseHeard, PhaseHeardNext DEF Apart

\* The two variables of TurnLedger.
Book == [c \in Convs |-> Answers(messages[c])]
Phases == [t \in Turns |-> Phase(t)]

\* A statement of save_exchange is a commit if it writes the answer, and
\* nothing to the ledger if it writes the question.
LEMMA SaveCommits ==
  ASSUME AnswersInv, LedgerInv, AnswersInv', [Next]_vars,
         NEW t \in Turns, SaveMessage(t)
  PROVE  Ledger!Commit(t) \/ UNCHANGED <<Book, Phases>>
<1>a. /\ TypeInv /\ Moved /\ ask' = ask /\ EventsInv(t) /\ EventsInv(t)' /\ RowsInv(t)
  BY TypeHalves, AskStays DEF AnswersInv, TypeInv
<1>1. /\ Phase(t) = "open" /\ Phase(t)' = "open"
  <2>1. pc[t] \in {"saveq", "savea"} /\ pc'[t] \in {"savea", "memq"}
    BY <1>a DEF SaveMessage, Following, Go, Moved
  <2>2. ~Told(t) /\ ~Told(t)'
    BY <1>a, <2>1 DEF EventsInv, Saving
  <2>3. ~Heard(t) /\ ~Heard(t)'
    BY <2>1, <2>2, HeardTold, HeardToldNext DEF Heard
  <2>4. QED
    BY <2>1, <2>3, PhaseHeard, PhaseHeardNext
<1>2. Phases' = Phases
  <2>1. ASSUME NEW u \in Turns PROVE Phase(u)' = Phase(u)
    <3>1. CASE u = t
      BY <1>1, <3>1
    <3>2. CASE u # t
      <4>1. Apart(u)
        BY <1>a, <3>2, StepApart DEF TurnStep
      <4>2. QED
        BY <1>a, <4>1, ApartPhase
    <3>3. QED
      BY <3>1, <3>2
  <2>2. QED
    BY <2>1 DEF Phases
<1> DEFINE r == RoleAt(pc[t])
           c == Conv(t)
<1>3. r \in Role /\ c \in Convs /\ messages[c] \in Seq(Message)
  BY <1>a, SavedRow DEF RoleAt, Role
<1>4. /\ Answers(messages'[c]) = IF r = "assistant" THEN Append(Answers(messages[c]), t)
                                 ELSE Answers(messages[c])
      /\ \A d \in Convs : d # c => messages'[d] = messages[d]
  <2>1. /\ messages'[c] = Append(messages[c], Row(t, r))
        /\ \A d \in Convs : d # c => messages'[d] = messages[d]
    BY <1>a, SavedRow
  <2> HIDE DEF r, c
  <2>2. Answers(Append(messages[c], Row(t, r))) =
          IF r = "assistant" THEN Append(Answers(messages[c]), t)
          ELSE Answers(messages[c])
    BY <1>3, AnswersAppend
  <2>3. QED
    BY <2>1, <2>2
<1>5. CASE r = "assistant"
  <2>1. pc[t] = "savea"
    BY <1>5 DEF SaveMessage, RoleAt
  <2>2. At(t, "assistant") = {}
    BY <1>a, <2>1 DEF RowsInv, Half
  <2>3. ~ \E d \in Convs : t \in ToSet(Answers(messages[d]))
    BY <1>a, <2>2, CommittedAt
  <2>4. ~Ledger!Committed(t)
    BY <2>3 DEF Ledger!Committed, Ledger!ToSet, ToSet
  <2>5. Book' = [Book EXCEPT ![c] = Append(@, t)]
    <3> HIDE DEF r, c
    <3>1. QED
      BY <1>3, <1>4, <1>5 DEF Book
  <2>6. Phases[t] = "open"
    BY <1>1 DEF Phases
  <2> HIDE DEF r, c
  <2>7. QED
    BY <1>2, <1>3, <2>4, <2>5, <2>6 DEF Ledger!Commit, Book, Phases
<1>6. CASE r # "assistant"
  <2> HIDE DEF r, c
  <2>1. Book' = Book
    BY <1>3, <1>4, <1>6 DEF Book
  <2>2. QED
    BY <1>2, <2>1
<1>7. QED
  BY <1>5, <1>6

\* A hold or a failure is told of a turn without an answer.
LEMMA ClosedUncommitted ==
  ASSUME AnswersInv, LedgerInv, AnswersInv', LedgerInv', [Next]_vars,
         NEW t \in Turns, messages' = messages,
         Phase(t) = "open", Phase(t)' \in {"held", "failed"}
  PROVE  ~Ledger!Committed(t)
<1>1. SUFFICES ASSUME NEW c \in Convs, t \in ToSet(Answers(messages[c]))
      PROVE  FALSE
  BY DEF Ledger!Committed, Ledger!ToSet, ToSet
<1>2. At(t, "assistant") # {} /\ TypeInv /\ ask' = ask
  BY <1>1, CommittedAt, AskStays DEF AnswersInv
<1>3. At(t, "assistant")' = At(t, "assistant")
  BY <1>2 DEF At, Conv, Row
<1>4. outcome'[t] \in {"held", "error"}
  BY PhaseHeardNext
<1>5. outcome'[t] = "held"
  BY <1>2, <1>3, <1>4 DEF LedgerInv
<1>6. Untouched(t)'
  BY <1>5 DEF AnswersInv, TypeInv, TurnInv
<1>7. Conv(t) \in Convs
  BY <1>2, AskType DEF TypeInv
<1>8. \A i \in DOMAIN messages[Conv(t)] : messages[Conv(t)][i].turn # t
  BY <1>6, <1>7 DEF Untouched
<1>9. QED
  BY <1>2, <1>8 DEF At, Row

\* A restart closes every turn that was open and running.
LEMMA RestartCloses ==
  ASSUME AnswersInv, Restart, [Next]_vars
  PROVE  Ledger!CloseAll({t \in Turns : Phase(t) # Phase(t)'})
<1>a. TypeInv /\ \A t \in Turns : EventsInv(t)
  BY DEF AnswersInv
<1>1. messages' = messages
  BY DEF Restart, stores
<1>2. ASSUME NEW t \in Turns, Phase(t) # Phase(t)'
      PROVE  Phase(t) = "open" /\ Phase(t)' = "gone"
  <2>1. Phase(t) = "open"
    BY <1>a, <1>2, PhaseStays
  <2>2. /\ pc'[t] = IF pc[t] \in Ended \cup {"new"} THEN pc[t] ELSE "lost"
        /\ UNCHANGED <<ask, outcome, events>>
    BY <1>a, RestartApart
  <2>3. Heard(t)' <=> Heard(t)
    BY <2>2 DEF Heard, Streams, Ended
  <2>4. QED
    BY <1>2, <2>1, <2>2, <2>3, PhaseHeard, PhaseHeardNext
<1>3. Phases' = [t \in Turns |->
         IF t \in {u \in Turns : Phase(u) # Phase(u)'} THEN "gone" ELSE Phases[t]]
  BY <1>2 DEF Phases
<1>4. \A t \in {u \in Turns : Phase(u) # Phase(u)'} : Phases[t] = "open"
  BY <1>2 DEF Phases
<1>5. QED
  BY <1>1, <1>3, <1>4 DEF Ledger!CloseAll, Phases

\* Every step of CruzTurn is a step of TurnLedger, or none.
LEMMA StepOfLedger ==
  ASSUME AnswersInv, LedgerInv, AnswersInv', LedgerInv', [Next]_vars
  PROVE  [Ledger!LedgerNext]_(Ledger!ledgerVars)
<1>a. TypeInv /\ ask' = ask /\ \A t \in Turns : EventsInv(t)
  BY AskStays DEF AnswersInv
<1>b. UNCHANGED <<Book, Phases>> => UNCHANGED Ledger!ledgerVars
  BY DEF Book, Phases, Ledger!ledgerVars
<1>1. ASSUME NEW t \in Turns, SaveMessage(t)
      PROVE  [Ledger!LedgerNext]_(Ledger!ledgerVars)
  BY <1>b, <1>1, SaveCommits DEF Ledger!LedgerNext
<1>2. ASSUME NEW t \in Turns, TurnStep(t) \/ Fault(t) \/ Leave(t),
             messages' = messages
      PROVE  [Ledger!LedgerNext]_(Ledger!ledgerVars)
  <2>1. \A u \in Turns : u # t => Phase(u)' = Phase(u)
    BY <1>a, <1>2, StepApart, ApartPhase
  <2>2. Book' = Book
    BY <1>2 DEF Book
  <2>3. CASE Phase(t)' = Phase(t)
    <3>1. Phases' = Phases
      BY <2>1, <2>3 DEF Phases
    <3>2. QED
      BY <1>b, <2>2, <3>1
  <2>4. CASE Phase(t)' # Phase(t)
    <3>1. Phase(t) = "open" /\ Phase(t)' \in Ledger!Closed
      BY <1>a, <2>4, PhaseStays
    <3>2. Phases' = [Phases EXCEPT ![t] = Phase(t)'] /\ Phases[t] = "open"
      BY <2>1, <3>1 DEF Phases
    <3>3. Phase(t)' \in {"held", "failed"} => ~Ledger!Committed(t)
      BY <1>2, <3>1, ClosedUncommitted
    <3>4. Ledger!Close(t, Phase(t)')
      BY <2>2, <3>2, <3>3 DEF Ledger!Close, Book, Phases
    <3>5. QED
      BY <3>1, <3>4 DEF Ledger!LedgerNext
  <2>5. QED
    BY <2>3, <2>4
<1>3. CASE Restart
  BY <1>3, RestartCloses DEF Ledger!LedgerNext
<1>4. CASE Quiescent \/ UNCHANGED vars
  <2>1. \A u \in Turns : Phase(u)' = Phase(u)
    BY <1>a, <1>4, StutterApart, ApartPhase
  <2>2. messages' = messages
    BY <1>4 DEF Quiescent, vars, stores
  <2>3. QED
    BY <1>b, <2>1, <2>2 DEF Book, Phases
<1>5. QED
  BY <1>1, <1>2, <1>3, <1>4, OnlySaved DEF Next, TurnStep

\* What the callers of CRUZ may rely on, TurnLedger, is what process,
\* stream_response and save_exchange implement: an exchange is committed once,
\* while its turn is open, and a hold or a failure leaves no answer behind.
THEOREM LedgerKept == Spec => LedgerSpec
<1>1. Init => Ledger!LedgerInit
  <2> SUFFICES ASSUME Init PROVE Ledger!LedgerInit
    OBVIOUS
  <2>1. \A c \in Convs : Answers(messages[c]) = <<>>
    <3>1. \A c \in Convs : messages[c] = <<>>
      BY DEF Init
    <3>2. Sift(<<>>, AnswerRows) = <<>>
      BY SiftEmpty
    <3>3. QED
      BY <3>1, <3>2 DEF Answers
  <2>2. \A t \in Turns : Phase(t) = "open"
    <3>1. \A t \in Turns : pc[t] = "new" /\ events[t] = <<>>
      BY DEF Init
    <3>2. \A t \in Turns : ~Heard(t)
      BY <3>1 DEF Heard, ToSet
    <3>3. QED
      BY <3>1, <3>2, PhaseHeard
  <2>3. QED
    BY <2>1, <2>2 DEF Ledger!LedgerInit
<1>2. LedgerInv /\ AnswersInv /\ AnswersInv' /\ [Next]_vars => LedgerInv'
  BY StepLedger DEF AnswersInv
<1>3. /\ LedgerInv /\ LedgerInv' /\ AnswersInv /\ AnswersInv' /\ [Next]_vars
      => [Ledger!LedgerNext]_(Ledger!ledgerVars)
  BY StepOfLedger
<1>4. Spec => []LedgerInv
  BY <1>2, InitLedger, AnswersInvariant, PTL DEF Spec
<1>5. QED
  BY <1>1, <1>3, <1>4, AnswersInvariant, PTL DEF Spec, LedgerSpec, Ledger!LedgerSpec
====

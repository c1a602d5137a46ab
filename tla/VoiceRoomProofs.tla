--------------------------- MODULE VoiceRoomProofs ---------------------------
(* Theorems about voice calls, for any number of visits, drops, turns and   *)
(* pieces of a reply.  Page and agent share the step relation and nothing   *)
(* that either invariant speaks of, so each has an invariant of its own.    *)
EXTENDS VoiceRoom, FiniteSetTheorems, SequenceTheorems, TLAPS

----------------------------------------------------------------------------
(* The agent.  The invariant says, for every place of the turns' task,      *)
(* which turns were put to CRUZ, how far the row of voice_sessions is       *)
(* behind the call's own counters, and what the flag for barge-in means.    *)

\* A turn that was taken from the queue has been counted.
Counted == turn.at \notin {"wait", "final", "gone"} => turns > 0

\* Every turn was put to CRUZ, but for one whose count is under way or failed.
AskedInv ==
  \/ turn.at # "count" /\ asked = 1..turns
  \/ turn.at \in {"count", "gone"} /\ turns > 0 /\ asked = 1..(turns - 1)

\* The call's counter of barge-ins counts the turns that were broken off.
CutInv == IsFiniteSet(cut) /\ barges = Cardinality(cut)

\* A row that was closed beside a turn that goes on: only that turn can count
\* after it, as the recogniser is closed and gives no other.
Beside ==
  /\ row.turns \in {turns - 1, turns, turns + 1}
  /\ row.barges \in {barges - 1, barges, barges + 1}
  /\ asked = 1..turns => row.turns >= turns
  /\ turn.at \in {"wait", "final"} => row.turns = turns
  /\ turn.at = "count" => row.turns <= turns
  /\ turn.at \notin {"barge", "gone"} => row.barges = barges
  /\ turn.at = "barge" => row.barges <= barges

\* A row that is open is behind by the count that is under way, or that may
\* have failed; a row that is closed is ahead by one that came after, at most, or
\* has a turn beside it.
RowInv ==
  /\ job = "none" => row.state = "none"
  /\ job \in {"on", "closing", "killed"} => row.state = "live"
  /\ job = "orphaned" => row.state # "none"
  /\ job \in {"killed", "orphaned"} => stt.closed
  /\ row.state = "none" => turns = 0 /\ barges = 0 /\ turn.at \in {"wait", "gone"}
                           /\ row.turns = 0 /\ row.barges = 0 /\ job \in {"none", "over"}
  /\ row.state = "live" =>
       /\ row.turns \in {turns - 1, turns} /\ row.barges \in {barges - 1, barges}
       /\ asked = 1..turns => row.turns = turns
       /\ turn.at \notin {"barge", "gone"} => row.barges = barges
       /\ turn.at = "count" /\ job # "lost" => row.turns = turns - 1
       /\ turn.at = "barge" /\ job # "lost" => row.barges = barges - 1
  /\ row.state = "ended" =>
       /\ job \in {"over", "orphaned"}
       /\ job = "over" =>
            /\ row.turns >= turns /\ row.barges >= barges
            /\ row.turns + row.barges <= turns + barges + 1
            /\ turn.at # "gone" => row.turns = turns /\ row.barges = barges
       /\ job = "orphaned" => Beside

\* The flag for barge-in is down until the reply is played, and then says
\* whether this very turn was spoken over.
FlagInv ==
  /\ turn.at \in {"ask", "chunk"} => ~cancel
  /\ Speaking => (cancel <=> turns \in spokenOver)

WInv ==
  /\ WorkerTypeOK
  /\ Counted /\ AskedInv /\ CutInv /\ RowInv /\ FlagInv /\ BargeExact

\* Before a call there is no row, nothing was asked and nothing is played.
LEMMA WorkerInitInv == Init => WInv
<1> SUFFICES ASSUME WorkerInit
             PROVE  WInv
  BY DEF Init
<1> USE WorkerAssumption DEF WorkerInit
<1>1. 1..0 = {} /\ asked = 1..turns
  OBVIOUS
<1>2. CutInv
  BY FS_EmptySet DEF CutInv
<1>6. asked \subseteq 1..turns /\ spokenOver \subseteq asked /\ cut \subseteq asked
  OBVIOUS
<1>7. turn \in [at : {"wait"}, chunks : 0..MaxChunks]
  OBVIOUS
<1>3. WorkerTypeOK
  BY <1>6, <1>7 DEF WorkerTypeOK
<1>5. Counted /\ FlagInv /\ BargeExact
  BY DEF Counted, FlagInv, BargeExact, Speaking
<1>4. RowInv
  BY DEF RowInv
<1> QED
  BY <1>1, <1>2, <1>3, <1>4, <1>5 DEF WInv, AskedInv

\* A loud frame while the reply of a turn is played sets the flag and marks the
\* turn, which was put to CRUZ and is not broken off yet.
LEMMA HeardInv ==
  ASSUME NEW loud \in BOOLEAN, WInv, Heard(loud), ear' \in {"ready", "dead"},
         stt' \in [connected : BOOLEAN, kept : BOOLEAN, closed : BOOLEAN],
         stt'.closed = stt.closed, quiet' \in BOOLEAN,
         UNCHANGED <<job, row, turns, barges, turn, queue, asked, cut>>
  PROVE  WInv'
<1> USE DEF WInv, Heard, Speaking
<1>1. CASE Speaking /\ loud
  <2>1. cancel' = TRUE /\ spokenOver' = spokenOver \union {turns}
    BY <1>1
  <2>2. turns \in asked
    BY <1>1 DEF WorkerTypeOK, Counted, AskedInv
  <2>3. WorkerTypeOK'
    BY <2>1, <2>2 DEF WorkerTypeOK
  <2>4. BargeExact'
    BY <2>1, <1>1 DEF WorkerTypeOK, BargeExact
  <2>5. FlagInv'
    BY <2>1, <1>1, <2>2 DEF WorkerTypeOK, FlagInv
  <2> QED
    BY <2>3, <2>4, <2>5 DEF Counted, AskedInv, CutInv, RowInv, Beside
<1>2. CASE ~(Speaking /\ loud)
  <2>1. cancel' = cancel /\ spokenOver' = spokenOver
    BY <1>2 DEF WorkerTypeOK
  <2> QED
    BY <2>1 DEF WorkerTypeOK, Counted, AskedInv, CutInv, RowInv, Beside, FlagInv,
                BargeExact
<1> QED
  BY <1>1, <1>2

\* A step that changes neither row nor counters nor the turn, and does not open
\* the recogniser again.
LEMMA QuietInv ==
  ASSUME WInv, WorkerTypeOK', stt'.closed = stt.closed,
         UNCHANGED <<job, row, turns, barges, turn, cancel, asked, spokenOver, cut>>
  PROVE  WInv'
  BY DEF WInv, Counted, AskedInv, CutInv, RowInv, Beside, FlagInv, BargeExact, Speaking

\* The recogniser is closed while the row is open.
LEMMA ClosingInv ==
  ASSUME WInv, job = "on", job' \in {"closing", "killed"},
         stt' = [stt EXCEPT !.connected = stt.connected /\ ~stt.kept,
                            !.closed = TRUE],
         UNCHANGED <<row, turns, barges, turn, queue, cancel, ear, quiet, asked,
                     spokenOver, cut>>
  PROVE  WInv'
<1>1. stt' \in [connected : BOOLEAN, kept : BOOLEAN, closed : BOOLEAN] /\ stt'.closed
  BY DEF WInv, WorkerTypeOK
<1>2. WorkerTypeOK'
  BY <1>1 DEF WInv, WorkerTypeOK
<1> QED
  BY <1>1, <1>2 DEF WInv, Counted, AskedInv, CutInv, RowInv, FlagInv, BargeExact, Speaking

\* Every step of the agent keeps the invariant, wherever the page is.
LEMMA WorkerStepInv ==
  ASSUME NEW inRoom, NEW flowing, WInv, WorkerNext(inRoom, flowing)
  PROVE  WInv'
<1> USE WorkerAssumption
<1> USE DEF WInv, WorkerTypeOK, Counted, AskedInv, CutInv, RowInv, FlagInv,
            BargeExact, Speaking, Beside, Runs
<1>1. CASE Begin(inRoom)
  BY <1>1 DEF Begin
<1>2. CASE Subscribe(flowing)
  BY <1>2, QuietInv DEF Subscribe
<1>3. CASE Frame(flowing)
  <2>1. CASE ear' = "opening" /\ UNCHANGED <<cancel, spokenOver>>
    <3>1. stt'.closed = stt.closed
          /\ UNCHANGED <<job, row, turns, barges, turn, cancel, asked, spokenOver, cut>>
      BY <1>3, <2>1 DEF Frame
    <3>2. WorkerTypeOK'
      BY <1>3, <2>1 DEF Frame
    <3> QED
      BY <3>1, <3>2, QuietInv
  <2>2. CASE \E loud \in BOOLEAN : Heard(loud) /\ ear' \in {"ready", "dead"}
    BY <1>3, <2>2, HeardInv DEF Frame
  <2> QED
    BY <1>3, <2>1, <2>2 DEF Frame
<1>4. CASE Opened
  <2>1. CASE ear' = "dead" /\ UNCHANGED <<stt, cancel, spokenOver>>
    BY <1>4, <2>1, QuietInv DEF Opened
  <2>2. CASE /\ stt' = [stt EXCEPT !.connected = TRUE, !.kept = TRUE]
             /\ \E loud \in BOOLEAN : Heard(loud) /\ ear' \in {"ready", "dead"}
    BY <1>4, <2>2, HeardInv DEF Opened
  <2> QED
    BY <1>4, <2>1, <2>2 DEF Opened
<1>5. CASE Transcript
  BY <1>5, QuietInv DEF Transcript
<1>6. CASE Take
  BY <1>6 DEF Take, TurnStep
<1>7. CASE Count
  BY <1>7 DEF Count, TurnStep, Goes
<1>8. CASE Ask
  <2>1. CASE UNCHANGED asked
    <3>1. /\ turn' = [turn EXCEPT !.at = "gone"] /\ turn.at = "count"
          /\ UNCHANGED <<job, turns, barges, cancel, queue, ear, stt, quiet, asked,
                         spokenOver, cut>>
          /\ Landed
      BY <1>8, <2>1 DEF Ask, TurnStep, Goes
    <3>2. CASE UNCHANGED row
      BY <3>1, <3>2
    <3>3. CASE row' = [row EXCEPT !.turns = row.turns + 1]
      BY <3>1, <3>3, <1>8 DEF Ask, TurnStep
    <3> QED
      BY <3>1, <3>2, <3>3 DEF Landed
  <2>2. CASE /\ row' = [row EXCEPT !.turns = row.turns + 1]
             /\ cancel' = FALSE
             /\ asked' = asked \union {turns}
             /\ Goes("ask")
    <3>1. /\ turn' = [turn EXCEPT !.at = "ask"] /\ turn.at = "count"
          /\ job \in {"on", "killed", "orphaned"}
          /\ UNCHANGED <<job, turns, barges, queue, ear, stt, quiet, spokenOver, cut>>
      BY <1>8, <2>2 DEF Ask, TurnStep, Goes
    <3>2. /\ turns > 0 /\ row.state # "none" /\ row.barges = barges
          /\ row.turns \in {turns - 1, turns}
          /\ row.state = "live" => row.turns = turns - 1
      BY <3>1
    <3>3. asked = 1..(turns - 1) /\ asked' = 1..turns
      BY <2>2, <3>1, <3>2
    <3>4. RowInv'
      BY <2>2, <3>1, <3>2, <3>3
    <3>8. row' \in [state : {"none", "live", "ended"}, turns : Nat, barges : Nat]
      BY <2>2, <3>1
    <3>9. asked \subseteq asked' /\ asked' \subseteq 1..turns
      BY <2>2, <3>3
    <3>5. WorkerTypeOK'
      BY <2>2, <3>1, <3>8, <3>9
    <3>6. BargeExact'
      BY <2>2, <3>1, <3>3
    <3> QED
      BY <2>2, <3>1, <3>2, <3>3, <3>4, <3>5, <3>6
  <2> QED
    BY <1>8, <2>1, <2>2 DEF Ask
<1>9. CASE Reply
  BY <1>9 DEF Reply, TurnStep, Goes, Onward
<1>10. CASE Play
  BY <1>10 DEF Play, TurnStep, Goes
<1>11. CASE FallBack
  BY <1>11 DEF FallBack, TurnStep, Goes
<1>12. CASE Played
  BY <1>12, FS_AddElement DEF Played, TurnStep, Goes
<1>13. CASE Voiceless
  BY <1>13 DEF Voiceless, TurnStep, Goes
<1>14. CASE CountBarge
  BY <1>14 DEF CountBarge, TurnStep, Goes, Landed, Onward
<1>15. CASE Hush(flowing)
  BY <1>15, QuietInv DEF Hush
<1>16. CASE Close
  BY <1>16, ClosingInv DEF Close
<1>17. CASE Unwind
  <2>1. /\ turn' = [turn EXCEPT !.at = "gone"] /\ turn.at # "gone"
        /\ job \in {"closing", "over", "killed", "orphaned"}
        /\ UNCHANGED <<job, turns, barges, queue, cancel, ear, stt, quiet, asked,
                       spokenOver, cut>>
    BY <1>17 DEF Unwind, Goes
  <2>2. CASE UNCHANGED row
    BY <2>1, <2>2
  <2>3. CASE turn.at = "count" /\ row' = [row EXCEPT !.turns = row.turns + 1]
    BY <2>1, <2>3
  <2>4. CASE turn.at = "barge" /\ row' = [row EXCEPT !.barges = row.barges + 1]
    BY <2>1, <2>4
  <2> QED
    BY <1>17, <2>2, <2>3, <2>4 DEF Unwind, Landed
<1>18. CASE EndRow
  BY <1>18 DEF EndRow
<1>19. CASE Crash
  BY <1>19 DEF Crash, Landed
<1>20. CASE ForceCancel
  BY <1>20, ClosingInv DEF ForceCancel
<1> QED
  BY <1>1, <1>2, <1>3, <1>4, <1>5, <1>6, <1>7, <1>8, <1>9, <1>10, <1>11, <1>12,
     <1>13, <1>14, <1>15, <1>16, <1>17, <1>18, <1>19, <1>20 DEF WorkerNext

\* A step of the page changes nothing that the invariant of the agent speaks of.
LEMMA WorkerStutter ==
  ASSUME WInv, UNCHANGED workerVars
  PROVE  WInv'
  BY DEF WInv, WorkerTypeOK, Counted, AskedInv, CutInv, RowInv, Beside, FlagInv,
         BargeExact, Speaking, workerVars

\* The property of the row counts what the invariant enumerates.
LEMMA RowCounts == WInv => RowTrue
<1> SUFFICES ASSUME WInv
             PROVE  RowTrue
  OBVIOUS
<1> USE DEF WInv
<1>1. turns \in Nat /\ row.turns \in Nat /\ row.barges \in Nat
  BY DEF WorkerTypeOK
<1>2. Cardinality(cut) = barges
  BY DEF CutInv
<1>3. Cardinality(1..turns) = turns
  BY <1>1, FS_Interval
<1>4. turns > 0 => Cardinality(1..(turns - 1)) = turns - 1
  BY <1>1, FS_Interval
<1>5. row.state # "none" => row.turns >= Cardinality(asked)
  <2>1. CASE asked = 1..turns
    BY <2>1, <1>1, <1>3 DEF RowInv, Beside, WorkerTypeOK
  <2>2. CASE turns > 0 /\ asked = 1..(turns - 1)
    BY <2>2, <1>1, <1>4 DEF RowInv, Beside, WorkerTypeOK
  <2> QED
    BY <2>1, <2>2 DEF AskedInv
<1>6. row.state = "ended" /\ job = "orphaned" =>
        /\ row.turns \in turns - 1 .. turns + 1
        /\ row.barges \in Cardinality(cut) - 1 .. Cardinality(cut) + 1
  BY <1>1, <1>2 DEF RowInv, Beside, WorkerTypeOK
<1>7. row.state = "ended" /\ job = "over" =>
        /\ row.turns >= turns /\ row.barges >= Cardinality(cut)
        /\ row.turns + row.barges <= turns + Cardinality(cut) + 1
  BY <1>1, <1>2 DEF RowInv
<1>8. row.state = "live" =>
        /\ row.turns \in {turns - 1, turns}
        /\ row.barges \in {Cardinality(cut) - 1, Cardinality(cut)}
  BY <1>1, <1>2 DEF RowInv
<1> QED
  BY <1>5, <1>6, <1>7, <1>8 DEF RowTrue

----------------------------------------------------------------------------
(* The page.  The invariant says what the queue of operations holds: at     *)
(* most one operation of a visit, in the order of the visits, so that the   *)
(* last word on the microphone is that of the visit that is mounted.        *)

\* The operations on the microphone.
OpSet == [kind : Kinds, visit : 1..MaxVisits, device : Devices, gen : Nat,
          at : {"room", "join", "track", "publish", "unmute", "mute"}]

\* No two operations are of one visit, and they run in the order of the visits;
\* the busy flag says that one of the mounted visit is still to come.
OpsInv ==
  /\ \A m, n \in DOMAIN ops : m < n => ops[m].visit < ops[n].visit
  /\ \A n \in DOMAIN ops : ops[n].visit <= ui.visit
  /\ ui.busy <=> \E n \in DOMAIN ops : ops[n].visit = ui.visit
  /\ \A n \in DOMAIN ops :
       ops[n].visit = ui.visit =>
         \/ ui.route = "talk" /\ ops[n].kind \in {"start", "stop"}
         \/ ui.route = "voice" /\ ops[n].kind \in {"enter", "exit"}
  /\ \A n \in DOMAIN ops : ops[n].kind \in Starts <=> ops[n].at # "mute"

\* Other routes show neither button nor session.
RouteInv ==
  /\ ui.route = "other" => ~ui.on /\ ~ui.busy
  /\ ui.route # "other" => ui.visit > 0

\* A state of the rooms that is one.
LinkSet == [device : Devices, at : {"trying", "in", "gone"}]
RoomOK(r) ==
  /\ r \in [links : Seq(LinkSet), now : Nat, trying : Nat, device : Devices,
            drops : 0..MaxDrops, resizes : 0..MaxResizes]
  /\ r.now <= Len(r.links) /\ r.trying <= Len(r.links)

\* A visit that went away while it was turning the microphone on is remembered
\* until it has done so and something has muted it.
LeftInv ==
  \A n \in DOMAIN ops :
    ops[n].kind \in Starts /\ ops[n].visit # ui.visit => ops[n].visit \in left

\* The microphone's track records.
Live == mic.track /\ ~mic.muted

\* A live microphone is shown, excused, or still being worked on; and a button or
\* session that says it listens is the last that had its say.
LiveInv ==
  /\ Live => ui.on \/ left # {} \/ spoilt # {} \/ ops # <<>>
  /\ ui.on /\ ui.visit \notin spoilt =>
       Live /\ \A n \in DOMAIN ops : ops[n].visit = ui.visit

\* What needs the microphone's track finds it.
TrackInv ==
  \A n \in DOMAIN ops : ops[n].at \in {"publish", "unmute"} => mic.track

PInv == PageTypeOK /\ OpsInv /\ RouteInv /\ LeftInv /\ TrackInv
        /\ LiveInv

\* RoomTypeOK speaks of the room the page has.
LEMMA RoomsOK == RoomTypeOK <=> RoomOK(room)
  BY DEF RoomTypeOK, RoomOK, LinkSet

\* Asking for a room leaves the one there is or adds one.
LEMMA EnsuredOK ==
  ASSUME NEW r, RoomOK(r), NEW device \in Devices
  PROVE  RoomOK(Ensured(r, device))
<1> DEFINE link == [device |-> device, at |-> "trying"]
<1>1. CASE Ensured(r, device) = r
  BY <1>1
<1>2. CASE Ensured(r, device) = [r EXCEPT !.links = Append(r.links, link),
                                          !.trying = Len(r.links) + 1]
  <2>1. r.links \in Seq(LinkSet) /\ link \in LinkSet
    BY DEF RoomOK, LinkSet
  <2> HIDE DEF link
  <2>2. /\ Append(r.links, link) \in Seq(LinkSet)
        /\ Len(Append(r.links, link)) = Len(r.links) + 1
        /\ Len(r.links) \in Nat
    BY <2>1, AppendProperties, LenProperties
  <2>3. Ensured(r, device)
          = [links |-> Append(r.links, link), now |-> r.now,
             trying |-> Len(r.links) + 1, device |-> r.device,
             drops |-> r.drops, resizes |-> r.resizes]
    BY <1>2 DEF RoomOK
  <2> QED
    BY <2>2, <2>3 DEF RoomOK
<1> QED
  BY <1>1, <1>2 DEF Ensured

\* A room's link changes its state, and _state follows.
LEMMA LinkOK ==
  ASSUME RoomTypeOK, NEW g \in DOMAIN room.links, NEW at \in {"in", "gone"},
         NEW now \in {0, g, room.now}, NEW drops \in 0..MaxDrops,
         room'.links = [room.links EXCEPT ![g].at = at],
         room' = [links |-> room'.links, now |-> now, trying |-> 0,
                  device |-> room.device, drops |-> drops, resizes |-> room.resizes]
  PROVE  RoomTypeOK'
<1>1. /\ room.links \in Seq(LinkSet) /\ Len(room.links) \in Nat
      /\ DOMAIN room.links = 1..Len(room.links)
  BY LenProperties, RoomsOK DEF RoomOK
<1>2. room'.links \in Seq(LinkSet) /\ Len(room'.links) = Len(room.links)
  <2>1. room.links[g] \in LinkSet
    BY <1>1
  <2>2. [room.links[g] EXCEPT !.at = at] \in LinkSet
    BY <2>1 DEF LinkSet
  <2> QED
    BY <1>1, <2>2, ExceptSeq
<1>3. now \in Nat /\ now <= Len(room.links)
  BY <1>1 DEF RoomTypeOK
<1>4. RoomOK(room')
  BY <1>2, <1>3, RoomsOK DEF RoomOK
<1> QED
  BY <1>4 DEF RoomOK, RoomTypeOK, LinkSet

\* The page starts with no room, no microphone and nothing to do.
LEMMA PageInitInv == PageInit => PInv
<1> SUFFICES ASSUME PageInit
             PROVE  PInv
  OBVIOUS
<1> USE PageAssumption DEF PageInit
<1>3. RoomTypeOK
  <2>1. <<>> \in Seq(LinkSet) /\ Len(<<>>) = 0
    OBVIOUS
  <2>2. RoomOK(room)
    BY <2>1 DEF RoomOK
  <2> QED
    BY <2>2, RoomsOK
<1>1. PageTypeOK
  BY <1>3 DEF PageTypeOK, Routes
<1>2. DOMAIN ops = {}
  OBVIOUS
<1> QED
  BY <1>1, <1>2 DEF PInv, OpsInv, RouteInv, LeftInv, TrackInv, LiveInv, Live

\* The queue without its first operation.
LEMMA Rest ==
  ASSUME ops \in Seq(OpSet), ops # <<>>
  PROVE  /\ Without(1) \in Seq(OpSet)
         /\ Len(Without(1)) = Len(ops) - 1
         /\ \A n \in DOMAIN Without(1) :
              n + 1 \in DOMAIN ops /\ Without(1)[n] = ops[n + 1]
<1>1. Len(ops) \in Nat \ {0} /\ DOMAIN ops = 1..Len(ops)
  BY EmptySeq, LenProperties
<1>2. Without(1) = SubSeq(ops, 2, Len(ops))
  <2>1. SubSeq(ops, 1, 1 - 1) = <<>>
    BY SubSeqEmpty
  <2>2. SubSeq(ops, 2, Len(ops)) \in Seq(OpSet)
    BY <1>1
  <2> QED
    BY <2>1, <2>2, ConcatEmptySeq DEF Without
<1>3. \A n \in 2..Len(ops) : ops[n] \in OpSet
  BY <1>1
<1>4. /\ SubSeq(ops, 2, Len(ops)) \in Seq(OpSet)
      /\ Len(SubSeq(ops, 2, Len(ops))) = Len(ops) - 1
      /\ \A n \in 1..Len(ops) - 1 : SubSeq(ops, 2, Len(ops))[n] = ops[n + 1]
  BY <1>1, <1>3, SubSeqProperties
<1>5. DOMAIN Without(1) = 1..Len(ops) - 1
  BY <1>1, <1>2, <1>4, LenProperties
<1>6. ASSUME NEW n \in DOMAIN Without(1)
      PROVE  n + 1 \in DOMAIN ops /\ Without(1)[n] = ops[n + 1]
  <2>1. n \in 1..Len(ops) - 1
    BY <1>5
  <2>2. n + 1 \in 1..Len(ops)
    BY <1>1, <2>1
  <2> QED
    BY <1>1, <1>2, <1>4, <2>1, <2>2
<1> QED
  BY <1>2, <1>4, <1>6

\* A queue that is not empty has a first operation.
LEMMA FirstOp ==
  ASSUME PageTypeOK, ops # <<>>
  PROVE  ops \in Seq(OpSet) /\ 1 \in DOMAIN ops /\ ops[1] \in OpSet
<1>1. ops \in Seq(OpSet)
  BY DEF PageTypeOK, OpSet
<1>2. Len(ops) \in Nat \ {0} /\ DOMAIN ops = 1..Len(ops)
  BY <1>1, EmptySeq, LenProperties
<1> QED
  BY <1>1, <1>2

\* A step on the first operation that leaves it in the queue.
LEMMA OpsKept ==
  ASSUME PInv, ops' \in Seq(OpSet), DOMAIN ops' = DOMAIN ops,
         \A n \in DOMAIN ops : /\ ops'[n].kind = ops[n].kind
                               /\ ops'[n].visit = ops[n].visit
                               /\ ops'[n].at = "mute" <=> ops[n].at = "mute",
         UNCHANGED <<ui, left>>
  PROVE  OpsInv' /\ RouteInv' /\ LeftInv'
  BY DEF PInv, OpsInv, RouteInv, LeftInv

\* The first operation is over: whatever it made of the button or session.
LEMMA Settled ==
  ASSUME PInv, ops # <<>>, NEW ok \in BOOLEAN, Settle(1, ok)
  PROVE  /\ ops' \in Seq(OpSet)
         /\ \A n \in DOMAIN ops' : n + 1 \in DOMAIN ops /\ ops'[n] = ops[n + 1]
         /\ ui' \in [route : Routes, visit : 0..MaxVisits, on : BOOLEAN,
                     busy : BOOLEAN]
         /\ ui'.visit = ui.visit
         /\ spoilt' \subseteq 1..MaxVisits
         /\ ~ok => ops[1].visit \in spoilt'
         /\ OpsInv' /\ RouteInv'
         /\ ops[1].visit = ui.visit => ops' = <<>> /\ ui'.on = Shown(ops[1], ok)
         /\ ops[1].visit # ui.visit => ui' = ui
         /\ ok => spoilt' = spoilt \ {ops[1].visit}
<1> USE DEF PInv
<1>0. ops \in Seq(OpSet) /\ 1 \in DOMAIN ops /\ ops[1] \in OpSet
  BY FirstOp
<1>1. /\ ops' = Without(1) /\ ops' \in Seq(OpSet) /\ Len(ops') = Len(ops) - 1
      /\ \A n \in DOMAIN ops' : n + 1 \in DOMAIN ops /\ ops'[n] = ops[n + 1]
  BY <1>0, Rest DEF Settle
<1>2. Shown(ops[1], ok) \in BOOLEAN
  BY <1>0 DEF Shown, PageTypeOK
<1>3. /\ ops[1].visit = ui.visit =>
           ui' = [ui EXCEPT !.busy = FALSE, !.on = Shown(ops[1], ok)]
      /\ ops[1].visit # ui.visit => ui' = ui
  BY DEF Settle
<1>4. ui' \in [route : Routes, visit : 0..MaxVisits, on : BOOLEAN, busy : BOOLEAN]
      /\ ui'.visit = ui.visit /\ ui'.route = ui.route
  BY <1>2, <1>3 DEF PageTypeOK
<1>5. /\ spoilt' \subseteq 1..MaxVisits
      /\ ~ok => ops[1].visit \in spoilt'
      /\ ok => spoilt' = spoilt \ {ops[1].visit}
  BY <1>0 DEF Settle, PageTypeOK, OpSet
<1>6. ASSUME ops[1].visit = ui.visit
      PROVE  ops' = <<>>
  <2>1. ASSUME NEW n \in DOMAIN ops
        PROVE  n = 1
    <3>1. n \in Nat \ {0} /\ ops[n] \in OpSet /\ ui.visit \in Nat
      BY <1>0 DEF PageTypeOK
    <3>2. 1 < n => ops[1].visit < ops[n].visit
      BY <1>0 DEF OpsInv
    <3>3. ops[n].visit <= ui.visit
      BY DEF OpsInv
    <3> QED
      BY <3>1, <3>2, <3>3, <1>0, <1>6 DEF OpSet
  <2>2. Len(ops') = 0
    BY <2>1, <1>1, <1>0
  <2> QED
    BY <2>2, <1>1
<1>7. ui'.busy <=> \E n \in DOMAIN ops' : ops'[n].visit = ui'.visit
  <2>1. CASE ops[1].visit = ui.visit
    <3>1. ui'.busy = FALSE
      BY <2>1, <1>3 DEF PageTypeOK
    <3>2. DOMAIN ops' = {}
      BY <2>1, <1>6
    <3> QED
      BY <3>1, <3>2
  <2>2. CASE ops[1].visit # ui.visit
    <3>1. ASSUME NEW n \in DOMAIN ops, ops[n].visit = ui.visit
          PROVE  n - 1 \in DOMAIN ops' /\ ops'[n - 1].visit = ui.visit
      BY <3>1, <2>2, <1>0, <1>1
    <3> QED
      BY <3>1, <2>2, <1>3, <1>1, <1>0 DEF OpsInv
  <2> QED
    BY <2>1, <2>2
<1>8. OpsInv'
  BY <1>0, <1>1, <1>4, <1>7 DEF OpsInv
<1>9. RouteInv'
  <2>1. ui.route # "other" \/ ops[1].visit # ui.visit
    BY <1>0 DEF OpsInv
  <2> QED
    BY <2>1, <1>3, <1>4 DEF RouteInv, PageTypeOK
<1> QED
  BY <1>1, <1>2, <1>3, <1>4, <1>5, <1>6, <1>8, <1>9 DEF PageTypeOK

\* An operation that fails leaves its visit marked.
LEMMA FailsInv ==
  ASSUME PInv, ops # <<>>, Fails(1), RoomTypeOK'
  PROVE  PInv'
<1> USE DEF PInv
<1>1. Settle(1, FALSE) /\ UNCHANGED <<mic, left>>
  BY DEF Fails
<1>2. PageTypeOK'
  BY <1>1, Settled DEF PageTypeOK, RoomTypeOK, OpSet
<1>3. LeftInv'
  BY <1>1, Settled DEF LeftInv
<1>4. LiveInv'
  <2>1. spoilt' # {}
    BY <1>1, Settled
  <2>2. CASE ops[1].visit = ui.visit
    BY <1>1, <2>1, <2>2, Settled DEF LiveInv, Live
  <2>3. CASE ops[1].visit # ui.visit
    <3>1. ui' = ui /\ 1 \in DOMAIN ops
      BY <1>1, <2>3, Settled, FirstOp
    <3>2. ui.visit \notin spoilt' => ui.visit \notin spoilt
      BY <1>1 DEF Settle
    <3> QED
      BY <1>1, <2>1, <2>3, <3>1, <3>2 DEF LiveInv, Live
  <2> QED
    BY <2>2, <2>3
<1>5. TrackInv'
  BY <1>1, Settled DEF TrackInv
<1> QED
  BY <1>1, <1>2, <1>3, <1>4, <1>5, Settled

\* An operation that goes on keeps its visit and what it is for.
LEMMA GoesOn ==
  ASSUME PInv, ops # <<>>, ops[1].at # "mute",
         NEW at \in {"room", "join", "track", "publish", "unmute"},
         NEW gen \in Nat,
         ops' = [ops EXCEPT ![1] = [ops[1] EXCEPT !.at = at, !.gen = gen]],
         UNCHANGED <<ui, left, spoilt>>,
         Live => Live', mic.track => mic'.track,
         at \in {"publish", "unmute"} => mic'.track,
         mic' \in [track : BOOLEAN, published : BOOLEAN, muted : BOOLEAN, gen : Nat],
         RoomTypeOK'
  PROVE  PInv'
<1> USE DEF PInv
<1>1. ops \in Seq(OpSet) /\ 1 \in DOMAIN ops /\ ops[1] \in OpSet
  BY FirstOp
<1>2. [ops[1] EXCEPT !.at = at, !.gen = gen] \in OpSet
  BY <1>1 DEF OpSet
<1>3. ops' \in Seq(OpSet) /\ DOMAIN ops' = DOMAIN ops
  BY <1>1, <1>2, ExceptSeq, LenProperties
<1>4. \A n \in DOMAIN ops : /\ ops'[n].kind = ops[n].kind
                            /\ ops'[n].visit = ops[n].visit
                            /\ ops'[n].at = "mute" <=> ops[n].at = "mute"
  BY <1>1, <1>3 DEF OpSet
<1>5. OpsInv' /\ RouteInv' /\ LeftInv'
  BY <1>3, <1>4, OpsKept
<1>6. PageTypeOK'
  BY <1>3 DEF PageTypeOK, RoomTypeOK, OpSet
<1>7. LiveInv'
  BY <1>1, <1>3, <1>4 DEF LiveInv
<1>8. TrackInv'
  BY <1>1, <1>2, <1>3 DEF TrackInv, OpSet
<1> QED
  BY <1>5, <1>6, <1>7, <1>8

\* The running operation takes the room, or has it joined and waits.
LEMMA TakeRoomInv ==
  ASSUME PInv, ops # <<>>, TakeRoom(1)
  PROVE  PInv'
<1> USE DEF PInv, TakeRoom
<1>1. ops[1] \in OpSet /\ ops \in Seq(OpSet) /\ 1 \in DOMAIN ops
  BY FirstOp
<1>2. RoomTypeOK'
  <2>1. ops[1].device \in Devices /\ RoomOK(room)
    BY <1>1, RoomsOK DEF OpSet, PageTypeOK
  <2>2. RoomOK(room')
    BY <2>1, EnsuredOK
  <2> QED
    BY <2>2 DEF RoomOK, RoomTypeOK, LinkSet
<1>3. PICK at \in {"join", "track"}, gen \in Nat :
        ops' = [ops EXCEPT ![1] = [ops[1] EXCEPT !.at = at, !.gen = gen]]
  <2>1. room.now \in Nat /\ room'.trying \in Nat
    BY <1>2 DEF PageTypeOK, RoomTypeOK
  <2> QED
    BY <1>1, <2>1 DEF OpSet
<1> QED
  BY <1>2, <1>3, GoesOn DEF PageTypeOK, Live

\* GoOn in the form that GoesOn asks for.
LEMMA GoOnOps ==
  ASSUME PageTypeOK, ops # <<>>, NEW at, GoOn(1, at)
  PROVE  /\ ops' = [ops EXCEPT ![1] = [ops[1] EXCEPT !.at = at,
                                                     !.gen = ops[1].gen]]
         /\ ops[1].gen \in Nat
<1>1. ops[1] \in OpSet /\ ops \in Seq(OpSet) /\ 1 \in DOMAIN ops
  BY FirstOp
<1>2. [ops[1] EXCEPT !.at = at] = [ops[1] EXCEPT !.at = at, !.gen = ops[1].gen]
  BY <1>1 DEF OpSet
<1> QED
  BY <1>1, <1>2 DEF GoOn, OpSet

\* The running operation has the track created, which is live from then on, while
\* the operation is still in the queue.
LEMMA TakeTrackInv ==
  ASSUME PInv, ops # <<>>, TakeTrack(1)
  PROVE  PInv'
<1> USE DEF PInv, TakeTrack
<1>1. CASE /\ GoOn(1, "publish")
           /\ mic' = [mic EXCEPT !.track = TRUE]
           /\ UNCHANGED <<ui, left, spoilt>>
  <2>1. (Live => Live') /\ mic'.track
    BY <1>1 DEF PageTypeOK, Live
  <2>2. mic' \in [track : BOOLEAN, published : BOOLEAN, muted : BOOLEAN, gen : Nat]
    BY <1>1 DEF PageTypeOK
  <2> QED
    BY <1>1, <2>1, <2>2, GoOnOps, GoesOn DEF PageTypeOK, RoomTypeOK
<1>2. CASE ~mic.track /\ Fails(1)
  BY <1>2, FailsInv DEF PageTypeOK, RoomTypeOK
<1> QED
  BY <1>1, <1>2

\* The track is published, or taken for published.
LEMMA PublishInv ==
  ASSUME PInv, ops # <<>>, Publish(1)
  PROVE  PInv'
<1> USE DEF PInv, Publish
<1>1. CASE GoOn(1, "unmute") /\ UNCHANGED <<ui, mic, left, spoilt>>
  <2>1. mic.track
    BY FirstOp DEF TrackInv
  <2> QED
    BY <1>1, <2>1, GoOnOps, GoesOn DEF PageTypeOK, RoomTypeOK, Live
<1>2. CASE /\ GoOn(1, "unmute")
           /\ mic' = [mic EXCEPT !.published = TRUE, !.gen = ops[1].gen]
           /\ UNCHANGED <<ui, left, spoilt>>
  <2>1. (Live => Live') /\ mic'.track
    BY <1>2, FirstOp DEF PageTypeOK, Live, TrackInv
  <2>2. mic' \in [track : BOOLEAN, published : BOOLEAN, muted : BOOLEAN, gen : Nat]
    BY <1>2, GoOnOps DEF PageTypeOK
  <2> QED
    BY <1>2, <2>1, <2>2, GoOnOps, GoesOn DEF PageTypeOK, RoomTypeOK
<1>3. CASE Fails(1)
  BY <1>3, FailsInv DEF PageTypeOK, RoomTypeOK
<1> QED
  BY <1>1, <1>2, <1>3

\* The operation that turned the microphone on is done, and the microphone was
\* created before: the visit shows it, or is remembered as gone.
LEMMA UnmuteInv ==
  ASSUME PInv, ops # <<>>, Unmute(1)
  PROVE  PInv'
<1> USE DEF PInv, Unmute
<1>1. ops[1] \in OpSet /\ ops \in Seq(OpSet) /\ 1 \in DOMAIN ops
  BY FirstOp
<1>2. CASE /\ mic' = [mic EXCEPT !.muted = FALSE]
           /\ Settle(1, TRUE)
           /\ UNCHANGED left
  <2>1. ops[1].kind \in Starts
    BY <1>1 DEF OpsInv
  <2>2. mic' \in [track : BOOLEAN, published : BOOLEAN, muted : BOOLEAN, gen : Nat] /\ Live'
    BY <1>1, <1>2 DEF PageTypeOK, Live, TrackInv
  <2>3. PageTypeOK'
    BY <1>2, <2>2, Settled DEF PageTypeOK, RoomTypeOK, OpSet
  <2>4. LeftInv'
    BY <1>2, Settled DEF LeftInv
  <2>5. LiveInv'
    <3>1. CASE ops[1].visit = ui.visit
      <4>1. ops' = <<>> /\ ui'.on
        BY <1>2, <2>1, <3>1, Settled DEF Shown, Starts
      <4>2. DOMAIN ops' = {}
        BY <4>1
      <4> QED
        BY <2>2, <4>1, <4>2 DEF LiveInv
    <3>2. CASE ops[1].visit # ui.visit
      <4>1. left' # {}
        BY <1>1, <1>2, <2>1, <3>2 DEF LeftInv
      <4>2. ui' = ui /\ spoilt' = spoilt \ {ops[1].visit}
        BY <1>2, <3>2, Settled
      <4> QED
        BY <1>1, <2>2, <3>2, <4>1, <4>2 DEF LiveInv
    <3> QED
      BY <3>1, <3>2
  <2>6. TrackInv'
    BY <1>2, Settled DEF PageTypeOK, TrackInv
  <2> QED
    BY <1>2, <2>3, <2>4, <2>5, <2>6, Settled DEF RoomTypeOK
<1>3. CASE Fails(1)
  BY <1>3, FailsInv DEF PageTypeOK, RoomTypeOK
<1> QED
  BY <1>2, <1>3

\* The microphone is muted, and with it what earlier visits left on; a visit that
\* still has to turn it on stays marked.
LEMMA MuteInv ==
  ASSUME PInv, ops # <<>>, Mute(1)
  PROVE  PInv'
<1> USE DEF PInv, Mute
<1>1. ops[1] \in OpSet /\ ops \in Seq(OpSet) /\ 1 \in DOMAIN ops
  BY FirstOp
<1>2. CASE /\ mic' = [mic EXCEPT !.muted = mic.track]
           /\ Settle(1, TRUE)
           /\ left' = {v \in left : Pending(v, Starts)}
  <2>1. ops[1].kind \notin Starts
    BY <1>1 DEF OpsInv
  <2>2. mic' \in [track : BOOLEAN, published : BOOLEAN, muted : BOOLEAN, gen : Nat] /\ ~Live'
    BY <1>2 DEF PageTypeOK, Live
  <2>3. PageTypeOK'
    BY <1>2, <2>2, Settled DEF PageTypeOK, RoomTypeOK, OpSet
  <2>4. LeftInv'
    BY <1>2, Settled DEF LeftInv, Pending
  <2>5. LiveInv'
    <3>1. CASE ops[1].visit = ui.visit
      <4>1. ~ui'.on
        BY <1>2, <2>1, <3>1, Settled DEF Shown, Starts
      <4> QED
        BY <2>2, <4>1 DEF LiveInv
    <3>2. CASE ops[1].visit # ui.visit
      <4>1. ui' = ui /\ spoilt' = spoilt \ {ops[1].visit}
        BY <1>2, <3>2, Settled
      <4> QED
        BY <1>1, <2>2, <3>2, <4>1 DEF LiveInv
    <3> QED
      BY <3>1, <3>2
  <2>6. TrackInv'
    BY <1>2, Settled DEF PageTypeOK, TrackInv
  <2> QED
    BY <1>2, <2>3, <2>4, <2>5, <2>6, Settled DEF RoomTypeOK
<1>3. CASE Fails(1)
  BY <1>3, FailsInv DEF PageTypeOK, RoomTypeOK
<1> QED
  BY <1>2, <1>3

\* A room is joined: the operation that waited for it goes on.
LEMMA ConnectedInv ==
  ASSUME PInv, NEW g \in Links("trying"), Connected(g)
  PROVE  PInv'
<1> USE DEF PInv
<1>1. RoomTypeOK'
  <2>1. RoomTypeOK /\ g \in DOMAIN room.links /\ room.drops \in 0..MaxDrops
    BY DEF PageTypeOK, RoomTypeOK, Links
  <2>2. room'.links = [room.links EXCEPT ![g].at = "in"]
    BY <2>1 DEF Connected, RoomTypeOK
  <2>3. room' = [links |-> room'.links, now |-> g, trying |-> 0,
                 device |-> room.device, drops |-> room.drops,
                 resizes |-> room.resizes]
    BY <2>1, <2>2 DEF Connected, RoomTypeOK
  <2> QED
    BY <2>1, <2>2, <2>3, LinkOK
<1>5. ops \in Seq(OpSet) /\ ops \in [DOMAIN ops -> OpSet]
  BY LenProperties DEF PageTypeOK, OpSet
<1>6. CASE Joining(g) = {}
  <2>1. ops' = ops
    BY <1>5, <1>6 DEF Connected
  <2> QED
    BY <1>1, <2>1
       DEF PageTypeOK, OpsInv, RouteInv, LeftInv, TrackInv, LiveInv, Live, Connected
<1>7. CASE Joining(g) # {}
  <2>1. ops # <<>> /\ ops[1].at = "join" /\ Joining(g) = {1}
    BY <1>7 DEF Joining, Running
  <2>2. ops[1] \in OpSet /\ 1 \in DOMAIN ops /\ ops[1].gen \in Nat
    BY <2>1, FirstOp DEF OpSet
  <2>3. ops' = [ops EXCEPT ![1] = [ops[1] EXCEPT !.at = "track",
                                                 !.gen = ops[1].gen]]
    BY <1>5, <2>1, <2>2 DEF Connected, OpSet
  <2> QED
    BY <1>1, <2>1, <2>2, <2>3, GoesOn DEF Connected, PageTypeOK, Live
<1> QED
  BY <1>6, <1>7

\* A room cannot be joined: the operation that waited for it fails.
LEMMA RefusedInv ==
  ASSUME PInv, NEW g \in Links("trying"), Refused(g)
  PROVE  PInv'
<1> USE DEF PInv
<1>1. RoomTypeOK'
  <2>1. RoomTypeOK /\ g \in DOMAIN room.links /\ room.drops \in 0..MaxDrops
    BY DEF PageTypeOK, RoomTypeOK, Links
  <2>2. room'.links = [room.links EXCEPT ![g].at = "gone"]
    BY <2>1 DEF Refused, RoomTypeOK
  <2>3. room' = [links |-> room'.links, now |-> room.now, trying |-> 0,
                 device |-> room.device, drops |-> room.drops,
                 resizes |-> room.resizes]
    BY <2>1, <2>2 DEF Refused, RoomTypeOK
  <2> QED
    BY <2>1, <2>2, <2>3, LinkOK
<1>2. CASE UNCHANGED <<ui, ops, mic, left, spoilt>>
  BY <1>1, <1>2
     DEF PageTypeOK, OpsInv, RouteInv, LeftInv, TrackInv, LiveInv, Live
<1>3. CASE \E n \in Joining(g) : Fails(n)
  <2>1. ops # <<>> /\ Fails(1)
    BY <1>3 DEF Joining, Running
  <2> QED
    BY <1>1, <2>1, FailsInv
<1> QED
  BY <1>2, <1>3 DEF Refused

\* LiveKit drops a connection; the page forgets its room and nothing else.
LEMMA DropInv ==
  ASSUME PInv, NEW g \in Links("in"), Drop(g)
  PROVE  PInv'
<1>1. RoomTypeOK'
  <2>1. RoomTypeOK /\ g \in DOMAIN room.links /\ room.drops + 1 \in 0..MaxDrops
    BY PageAssumption DEF PInv, PageTypeOK, RoomTypeOK, Links, Drop
  <2>2. room'.links = [room.links EXCEPT ![g].at = "gone"]
    BY <2>1 DEF Drop, RoomTypeOK
  <2>3. room' = [links |-> room'.links, now |-> 0, trying |-> 0,
                 device |-> room.device, drops |-> room.drops + 1,
                 resizes |-> room.resizes]
    BY <2>1, <2>2 DEF Drop, RoomTypeOK
  <2> QED
    BY <2>1, <2>2, <2>3, LinkOK
<1> QED
  BY <1>1
     DEF PInv, PageTypeOK, OpsInv, RouteInv, LeftInv, TrackInv, LiveInv, Live, Drop

\* The window's width changes; the room of the new device may be asked for.
LEMMA ResizeInv ==
  ASSUME PInv, NEW device \in Devices, Resize(device)
  PROVE  PInv'
<1> DEFINE wide == [room EXCEPT !.device = device, !.resizes = room.resizes + 1]
<1>1. RoomOK(wide)
  <2>1. RoomOK(room)
    BY RoomsOK DEF PInv, PageTypeOK
  <2>2. room.resizes + 1 \in 0..MaxResizes
    BY <2>1, PageAssumption DEF RoomOK, Resize
  <2> QED
    BY <2>1, <2>2 DEF RoomOK
<1>2. RoomTypeOK'
  <2>1. room' = wide \/ room' = Ensured(wide, device)
    BY DEF Resize
  <2> HIDE DEF wide
  <2>2. RoomOK(room')
    BY <1>1, <2>1, EnsuredOK
  <2> QED
    BY <2>2 DEF RoomOK, RoomTypeOK, LinkSet
<1> QED
  BY <1>2
     DEF PInv, PageTypeOK, OpsInv, RouteInv, LeftInv, TrackInv, LiveInv, Live, Resize

\* The mounted visit asks for one more operation.
LEMMA AppendInv ==
  ASSUME PInv, ui.route # "other", ~ui.busy, NEW kind \in Kinds,
         \/ ui.route = "talk" /\ kind \in {"start", "stop"}
         \/ ui.route = "voice" /\ kind = "exit",
         ui' = [ui EXCEPT !.busy = TRUE],
         ops' = Append(ops, Op(kind, ui.visit)),
         UNCHANGED <<room, mic, left, spoilt>>
  PROVE  PInv'
<1> USE DEF PInv
<1>1. ops \in Seq(OpSet) /\ DOMAIN ops = 1..Len(ops) /\ Len(ops) \in Nat
  BY LenProperties DEF PageTypeOK, OpSet
<1>2. Op(kind, ui.visit) \in OpSet
  BY PageAssumption DEF Op, OpSet, PageTypeOK, RoomTypeOK, RouteInv
<1>3. /\ ops' \in Seq(OpSet) /\ DOMAIN ops' = 1..Len(ops) + 1
      /\ \A n \in DOMAIN ops : ops'[n] = ops[n]
      /\ ops'[Len(ops) + 1] = Op(kind, ui.visit)
  BY <1>1, <1>2, AppendProperties, LenProperties
<1>4. PageTypeOK'
  BY <1>3 DEF PageTypeOK, RoomTypeOK, OpSet
<1>5. /\ \A n \in DOMAIN ops : ops[n].visit < ui.visit
      /\ ui' = [route |-> ui.route, visit |-> ui.visit, on |-> ui.on, busy |-> TRUE]
  <2>1. ASSUME NEW n \in DOMAIN ops
        PROVE  ops[n].visit < ui.visit
    <3>1. ops[n] \in OpSet /\ ui.visit \in Nat
      BY <1>1 DEF PageTypeOK
    <3>2. ops[n].visit <= ui.visit /\ ops[n].visit # ui.visit
      BY DEF OpsInv
    <3> QED
      BY <3>1, <3>2 DEF OpSet
  <2> QED
    BY <2>1 DEF PageTypeOK
<1>6. OpsInv'
  <2>1. \A m, n \in DOMAIN ops' : m < n => ops'[m].visit < ops'[n].visit
    BY <1>1, <1>3, <1>5 DEF OpsInv, Op
  <2>2. \A n \in DOMAIN ops' : ops'[n].visit <= ui.visit
    BY <1>1, <1>3, <1>5 DEF OpsInv, Op, PageTypeOK
  <2>3. \A n \in DOMAIN ops' : ops'[n].kind \in Starts <=> ops'[n].at # "mute"
    BY <1>1, <1>3 DEF OpsInv, Op
  <2>4. \E n \in DOMAIN ops' : ops'[n].visit = ui.visit
    BY <1>1, <1>3 DEF Op
  <2>5. \A n \in DOMAIN ops' :
          ops'[n].visit = ui.visit =>
            \/ ui.route = "talk" /\ ops'[n].kind \in {"start", "stop"}
            \/ ui.route = "voice" /\ ops'[n].kind \in {"enter", "exit"}
    BY <1>1, <1>3 DEF OpsInv, Op
  <2> QED
    BY <1>5, <2>1, <2>2, <2>3, <2>4, <2>5 DEF OpsInv
<1>7. RouteInv' /\ LeftInv' /\ TrackInv'
  BY <1>1, <1>3, <1>5 DEF RouteInv, LeftInv, TrackInv, Op
<1>8. LiveInv'
  BY <1>1, <1>3, <1>5 DEF LiveInv, Live, Op
<1> QED
  BY <1>4, <1>6, <1>7, <1>8

\* The button asks for one operation, the one its state calls for.
LEMMA TapInv ==
  ASSUME PInv, Tap
  PROVE  PInv'
<1>1. /\ ui.route = "talk" /\ ~ui.busy
      /\ ui' = [ui EXCEPT !.busy = TRUE]
      /\ UNCHANGED <<room, mic, left, spoilt>>
  BY DEF Tap
<1>2. PICK kind \in {"start", "stop"} : ops' = Append(ops, Op(kind, ui.visit))
  BY DEF Tap
<1> QED
  BY <1>1, <1>2, AppendInv DEF Kinds, Starts

\* A session ends by one operation.
LEMMA EndInv ==
  ASSUME PInv, End
  PROVE  PInv'
  BY AppendInv DEF End, Kinds, Starts

\* The next route is mounted.
LEMMA NavigateInv ==
  ASSUME PInv, NEW to \in Routes, Navigate(to)
  PROVE  PInv'
<1> DEFINE next == ui.visit + 1
<1> USE PageAssumption DEF PInv
<1>1. PICK k \in Nat : ops \in Seq(OpSet) /\ Len(ops) = k /\ DOMAIN ops = 1..k
  BY LenProperties DEF PageTypeOK, OpSet
<1>2. /\ ui.visit \in Nat /\ next \in 1..MaxVisits /\ ui.visit \in 0..MaxVisits
      /\ ui' = [route |-> to, visit |-> next, on |-> FALSE, busy |-> to = "voice"]
  BY DEF Navigate, PageTypeOK
<1>3. OnLeave \in Seq(OpSet) /\ OnMount(to, next) \in Seq(OpSet)
  <2>3. room.device \in Devices
    BY DEF PageTypeOK, RoomTypeOK
  <2>1. ui.route = "voice" => Op("exit", ui.visit) \in OpSet
    BY <1>2, <2>3 DEF Op, OpSet, Kinds, Starts, RouteInv
  <2>2. Op("enter", next) \in OpSet
    BY <1>2, <2>3 DEF Op, OpSet, Kinds, Starts
  <2> QED
    BY <2>1, <2>2 DEF OnLeave, OnMount
<1>4. PICK exits \in {0, 1}, enters \in {0, 1} :
        /\ Len(OnLeave) = exits /\ Len(OnMount(to, next)) = enters
        /\ exits = 1 <=> ui.route = "voice" /\ ~ui.busy
        /\ exits = 1 => OnLeave[1] = Op("exit", ui.visit)
        /\ enters = 1 <=> to = "voice"
        /\ enters = 1 => OnMount(to, next)[1] = Op("enter", next)
  BY DEF OnLeave, OnMount
<1>5. /\ ops' \in Seq(OpSet) /\ DOMAIN ops' = 1..k + exits + enters
      /\ \A n \in 1..k : ops'[n] = ops[n]
      /\ exits = 1 => ops'[k + 1] = Op("exit", ui.visit)
      /\ enters = 1 => ops'[k + exits + 1] = Op("enter", next)
  <2>1. ops' = ops \o OnLeave \o OnMount(to, next)
    BY DEF Navigate
  <2> DEFINE s == ops \o OnLeave
  <2>2. /\ s \in Seq(OpSet) /\ Len(s) = k + exits
        /\ \A n \in 1..k + exits :
             s[n] = IF n <= k THEN ops[n] ELSE OnLeave[n - k]
    BY <1>1, <1>3, <1>4, ConcatProperties
  <2>3. (\A n \in 1..k : s[n] = ops[n]) /\ (exits = 1 => s[k + 1] = Op("exit", ui.visit))
    BY <1>1, <1>4, <2>2
  <2> HIDE DEF s
  <2>4. /\ ops' \in Seq(OpSet) /\ Len(ops') = k + exits + enters
        /\ \A n \in 1..k + exits + enters :
             ops'[n] = IF n <= k + exits THEN s[n]
                       ELSE OnMount(to, next)[n - (k + exits)]
    BY <2>1, <2>2, <1>3, <1>4, ConcatProperties DEF s
  <2>5. DOMAIN ops' = 1..k + exits + enters
    BY <2>4, LenProperties
  <2>6. enters = 1 => ops'[k + exits + 1] = Op("enter", next)
    BY <1>1, <1>4, <2>4
  <2>7. (exits = 1 => ops'[k + 1] = Op("exit", ui.visit))
        /\ \A n \in 1..k : ops'[n] = ops[n]
    <3>1. ASSUME NEW n \in 1..k + exits
          PROVE  ops'[n] = s[n]
      BY <1>1, <1>4, <2>4
    <3> QED
      BY <1>1, <1>4, <2>3, <3>1
  <2> QED
    BY <2>4, <2>5, <2>6, <2>7
<1>6. ASSUME NEW n \in DOMAIN ops'
      PROVE  \/ n \in 1..k /\ ops'[n] = ops[n]
             \/ exits = 1 /\ n = k + 1 /\ ops'[n] = Op("exit", ui.visit)
             \/ enters = 1 /\ n = k + exits + 1 /\ ops'[n] = Op("enter", next)
  BY <1>1, <1>4, <1>5
<1>7. ASSUME NEW n \in 1..k
      PROVE  ops[n].visit \in 1..ui.visit /\ (exits = 1 => ops[n].visit < ui.visit)
  <2>1. ops[n] \in OpSet
    BY <1>1
  <2>2. ops[n].visit <= ui.visit /\ (exits = 1 => ops[n].visit # ui.visit)
    BY <1>1, <1>4 DEF OpsInv
  <2> QED
    BY <1>2, <2>1, <2>2 DEF OpSet
<1>8. left' \subseteq 1..MaxVisits /\ left \subseteq left'
      /\ (LeavesItOn => ui.visit \in left')
  <2>1. LeavesItOn => ui.visit \in 1..MaxVisits
    BY <1>2 DEF LeavesItOn, RouteInv
  <2> QED
    BY <2>1 DEF Navigate, PageTypeOK
<1>9. RoomTypeOK'
  <2>1. RoomOK(room) /\ room.device \in Devices
    BY RoomsOK DEF PageTypeOK, RoomOK
  <2>2. RoomOK(room')
    BY <2>1, EnsuredOK DEF Navigate
  <2> QED
    BY <2>2 DEF RoomOK, RoomTypeOK, LinkSet
<1>10. PageTypeOK'
  BY <1>2, <1>5, <1>8, <1>9 DEF Navigate, PageTypeOK, OpSet
<1>11. OpsInv'
  <2>1. \A m, n \in DOMAIN ops' : m < n => ops'[m].visit < ops'[n].visit
    <3>1. \A m, n \in 1..k : m < n => ops[m].visit < ops[n].visit
      BY <1>1 DEF OpsInv
    <3> QED
      BY <1>2, <1>4, <1>6, <1>7, <3>1 DEF Op
  <2>2. \A n \in DOMAIN ops' : ops'[n].visit <= next
    BY <1>1, <1>2, <1>6, <1>7 DEF Op
  <2>3. \A n \in DOMAIN ops' : ops'[n].kind \in Starts <=> ops'[n].at # "mute"
    BY <1>1, <1>6 DEF OpsInv, Op, Starts
  <2>4. \A n \in DOMAIN ops' :
          ops'[n].visit = next => to = "voice" /\ ops'[n].kind = "enter"
    BY <1>1, <1>2, <1>4, <1>6, <1>7 DEF Op
  <2>5. to = "voice" => \E n \in DOMAIN ops' : ops'[n].visit = next
    BY <1>4, <1>5 DEF Op
  <2>6. ui'.busy <=> \E n \in DOMAIN ops' : ops'[n].visit = ui'.visit
    BY <1>2, <2>4, <2>5
  <2> QED
    BY <1>2, <2>1, <2>2, <2>3, <2>4, <2>6 DEF OpsInv
<1>12. RouteInv' /\ TrackInv'
  <2>1. TrackInv'
    BY <1>1, <1>6 DEF TrackInv, Navigate, Op, Starts
  <2> QED
    <3>1. ui'.route = to /\ ui'.visit > 0
      BY <1>2
    <3>2. ~ui'.on /\ (to = "other" => ~ui'.busy)
      BY <1>2
    <3> QED
      BY <2>1, <3>1, <3>2 DEF RouteInv
<1>13. LeftInv'
  <2>1. ASSUME NEW n \in DOMAIN ops, ops[n].kind \in Starts
        PROVE  ops[n].visit \in left'
    <3>1. CASE ops[n].visit # ui.visit
      BY <2>1, <3>1, <1>8 DEF LeftInv
    <3>2. CASE ops[n].visit = ui.visit
      <4>1. \A m \in DOMAIN ops : ops[m].visit = ui.visit => m = n
        <5> SUFFICES ASSUME NEW m \in 1..k, ops[m].visit = ui.visit, m # n
                     PROVE  FALSE
          BY <1>1
        <5>1. m < n \/ n < m
          BY <1>1
        <5> QED
          BY <5>1, <1>1, <1>2, <3>2 DEF OpsInv
      <4>2. LeavesItOn
        BY <2>1, <3>2, <4>1 DEF LeavesItOn, Pending, OpsInv, Starts
      <4> QED
        BY <3>2, <4>2, <1>8
    <3> QED
      BY <3>1, <3>2
  <2> QED
    BY <1>1, <1>2, <1>6, <2>1 DEF LeftInv, Op, Starts
<1>14. LiveInv'
  <2>1. ASSUME Live
        PROVE  left' # {} \/ spoilt # {} \/ ops' # <<>>
    <3>1. CASE left # {} \/ spoilt # {}
      BY <3>1, <1>8
    <3>2. CASE ops # <<>>
      <4>1. 1 \in DOMAIN ops
        BY <3>2, FirstOp
      <4> QED
        BY <4>1, <1>1, <1>4, <1>5
    <3>3. CASE ops = <<>> /\ ui.on
      <4>1. ~ui.busy /\ \A v, ks : ~Pending(v, ks)
        BY <3>3 DEF OpsInv, Pending
      <4>2. ui.route = "talk" => LeavesItOn
        BY <3>3, <4>1 DEF LeavesItOn
      <4>3. ui.route = "voice" => 1 \in DOMAIN ops'
        BY <4>1, <1>1, <1>4, <1>5
      <4> QED
        BY <3>3, <4>2, <4>3, <1>8 DEF RouteInv, PageTypeOK, Routes
    <3> QED
      BY <2>1, <3>1, <3>2, <3>3 DEF LiveInv
  <2> QED
    BY <1>2, <2>1 DEF LiveInv, Live, Navigate
<1> QED
  BY <1>10, <1>11, <1>12, <1>13, <1>14

\* Every step of the page keeps its invariant.
LEMMA PageStepInv ==
  ASSUME PInv, PageNext
  PROVE  PInv'
<1>1. CASE \E to \in Routes : Navigate(to)
  BY <1>1, NavigateInv
<1>2. CASE Tap \/ End
  BY <1>2, TapInv, EndInv
<1>5. CASE \E device \in Devices : Resize(device)
  BY <1>5, ResizeInv
<1>3. CASE \E n \in Running :
             TakeRoom(n) \/ TakeTrack(n) \/ Publish(n) \/ Unmute(n) \/ Mute(n)
  <2>1. ops # <<>> /\ (\/ TakeRoom(1) \/ TakeTrack(1) \/ Publish(1) \/ Unmute(1)
                       \/ Mute(1))
    BY <1>3 DEF Running
  <2> QED
    BY <2>1, TakeRoomInv, TakeTrackInv, PublishInv, UnmuteInv, MuteInv
<1>4. CASE \/ \E g \in Links("trying") : Connected(g) \/ Refused(g)
           \/ \E g \in Links("in") : Drop(g)
  BY <1>4, ConnectedInv, RefusedInv, DropInv
<1> QED
  BY <1>1, <1>2, <1>3, <1>4, <1>5 DEF PageNext

\* A step of the agent changes nothing that the invariant of the page speaks of.
LEMMA PageStutter ==
  ASSUME PInv, UNCHANGED pageVars
  PROVE  PInv'
  BY DEF PInv, PageTypeOK, OpsInv, RouteInv, RoomTypeOK, LeftInv, TrackInv, LiveInv,
         Live, pageVars

\* With an empty queue the invariant is what the user is shown.
LEMMA PageAgrees == PInv => MicAgrees
<1> SUFFICES ASSUME PInv, ops = <<>>
             PROVE  /\ (\E d \in Devices : Flowing(d)) => ui.on \/ left # {} \/ spoilt # {}
                    /\ ui.on /\ ui.visit \notin spoilt => mic.track /\ ~mic.muted
  BY DEF MicAgrees
<1> QED
  BY DEF PInv, LiveInv, Live, Flowing

----------------------------------------------------------------------------

\* Both invariants hold of every call.
LEMMA CallInv == Spec => [](WInv /\ PInv)
<1>1. Init => WInv /\ PInv
  BY WorkerInitInv, PageInitInv DEF Init
<1>2. WInv /\ PInv /\ [Next]_vars => (WInv /\ PInv)'
  BY WorkerStepInv, WorkerStutter, PageStepInv, PageStutter DEF Next, vars
<1> QED
  BY <1>1, <1>2, PTL DEF Spec

\* Page and agent stay within their types.
THEOREM TypeCorrect == Spec => []TypeOK
<1>1. WInv /\ PInv => TypeOK
  BY DEF WInv, PInv, TypeOK
<1> QED
  BY <1>1, CallInv, PTL

\* Barge-in: the one flag that all turns of a call share (tts_cancel,
\* worker.py:325-326, 403, 424-432) breaks off the turn that was spoken over while
\* it was played, and no other, in calls of any length.
THEOREM BargeInsExact == Spec => []BargeExact
<1>1. WInv => BargeExact
  BY DEF WInv
<1> QED
  BY <1>1, CallInv, PTL

\* The row of voice_sessions tells the call's story (worker.py:401-402, 430-431,
\* 470; voice_sessions.py:34-61), whatever fails, is cancelled or crashes.
THEOREM RowsTrue == Spec => []RowTrue
  BY RowCounts, CallInv, PTL

\* The microphone does what is shown (useLiveKitRoom.ts:193-212), for any number of
\* routes that come and go with operations under way and of rooms that drop.
THEOREM MicrophoneAgrees == Spec => []MicAgrees
  BY PageAgrees, CallInv, PTL
=============================================================================

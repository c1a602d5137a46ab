---------------------------- MODULE VoiceWorker ----------------------------
(* The LiveKit agent of one room (workers/voice_agent/worker.py): the task  *)
(* that feeds audio frames to the speech recogniser, the task that answers  *)
(* final transcripts one by one, the idle watchdog, the shutdown, and the   *)
(* call's row in voice_sessions (services/voice_sessions.py).  The tasks    *)
(* share one event loop, so each await is a step.                           *)
(*                                                                          *)
(* Left out: interim transcripts and the transcript messages' text, which   *)
(* change nothing here, and a second audio track in one room.               *)
EXTENDS Naturals, FiniteSets

CONSTANTS MaxTurns,    \* bound: final transcripts of a call
          MaxChunks    \* bound: pieces of a reply that are spoken

ASSUME WorkerAssumption == MaxTurns \in Nat /\ MaxChunks \in Nat

VARIABLES
  job,     \* entrypoint
  row,     \* the row of voice_sessions
  turns, barges,   \* the call's own counters
  turn,    \* _process_turns: where it is, and the pieces of the reply so far
  queue,   \* final transcripts that wait in the recogniser's queue
  cancel,  \* tts_cancel
  ear,     \* _consume_track
  stt,     \* stt_state and the recogniser's _closed flag
  quiet,   \* no frame for AUDIO_IDLE_TIMEOUT seconds
  asked,   \* history: turns that were put to CRUZ
  spokenOver,   \* history: turns the user spoke over while they were played
  cut      \* history: turns that were broken off as barge-ins

workerVars == <<job, row, turns, barges, turn, queue, cancel, ear, stt, quiet,
                asked, spokenOver, cut>>

WorkerInit ==
  /\ job = "none"
  /\ row = [state |-> "none", turns |-> 0, barges |-> 0]
  /\ turns = 0 /\ barges = 0
  /\ turn = [at |-> "wait", chunks |-> 0]
  /\ queue = 0
  /\ cancel = FALSE
  /\ ear = "none"
  /\ stt = [connected |-> FALSE, kept |-> FALSE, closed |-> FALSE]
  /\ quiet = FALSE
  /\ asked = {} /\ spokenOver = {} /\ cut = {}

\* The token of the first participant dispatches the agent, which connects its
\* services, writes the call's row and publishes its own track, or fails before
\* or after it has written the row, which then stays open.
Begin(inRoom) ==
  /\ job = "none" /\ inRoom
  /\ job' \in {"on", "over"}
  /\ \/ row' = [row EXCEPT !.state = "live"]
     \/ job' = "over" /\ UNCHANGED row
  /\ UNCHANGED <<turns, barges, turn, queue, cancel, ear, stt, quiet, asked,
                 spokenOver, cut>>

----------------------------------------------------------------------------
(* Audio in.                                                                *)

Speaking == turn.at \in {"speak", "fallback"}

\* track_subscribed, or the track that was there before the listener.
Subscribe(flowing) ==
  /\ job = "on" /\ flowing /\ ear = "none"
  /\ ear' = "ready"
  /\ UNCHANGED <<job, row, turns, barges, turn, queue, cancel, stt, quiet, asked,
                 spokenOver, cut>>

\* A loud frame while a reply is played asks for the playback to stop.
Heard(loud) ==
  /\ cancel' = (cancel \/ (Speaking /\ loud))
  /\ spokenOver' = IF Speaking /\ loud THEN spokenOver \union {turns}
                                       ELSE spokenOver

\* A frame: the recogniser is connected first where it is not, and the frame
\* is sent to it; an error in either ends the task, which nobody awaits.  The
\* task is not cancelled when the call ends.
Frame(flowing) ==
  /\ job \notin {"none", "lost"} /\ flowing /\ ear = "ready"
  /\ quiet' = FALSE
  /\ \/ /\ ~stt.connected
        /\ ear' = "opening"
        /\ UNCHANGED <<cancel, spokenOver>>
     \/ /\ stt.connected
        /\ \E loud \in BOOLEAN : Heard(loud)
        /\ ear' \in IF stt.closed THEN {"dead"} ELSE {"ready", "dead"}
  /\ UNCHANGED <<job, row, turns, barges, turn, queue, stt, asked, cut>>

Opened ==
  /\ job # "lost" /\ ear = "opening"
  /\ \/ /\ stt' = [stt EXCEPT !.connected = TRUE, !.kept = TRUE]
        /\ \E loud \in BOOLEAN : Heard(loud)
        /\ ear' \in IF stt.closed THEN {"dead"} ELSE {"ready", "dead"}
     \/ /\ ear' = "dead"
        /\ UNCHANGED <<stt, cancel, spokenOver>>
  /\ UNCHANGED <<job, row, turns, barges, turn, queue, quiet, asked, cut>>

\* The recogniser's final transcript of something that was said.
Transcript ==
  /\ job = "on" /\ stt.connected
  /\ turns + queue + (IF turn.at = "final" THEN 1 ELSE 0) < MaxTurns
  /\ queue' = queue + 1
  /\ UNCHANGED <<job, row, turns, barges, turn, cancel, ear, stt, quiet, asked,
                 spokenOver, cut>>

----------------------------------------------------------------------------
(* The turns, one after another.                                            *)

\* The task runs until it is told to stop: at a force-cancelled call nobody does.
Runs == job \in {"on", "killed", "orphaned"}

TurnStep(from) == Runs /\ turn.at = from

Goes(to) == turn' = [turn EXCEPT !.at = to]

\* The next transcript: the recogniser's generator ends once it is closed.
Onward == IF stt.closed THEN "gone" ELSE "wait"

\* A count that was under way at the database when its task ended, by an error, a
\* cancellation or with the process, took effect or did not.
Landed ==
  \/ UNCHANGED row
  \/ turn.at = "count" /\ row' = [row EXCEPT !.turns = row.turns + 1]
  \/ turn.at = "barge" /\ row' = [row EXCEPT !.barges = row.barges + 1]

\* Seeded bug: the queue is taken from without a look at it.
Take_Blind ==
  /\ TurnStep("wait")
  /\ queue' = queue - 1
  /\ turn' = [at |-> "final", chunks |-> 0]
  /\ UNCHANGED <<job, row, turns, barges, cancel, ear, stt, quiet, asked,
                 spokenOver, cut>>

\* A final transcript is taken and sent to the page.
Take ==
  /\ TurnStep("wait") /\ queue > 0
  /\ queue' = queue - 1
  /\ turn' = [at |-> "final", chunks |-> 0]
  /\ UNCHANGED <<job, row, turns, barges, cancel, ear, stt, quiet, asked,
                 spokenOver, cut>>

\* turns += 1, and the row's turn.
Count ==
  /\ TurnStep("final")
  /\ turns' = turns + 1
  /\ Goes("count")
  /\ UNCHANGED <<job, row, barges, queue, cancel, ear, stt, quiet, asked,
                 spokenOver, cut>>

\* Seeded bug: the request to stop is not taken back before the next turn.
Ask_Stale ==
  /\ TurnStep("count")
  /\ \/ /\ row' = [row EXCEPT !.turns = row.turns + 1]
        /\ asked' = asked \union {turns}
        /\ Goes("ask")
     \/ Goes("gone") /\ Landed /\ UNCHANGED asked
  /\ UNCHANGED <<job, turns, barges, queue, cancel, ear, stt, quiet, spokenOver,
                 cut>>

\* The row is updated, the request to stop is taken back and CRUZ is asked;
\* without the row the task fails.
Ask ==
  /\ TurnStep("count")
  /\ \/ /\ row' = [row EXCEPT !.turns = row.turns + 1]
        /\ cancel' = FALSE
        /\ asked' = asked \union {turns}
        /\ Goes("ask")
     \/ Goes("gone") /\ Landed /\ UNCHANGED <<cancel, asked>>
  /\ UNCHANGED <<job, turns, barges, queue, ear, stt, quiet, spokenOver, cut>>

\* A sentence or a tool's summary is sent to the page before it is spoken; the
\* stream's end, after Done, takes the task to the next transcript; the stream
\* may also raise.
Reply ==
  /\ TurnStep("ask")
  /\ \/ /\ turn.chunks < MaxChunks
        /\ turn' = [at |-> "chunk", chunks |-> turn.chunks + 1]
     \/ Goes(Onward)
     \/ Goes("gone")
  /\ UNCHANGED <<job, row, turns, barges, queue, cancel, ear, stt, quiet, asked,
                 spokenOver, cut>>

Play ==
  /\ TurnStep("chunk")
  /\ Goes("speak")
  /\ UNCHANGED <<job, row, turns, barges, queue, cancel, ear, stt, quiet, asked,
                 spokenOver, cut>>

\* Deepgram's voice fails, before or after some of it was played.
FallBack ==
  /\ TurnStep("speak")
  /\ Goes("fallback")
  /\ UNCHANGED <<job, row, turns, barges, queue, cancel, ear, stt, quiet, asked,
                 spokenOver, cut>>

\* The playback is over: played out, or, with Deepgram's voice, left at the request
\* to stop, which the fallback voice does not look at: it plays its one frame out.
\* Either way the request breaks the turn off.
Played ==
  /\ Runs /\ Speaking
  /\ IF cancel
     THEN /\ Goes("barge")
          /\ barges' = barges + 1
          /\ cut' = cut \union {turns}
     ELSE Goes("ask") /\ UNCHANGED <<barges, cut>>
  /\ UNCHANGED <<job, row, turns, queue, cancel, ear, stt, quiet, asked,
                 spokenOver>>

\* The fallback voice fails too, and with it the task.
Voiceless ==
  /\ TurnStep("fallback")
  /\ Goes("gone")
  /\ UNCHANGED <<job, row, turns, barges, queue, cancel, ear, stt, quiet, asked,
                 spokenOver, cut>>

\* The row's barge; the stream is left where it is.
CountBarge ==
  /\ TurnStep("barge")
  /\ \/ row' = [row EXCEPT !.barges = row.barges + 1] /\ Goes(Onward)
     \/ Goes("gone") /\ Landed
  /\ UNCHANGED <<job, turns, barges, queue, cancel, ear, stt, quiet, asked,
                 spokenOver, cut>>

----------------------------------------------------------------------------
(* The end of the call.                                                     *)

\* The idle timeout passes without a frame.
Hush(flowing) ==
  /\ job = "on" /\ ~quiet
  /\ ~(flowing /\ ear \in {"none", "ready"})
  /\ quiet' = TRUE
  /\ UNCHANGED <<job, row, turns, barges, turn, queue, cancel, ear, stt, asked,
                 spokenOver, cut>>

\* Seeded bug: the call waits for all of its tasks.
Finished_All == quiet /\ turn.at = "gone"

\* The watchdog returns, or the turns' task has failed.
Finished == quiet \/ turn.at = "gone"

\* asyncio.wait returns; the recogniser is closed, and its keepalive, if there
\* ever was one.  The turns' task is told to stop and not awaited.
Close ==
  /\ job = "on" /\ Finished
  /\ job' = "closing"
  /\ stt' = [stt EXCEPT !.connected = stt.connected /\ ~stt.kept,
                        !.closed = TRUE]
  /\ UNCHANGED <<row, turns, barges, turn, queue, cancel, ear, quiet, asked,
                 spokenOver, cut>>

\* The harness cancels entrypoint while it waits: the same, except that nobody
\* tells the turns' task to stop.
ForceCancel ==
  /\ job = "on"
  /\ job' = "killed"
  /\ stt' = [stt EXCEPT !.connected = stt.connected /\ ~stt.kept,
                        !.closed = TRUE]
  /\ UNCHANGED <<row, turns, barges, turn, queue, cancel, ear, quiet, asked,
                 spokenOver, cut>>

\* The turns' task is cancelled at its await, before or after the row is closed;
\* after a force-cancel by the loop's end, or it ends by itself.
Unwind ==
  /\ job \in {"closing", "over", "killed", "orphaned"} /\ turn.at # "gone"
  /\ Goes("gone")
  /\ Landed
  /\ UNCHANGED <<job, turns, barges, queue, cancel, ear, stt, quiet, asked,
                 spokenOver, cut>>

\* Seeded bug: the row is closed without the counters.
EndRow_Bare ==
  /\ job \in {"closing", "killed"}
  /\ job' = IF job = "killed" THEN "orphaned" ELSE "over"
  /\ row' = [state |-> "ended", turns |-> 0, barges |-> 0]
  /\ UNCHANGED <<turns, barges, turn, queue, cancel, ear, stt, quiet, asked,
                 spokenOver, cut>>

\* The row is closed with the call's own counters; an error is logged, and a
\* cancellation on the way skips it.
EndRow ==
  /\ job \in {"closing", "killed"}
  /\ job' = IF job = "killed" THEN "orphaned" ELSE "over"
  /\ \/ row' = [state |-> "ended", turns |-> turns, barges |-> barges]
     \/ UNCHANGED row
  /\ UNCHANGED <<turns, barges, turn, queue, cancel, ear, stt, quiet, asked,
                 spokenOver, cut>>

\* The job's process dies.
Crash ==
  /\ job \in {"on", "closing", "killed"}
  /\ job' = "lost"
  /\ Landed
  /\ UNCHANGED <<turns, barges, turn, queue, cancel, ear, stt, quiet, asked,
                 spokenOver, cut>>

WorkerNext(inRoom, flowing) ==
  \/ Begin(inRoom) \/ Subscribe(flowing) \/ Frame(flowing) \/ Opened
  \/ Transcript \/ Take \/ Count \/ Ask \/ Reply \/ Play \/ FallBack \/ Played
  \/ Voiceless \/ CountBarge
  \/ Hush(flowing) \/ Close \/ ForceCancel \/ Unwind \/ EndRow \/ Crash

WorkerTypeOK ==
  /\ job \in {"none", "on", "closing", "killed", "over", "orphaned", "lost"}
  /\ row \in [state : {"none", "live", "ended"}, turns : Nat, barges : Nat]
  /\ turns \in Nat /\ barges \in Nat
  /\ turn \in [at : {"wait", "final", "count", "ask", "chunk", "speak",
                     "fallback", "barge", "gone"}, chunks : 0..MaxChunks]
  /\ queue \in Nat
  /\ cancel \in BOOLEAN
  /\ ear \in {"none", "ready", "opening", "dead"}
  /\ stt \in [connected : BOOLEAN, kept : BOOLEAN, closed : BOOLEAN]
  /\ quiet \in BOOLEAN
  /\ asked \subseteq 1..turns /\ spokenOver \subseteq asked /\ cut \subseteq asked

\* The row of a call tells its story (worker.py:401-402, 430-431, 470 and the
\* three UPDATEs of voice_sessions.py:34-61): while it is open it is at most one
\* turn and one barge-in behind the call and never short of a turn that CRUZ was
\* asked, even after a crash; once it is closed it counts every turn and every
\* barge-in, and at most one too many, the one whose count was under way when the
\* call ended.  A call that was force-cancelled goes on beside its closed row,
\* which then is one off at most, in either direction, and still not short of a
\* turn that CRUZ was asked.
RowTrue ==
  /\ row.state # "none" => row.turns >= Cardinality(asked)
  /\ row.state = "live" =>
       /\ row.turns \in {turns - 1, turns}
       /\ row.barges \in {Cardinality(cut) - 1, Cardinality(cut)}
  /\ row.state = "ended" /\ job = "over" =>
       /\ row.turns >= turns /\ row.barges >= Cardinality(cut)
       /\ row.turns + row.barges <= turns + Cardinality(cut) + 1
  /\ row.state = "ended" /\ job = "orphaned" =>
       /\ row.turns \in turns - 1 .. turns + 1
       /\ row.barges \in Cardinality(cut) - 1 .. Cardinality(cut) + 1

\* Barge-in (worker.py:325-326, 403, 424-432): only a turn that the user spoke
\* over while its own reply was played is broken off, whatever was said before or
\* between; every turn spoken over is broken off unless the call ends first; and
\* nothing more of a broken-off reply is sent or spoken.
BargeExact ==
  /\ cut \subseteq spokenOver
  /\ \A t \in spokenOver \ cut :
       t = turns /\ turn.at \in {"speak", "fallback", "gone"}
  /\ turns \in cut => turn.at \in {"barge", "wait", "final", "gone"}
============================================================================

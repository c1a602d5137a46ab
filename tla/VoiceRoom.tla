----------------------------- MODULE VoiceRoom -----------------------------
(* A voice call: the page that publishes the microphone and the agent that  *)
(* listens to it, meeting in a LiveKit room.  The page's frames are what    *)
(* the agent hears; POST /voice/token names the room after conversation and *)
(* device and asks LiveKit to dispatch the agent into it, once.  Rooms of   *)
(* other devices have agents of their own, which share nothing with this    *)
(* one.                                                                     *)
EXTENDS VoicePage, VoiceWorker

CONSTANT Device   \* the device whose room's agent is modelled

vars == <<pageVars, workerVars>>

Init == PageInit /\ WorkerInit

\* The agent is dispatched into its device's room once the page has joined it.
InRoom == Joined(Device) # {}

Spoken == Flowing(Device)

Next ==
  \/ PageNext /\ UNCHANGED workerVars
  \/ WorkerNext(InRoom, Spoken) /\ UNCHANGED pageVars

\* Time passes, the watchdog looks every ten seconds, and a shutdown that has
\* begun goes on; nobody is obliged to speak, to answer or to stay connected.
Fairness ==
  /\ WF_vars(Hush(Spoken) /\ UNCHANGED pageVars)
  /\ WF_vars(Close /\ UNCHANGED pageVars)
  /\ WF_vars(EndRow /\ UNCHANGED pageVars)

Spec == Init /\ [][Next]_vars /\ Fairness

TypeOK == PageTypeOK /\ WorkerTypeOK

\* An agent that hears nothing any more does not stay (_idle_watchdog,
\* worker.py:362-378, and FIRST_COMPLETED, 451-456), however its turn stands: its
\* call comes to an end, by the watchdog or before it.
StaleRoomsEnd ==
  <>[]~Spoken => <>[](job \notin {"on", "closing", "killed"})
============================================================================

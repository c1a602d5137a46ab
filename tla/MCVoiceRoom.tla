---------------------------- MODULE MCVoiceRoom ----------------------------
(* VoiceRoom for TLC.  Page and agent share nothing but the frames, so a    *)
(* behaviour is a call with a page on its first route and one device, or a  *)
(* page of several routes and devices to which no agent comes.              *)
EXTENDS VoiceRoom

\* The page stays as it was when the agent came, but for its microphone and its
\* connection.
Settled == ui.visit <= 1 /\ room.resizes = 0 /\ room.device = Device

MCNext == Next /\ (job' # "none" => Settled')

MCSpec == Init /\ [][MCNext]_vars /\ Fairness

ASSUME Device \in Devices
============================================================================

----------------------------- MODULE VoicePage -----------------------------
(* The browser's side of a voice call: the LiveKit room and the microphone  *)
(* track that a page shares (frontend/src/hooks/useLiveKitRoom.ts), the     *)
(* tap-to-talk button (components/PTTButton.tsx) and the full-screen voice  *)
(* mode (routes/VoiceMode.tsx, hooks/useVoiceSession.ts), which share them. *)
(*                                                                          *)
(* Every await of an operation on the microphone is a step.  What is shown  *)
(* as text (interim and final transcripts, replies) is left out.            *)
EXTENDS Naturals, Sequences

CONSTANTS Devices,     \* device ids, which useDevice makes of the window's width
          MaxVisits,   \* bound: how often the user changes the route
          MaxDrops,    \* bound: how often LiveKit drops a connection
          MaxResizes   \* bound: how often the window's width changes the device

ASSUME PageAssumption ==
  /\ MaxVisits \in Nat \ {0} /\ MaxDrops \in Nat /\ MaxResizes \in Nat

VARIABLES
  ui,      \* the mounted route, its number, and its button or session state
  ops,     \* microphone operations, the first one running, the others waiting
  room,    \* _state, every room that was asked for, and the window's device
  mic,     \* _mic: the track, whether it is taken for published, and where it is
  left,    \* history: visits that went away with the microphone in their hand
  spoilt   \* history: visits whose last operation failed

pageVars == <<ui, ops, room, mic, left, spoilt>>

Routes == {"other", "talk", "voice"}
Starts == {"start", "enter"}
Kinds == Starts \union {"stop", "exit"}

\* startPTT and enterVoiceMode begin with the room, stopPTT and exitVoiceMode
\* only mute.  The device is the one of the render that made the call.
Op(kind, visit) ==
  [kind |-> kind, visit |-> visit, device |-> room.device, gen |-> 0,
   at |-> IF kind \in Starts THEN "room" ELSE "mute"]

PageInit ==
  /\ ui = [route |-> "other", visit |-> 0, on |-> FALSE, busy |-> FALSE]
  /\ ops = <<>>
  /\ \E device \in Devices :
       room = [links |-> <<>>, now |-> 0, trying |-> 0, device |-> device,
               drops |-> 0, resizes |-> 0]
  /\ mic = [track |-> FALSE, published |-> FALSE, muted |-> FALSE, gen |-> 0]
  /\ left = {}
  /\ spoilt = {}

\* _ensureRoom: the room there is, if it is this device's, the attempt under way,
\* or a new attempt.
Ensured(r, device) ==
  IF \/ r.now # 0 /\ r.links[r.now].device = device
     \/ r.trying # 0
  THEN r
  ELSE [r EXCEPT !.links = Append(r.links, [device |-> device, at |-> "trying"]),
                 !.trying = Len(r.links) + 1]

Pending(visit, kinds) ==
  \E n \in DOMAIN ops : ops[n].visit = visit /\ ops[n].kind \in kinds

\* Rooms the page is in.
Joined(device) ==
  {g \in DOMAIN room.links : room.links[g] = [device |-> device, at |-> "in"]}

\* The microphone's frames reach a device's room.
Flowing(device) == mic.track /\ ~mic.muted /\ mic.gen \in Joined(device)

----------------------------------------------------------------------------
(* The user.                                                                *)

\* The mounted route goes away with the microphone on, or about to be, and
\* nothing under way that mutes it: the tap-to-talk button does nothing when it
\* unmounts, and exit() of a session that is busy entering returns at once.
LeavesItOn ==
  \/ ui.route = "talk" /\ (ui.on \/ Pending(ui.visit, {"start"}))
                       /\ ~Pending(ui.visit, {"stop"})
  \/ ui.route = "voice" /\ Pending(ui.visit, {"enter"})

\* VoiceMode exits when it unmounts, unless its session is busy.
OnLeave ==
  IF ui.route = "voice" /\ ~ui.busy THEN <<Op("exit", ui.visit)>> ELSE <<>>

\* VoiceMode enters when it mounts; both routes ask for the room.
OnMount(to, visit) == IF to = "voice" THEN <<Op("enter", visit)>> ELSE <<>>

Navigate(to) ==
  /\ ui.route # to
  /\ ui.visit < MaxVisits
  /\ ui' = [route |-> to, visit |-> ui.visit + 1, on |-> FALSE,
            busy |-> to = "voice"]
  /\ ops' = ops \o OnLeave \o OnMount(to, ui.visit + 1)
  /\ room' = IF to = "other" THEN room ELSE Ensured(room, room.device)
  /\ left' = IF LeavesItOn THEN left \union {ui.visit} ELSE left
  /\ UNCHANGED <<mic, spoilt>>

\* The window gets another width: both routes ask for the new device's room.
Resize(device) ==
  /\ device # room.device /\ room.resizes < MaxResizes
  /\ LET wide == [room EXCEPT !.device = device, !.resizes = room.resizes + 1]
     IN room' = IF ui.route = "other" THEN wide ELSE Ensured(wide, device)
  /\ UNCHANGED <<ui, ops, mic, left, spoilt>>

\* The button is disabled without a room and while it is busy.
Tap ==
  /\ ui.route = "talk" /\ room.now # 0 /\ ~ui.busy
  /\ ui' = [ui EXCEPT !.busy = TRUE]
  /\ ops' = Append(ops, Op(IF ui.on THEN "stop" ELSE "start", ui.visit))
  /\ UNCHANGED <<room, mic, left, spoilt>>

\* End, Esc, or the tab coming back after a minute in the background.
End ==
  /\ ui.route = "voice" /\ ~ui.busy
  /\ ui' = [ui EXCEPT !.busy = TRUE]
  /\ ops' = Append(ops, Op("exit", ui.visit))
  /\ UNCHANGED <<room, mic, left, spoilt>>

----------------------------------------------------------------------------
(* The operations on the microphone, one at a time.                         *)

\* Seeded bug: the operations are not serialised.
Running_Any == DOMAIN ops

\* _serialize: the operations run one after another, in the order of the calls.
Running == IF ops = <<>> THEN {} ELSE {1}

Without(n) == SubSeq(ops, 1, n - 1) \o SubSeq(ops, n + 1, Len(ops))

\* What the button or the session makes of an operation that is over: toggle
\* does not see that startPTT has failed, enter() does.
Shown(o, ok) ==
  CASE o.kind = "start" -> TRUE
    [] o.kind = "enter" -> ok \/ ui.on
    [] OTHER            -> FALSE

Settle(n, ok) ==
  /\ ops' = Without(n)
  /\ ui' = IF ui.visit = ops[n].visit
           THEN [ui EXCEPT !.busy = FALSE, !.on = Shown(ops[n], ok)]
           ELSE ui
  /\ spoilt' = IF ok THEN spoilt \ {ops[n].visit}
                     ELSE spoilt \union {ops[n].visit}

Fails(n) == Settle(n, FALSE) /\ UNCHANGED <<mic, left>>

GoOn(n, at) == ops' = [ops EXCEPT ![n].at = at]

\* _state.room ?? await _ensureRoom, then startAudio, whose failure is ignored.
TakeRoom(n) ==
  /\ ops[n].at = "room"
  /\ \/ /\ room.now # 0
        /\ ops' = [ops EXCEPT ![n].at = "track", ![n].gen = room.now]
        /\ UNCHANGED room
     \/ /\ room.now = 0
        /\ room' = Ensured(room, ops[n].device)
        /\ ops' = [ops EXCEPT ![n].at = "join", ![n].gen = room'.trying]
  /\ UNCHANGED <<ui, mic, left, spoilt>>

\* The one track is created live, by the first operation that needs it.
TakeTrack(n) ==
  /\ ops[n].at = "track"
  /\ \/ /\ GoOn(n, "publish")
        /\ mic' = [mic EXCEPT !.track = TRUE]
        /\ UNCHANGED <<ui, left, spoilt>>
     \/ ~mic.track /\ Fails(n)
  /\ UNCHANGED room

\* Published once, as far as _mic knows: the flag outlives the room, and does not
\* say in which room it was.
Publish(n) ==
  /\ ops[n].at = "publish"
  /\ \/ /\ mic.published
        /\ GoOn(n, "unmute")
        /\ UNCHANGED <<ui, mic, left, spoilt>>
     \/ /\ ~mic.published /\ room.links[ops[n].gen].at = "in"
        /\ GoOn(n, "unmute")
        /\ mic' = [mic EXCEPT !.published = TRUE, !.gen = ops[n].gen]
        /\ UNCHANGED <<ui, left, spoilt>>
     \/ ~mic.published /\ Fails(n)
  /\ UNCHANGED room

Unmute(n) ==
  /\ ops[n].at = "unmute"
  /\ \/ /\ mic' = [mic EXCEPT !.muted = FALSE]
        /\ Settle(n, TRUE)
        /\ UNCHANGED left
     \/ Fails(n)
  /\ UNCHANGED room

\* Muted, or nothing to mute, or the error of mute() is logged.  Whoever went
\* away before is made good, except where an operation of theirs is still to
\* come.
Mute(n) ==
  /\ ops[n].at = "mute"
  /\ \/ /\ mic' = [mic EXCEPT !.muted = mic.track]
        /\ Settle(n, TRUE)
        /\ left' = {v \in left : Pending(v, Starts)}
     \/ mic.track /\ Fails(n)
  /\ UNCHANGED room

----------------------------------------------------------------------------
(* The rooms.                                                               *)

Links(at) == {g \in DOMAIN room.links : room.links[g].at = at}

\* The operation that waits for an attempt, if the running one does.
Joining(g) == {n \in Running : ops[n].at = "join" /\ ops[n].gen = g}

\* A room that was joined is _state's from now on, also when it is a second one.
Connected(g) ==
  /\ room' = [room EXCEPT !.links[g].at = "in", !.now = g, !.trying = 0]
  /\ ops' = [n \in DOMAIN ops |->
               IF n \in Joining(g) THEN [ops[n] EXCEPT !.at = "track"] ELSE ops[n]]
  /\ UNCHANGED <<ui, mic, left, spoilt>>

\* An attempt fails, and with it the operation that awaits it.
Refused(g) ==
  /\ room' = [room EXCEPT !.links[g].at = "gone", !.trying = 0]
  /\ \/ Joining(g) = {} /\ UNCHANGED <<ui, ops, mic, left, spoilt>>
     \/ \E n \in Joining(g) : Fails(n)

\* RoomEvent.Disconnected: _state's room and attempt are forgotten, whichever room
\* it was; the microphone's flag is not.
Drop(g) ==
  /\ room.drops < MaxDrops
  /\ room' = [room EXCEPT !.links[g].at = "gone", !.now = 0, !.trying = 0,
                          !.drops = room.drops + 1]
  /\ UNCHANGED <<ui, ops, mic, left, spoilt>>

PageNext ==
  \/ \E to \in Routes : Navigate(to)
  \/ \E device \in Devices : Resize(device)
  \/ Tap \/ End
  \/ \E n \in Running :
       TakeRoom(n) \/ TakeTrack(n) \/ Publish(n) \/ Unmute(n) \/ Mute(n)
  \/ \E g \in Links("trying") : Connected(g) \/ Refused(g)
  \/ \E g \in Links("in") : Drop(g)

RoomTypeOK ==
  /\ room \in [links : Seq([device : Devices, at : {"trying", "in", "gone"}]),
               now : Nat, trying : Nat, device : Devices,
               drops : 0..MaxDrops, resizes : 0..MaxResizes]
  /\ room.now <= Len(room.links) /\ room.trying <= Len(room.links)

PageTypeOK ==
  /\ ui \in [route : Routes, visit : 0..MaxVisits, on : BOOLEAN, busy : BOOLEAN]
  /\ ops \in Seq([kind : Kinds, visit : 1..MaxVisits, device : Devices, gen : Nat,
                  at : {"room", "join", "track", "publish", "unmute", "mute"}])
  /\ RoomTypeOK
  /\ mic \in [track : BOOLEAN, published : BOOLEAN, muted : BOOLEAN, gen : Nat]
  /\ left \subseteq 1..MaxVisits /\ spoilt \subseteq 1..MaxVisits

\* What is shown and what the microphone does agree once no operation is left
\* (useLiveKitRoom.ts:193-212, and the callers' own busy flags): a room hears the
\* microphone only while the mounted button or session says so, unless some visit
\* went away leaving it on or an operation failed half-way; and a button or
\* session that says it listens, and whose operations succeeded, has a live track.
MicAgrees ==
  ops = <<>> =>
    /\ (\E d \in Devices : Flowing(d)) => ui.on \/ left # {} \/ spoilt # {}
    /\ ui.on /\ ui.visit \notin spoilt => mic.track /\ ~mic.muted
============================================================================

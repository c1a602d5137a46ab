---- MODULE EventLog ----
(***************************************************************************)
(* The log of the agents and its readers.  BaseAgent.log                   *)
(* (agents/base_agent.py) inserts a row into agent_logs and then publishes *)
(* it on cruz:agent_logs; either may fail and is let pass.  GET /events    *)
(* (backend/api/main.py) replays the latest rows, then subscribes, then    *)
(* hands on what is published; useEventStream keeps what arrives.          *)
(***************************************************************************)
EXTENDS Integers, Sequences, FiniteSets, SequencesExt

CONSTANTS
  Runs,        \* runs of an agent, each of which logs at most one row
  Clients,     \* browsers that have the event stream open
  ReplayLimit  \* LIMIT of the replay, 50 in the code

ASSUME EventLogAssumption == ReplayLimit \in Nat \ {0}

VARIABLES
  logs,      \* agent_logs, in the order of its serial ids: [run, status]
  published, \* what went over the channel, in order: runs
  at,        \* where each client is
  view,      \* what a client was given since its last replay: runs; the page
             \* shows the last 200 of it (rows.slice(-max), prev.slice(-(max - 1)))
  inbox,     \* messages the server has for a client and has not sent
  known,     \* rows there were at a client's last replay, a history
  heard      \* messages there had been when it subscribed, a history

logVars == <<logs, published, at, view, inbox, known, heard>>
clientVars == <<at, view, inbox, known, heard>>

Status == {"success", "error"}

InitLog ==
  /\ logs = <<>>
  /\ published = <<>>
  /\ at = [c \in Clients |-> "replay"]
  /\ view = [c \in Clients |-> <<>>]
  /\ inbox = [c \in Clients |-> <<>>]
  /\ known = [c \in Clients |-> 0]
  /\ heard = [c \in Clients |-> 0]

----
\* BaseAgent.log, its two halves

InsertRow(r, status) == logs' = Append(logs, [run |-> r, status |-> status])

Subscribed(c) == at[c] = "listen"

PublishRow(r) ==
  /\ published' = Append(published, r)
  /\ inbox' = [c \in Clients |-> IF Subscribed(c) THEN Append(inbox[c], r)
                                 ELSE inbox[c]]
  /\ UNCHANGED <<at, view, known, heard>>

----
\* GET /events

Shown(rows) == [i \in DOMAIN rows |-> rows[i].run]
Beyond == IF Len(logs) > ReplayLimit THEN Len(logs) - ReplayLimit ELSE 0

\* Seeded bug: ORDER BY id LIMIT 50, the oldest rows.
Replayed_Oldest == Shown(SubSeq(logs, 1, Len(logs) - Beyond))

Replayed == Shown(SubSeq(logs, Beyond + 1, Len(logs)))

\* SELECT, then replay and sync; the client replaces its list.  This is the branch
\* without last_id: useEventStream opens /events without it, and so does its
\* EventSource again after a failure, so the branch that replays from last_id on
\* has no caller here.
Replay(c) ==
  /\ at[c] = "replay"
  /\ view' = [view EXCEPT ![c] = Replayed]
  /\ known' = [known EXCEPT ![c] = Len(logs)]
  /\ at' = [at EXCEPT ![c] = "subscribe"]
  /\ UNCHANGED <<logs, published, inbox, heard>>

\* What was published before this is not delivered.
Subscribe(c) ==
  /\ at[c] = "subscribe"
  /\ heard' = [heard EXCEPT ![c] = Len(published)]
  /\ at' = [at EXCEPT ![c] = "listen"]
  /\ UNCHANGED <<logs, published, view, inbox, known>>

\* A message is handed on; or the server finds that the client has gone, and
\* unsubscribes.  An EventSource that lost its connection opens a new one.
Deliver(c) ==
  /\ Subscribed(c) /\ inbox[c] # <<>>
  /\ view' = [view EXCEPT ![c] = Append(@, Head(inbox[c]))]
  /\ inbox' = [inbox EXCEPT ![c] = Tail(@)]
  /\ UNCHANGED <<logs, published, at, known, heard>>

Reconnect(c) ==
  /\ Subscribed(c)
  /\ at' = [at EXCEPT ![c] = "replay"]
  /\ inbox' = [inbox EXCEPT ![c] = <<>>]
  /\ UNCHANGED <<logs, published, view, known, heard>>

Reader(c) == Replay(c) \/ Subscribe(c) \/ Deliver(c) \/ Reconnect(c)

----
\* Type, and what a client may miss

LogTypeOK ==
  /\ \A i \in DOMAIN logs : logs[i] \in [run : Runs, status : Status]
  /\ published \in Seq(Runs)
  /\ at \in [Clients -> {"replay", "subscribe", "listen"}]
  /\ view \in [Clients -> Seq(Runs)]
  /\ inbox \in [Clients -> Seq(Runs)]
  /\ known \in [Clients -> Nat]
  /\ heard \in [Clients -> Nat]

Times(r, s) == Cardinality({i \in DOMAIN s : s[i] = r})
After(c) == ToSet(SubSeq(published, heard[c] + 1, Len(published)))

\* A client that has taken in all the server has for it was given every row of
\* agent_logs, but for the rows that were beyond the LIMIT and those that came after
\* its replay and were not published after its subscription: published between the
\* two, which is the code's gap, or not at all, when the PUBLISH failed after the
\* INSERT.  Nothing was given twice that was not both replayed and published later.
\* What the page still shows of it are the last 200.
MissedOnlyInGap ==
  \A c \in Clients : Subscribed(c) /\ inbox[c] = <<>> =>
    \A i \in DOMAIN logs :
      LET r == logs[i].run
          replayed == known[c] - ReplayLimit < i /\ i <= known[c]
      IN Times(r, view[c]) = (IF replayed THEN 1 ELSE 0)
                             + (IF r \in After(c) THEN 1 ELSE 0)
====

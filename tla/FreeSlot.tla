---- MODULE FreeSlot ----
(***************************************************************************)
(* _first_free_slot (agents/calendar/calendar_agent.py): the first gap of  *)
(* a given length between the events of a calendar, how the times that it  *)
(* compares are parsed, and what it means for a gap to be the first one.   *)
(* Times are minutes of one day.                                           *)
(***************************************************************************)
EXTENDS Integers, Sequences, FiniteSets, SequencesExt

CONSTANT NoSlot

Later(x, y) == IF x > y THEN x ELSE y
Sooner(x, y) == IF x < y THEN x ELSE y

\* What has two ends, as the clock shows them in a zone, an offset from UTC.  A
\* time with Z is in zone 0, and so is one without a zone: _ensure_z adds the Z.
\* An all-day event has a date and no dateTime: it is skipped.
Windows(times, zones) == [from : times, to : times, zone : zones]
Events(times, zones) == [from : times, to : times, zone : zones, timed : BOOLEAN]

\* The moments that are meant.
Moments(x) == [x EXCEPT !.from = @ - x.zone, !.to = @ - x.zone]

\* _parse_iso cuts off a Z and what follows a plus, and keeps a minus: such a
\* datetime is aware of its zone, and compares as the moment.
Aware(x) == x.zone < 0
Parsed(x) == IF Aware(x) THEN Moments(x) ELSE x

\* Google lists the events that overlap the window, at the moments meant.
Listed(window, events) ==
  {v \in events : /\ Moments(v).to > Moments(window).from
                  /\ Moments(v).from < Moments(window).to}

\* Python does not compare an aware datetime with one that is not.
Incomparable(window, events) ==
  \E v \in Listed(window, events) : v.timed /\ Aware(v) # Aware(window)

\* Seeded bug: an event that began before the window is left out.
Busy_Inside(window, events) ==
  {e \in {[from |-> Later(v.from, window.from), to |-> Sooner(v.to, window.to)] :
            v \in {u \in events : u.timed /\ u.from >= window.from}} : e.to > e.from}

\* The timed events, cut to the window; what is empty then is dropped.
Busy(window, events) ==
  {e \in {[from |-> Later(v.from, window.from), to |-> Sooner(v.to, window.to)] :
            v \in {u \in events : u.timed}} : e.to > e.from}

\* Python sorts pairs by their first component, then by their second.
Before(x, y) == x.from < y.from \/ (x.from = y.from /\ x.to <= y.to)

\* A set of events as the sorted list of them.
InOrder(S) ==
  CHOOSE s \in Surjection(1 .. Cardinality(S), S) :
    \A i, j \in DOMAIN s : i < j => Before(s[i], s[j])

\* One turn of the walk over the events: a gap ends it, else the cursor moves.
Walk(length, w, e) ==
  CASE w.slot # NoSlot -> w
    [] w.slot = NoSlot /\ e.from - w.cursor >= length -> [w EXCEPT !.slot = w.cursor]
    [] OTHER -> [w EXCEPT !.cursor = Later(w.cursor, e.to)]

FirstFree(window, length, events) ==
  LET busy == InOrder(Busy(window, events))
      Walked[n \in 0 .. Len(busy)] ==
        IF n = 0 THEN [cursor |-> window.from, slot |-> NoSlot]
        ELSE Walk(length, Walked[n - 1], busy[n])
      w == Walked[Len(busy)]
  IN IF w.slot = NoSlot /\ window.to - w.cursor >= length THEN w.cursor ELSE w.slot

\* find_free_slot, where the times compare.
FreeSlotOf(window, length, events) ==
  FirstFree(Parsed(window), length, {Parsed(v) : v \in Listed(window, events)})

\* The moment that a slot names: one without a zone is in the window's.
Named(s, window) == IF s = NoSlot \/ Aware(window) THEN s ELSE s - window.zone

\* Every event that counts is written in the zone of the window, or all
\* datetimes are aware.
OneClock(window, events) ==
  \A v \in Listed(window, events) :
    v.timed => v.zone = window.zone \/ (Aware(v) /\ Aware(window))

\* What is asked for: a start of a gap that lies in the window and touches no
\* timed event.
Fits(s, window, length, events) ==
  /\ window.from <= s /\ s + length <= window.to
  /\ \A e \in {v \in events : v.timed /\ v.to > v.from} :
       s + length <= e.from \/ e.to <= s

IsFirstFree(s, window, length, events) ==
  LET Starts == {t \in window.from .. window.to : Fits(t, window, length, events)}
  IN IF Starts = {} THEN s = NoSlot
     ELSE s \in Starts /\ \A t \in Starts : s <= t
====

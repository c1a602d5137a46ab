---- MODULE SpecialistsProofs ----
(***************************************************************************)
(* What TLAPS proves of Specialists, FreeSlot and EventLog: that the slot  *)
(* that is found is the first one that is free; the invariant of a run and *)
(* that every step, its own or another's, keeps it; and what the readers   *)
(* of the log show.                                                        *)
(***************************************************************************)
EXTENDS Specialists, InductionProofs, FiniteSetTheorems

----
\* The first free slot

Spans == [from : Int, to : Int]

\* What has two ends, whatever else it has.
Bounded(x) == x.from \in Int /\ x.to \in Int

\* The events in a row, each once or more, one that begins sooner before one
\* that begins later.
Sorted(s, S) ==
  /\ s \in [1 .. Cardinality(S) -> S]
  /\ \A e \in S : \E i \in 1 .. Cardinality(S) : s[i] = e
  /\ \A i, j \in 1 .. Cardinality(S) : i < j => Before(s[i], s[j])

\* Some event of a set comes last.
Latest(S) == \E m \in S : \A e \in S : Before(e, m)

LEMMA LatestExists ==
  ASSUME NEW S, S \subseteq Spans, IsFiniteSet(S), S # {}
  PROVE  Latest(S)
<1> DEFINE T == {n \in Nat : \A R \in SUBSET Spans :
                   IsFiniteSet(R) /\ Cardinality(R) = n /\ R # {} => Latest(R)}
<1>1. 0 \in T
  <2> SUFFICES ASSUME NEW R \in SUBSET Spans, IsFiniteSet(R), Cardinality(R) = 0, R # {}
      PROVE  FALSE
    OBVIOUS
  <2>1. QED
    BY FS_EmptySet
<1>2. ASSUME NEW n \in Nat, n \in T
      PROVE  n + 1 \in T
  <2> SUFFICES ASSUME NEW R \in SUBSET Spans, IsFiniteSet(R), Cardinality(R) = n + 1,
                      R # {}
      PROVE  Latest(R)
    OBVIOUS
  <2>1. PICK x \in R : TRUE
    OBVIOUS
  <2>2. /\ IsFiniteSet(R \ {x}) /\ R \ {x} \in SUBSET Spans
        /\ Cardinality(R \ {x}) = n
    <3>1. IsFiniteSet(R \ {x}) /\ Cardinality(R \ {x}) = Cardinality(R) - 1
      BY FS_RemoveElement, <2>1
    <3>2. QED
      BY <3>1
  <2>3. x \in Spans
    BY <2>1
  <2>4. CASE R \ {x} = {}
    <3>1. \A e \in R : Before(e, x)
      BY <2>3, <2>4 DEF Before, Spans
    <3>2. QED
      BY <3>1, <2>1 DEF Latest
  <2>5. CASE R \ {x} # {}
    <3>1. PICK m \in R \ {x} : \A e \in R \ {x} : Before(e, m)
      BY <1>2, <2>2, <2>5 DEF Latest
    <3>2. CASE Before(x, m)
      BY <3>1, <3>2 DEF Latest
    <3>3. CASE ~ Before(x, m)
      <4>1. m \in Spans
        BY <3>1
      <4>2. Before(m, x) /\ Before(x, x)
        BY <2>3, <3>3, <4>1 DEF Before, Spans
      <4>3. ASSUME NEW e \in R PROVE Before(e, x)
        <5>1. CASE e = x
          BY <4>2, <5>1
        <5>2. CASE e # x
          <6>1. Before(e, m) /\ e \in Spans
            BY <3>1, <5>2
          <6>2. QED
            BY <2>3, <4>1, <4>2, <6>1 DEF Before, Spans
        <5>3. QED
          BY <5>1, <5>2
      <4>4. QED
        BY <2>1, <4>3 DEF Latest
    <3>4. QED
      BY <3>2, <3>3
  <2>6. QED
    BY <2>4, <2>5
<1> HIDE DEF T
<1>3. Nat \subseteq T
  BY <1>1, <1>2, NatSetInduction
<1>4. Cardinality(S) \in T
  BY <1>3, FS_CardinalityType
<1>5. QED
  BY <1>4 DEF T

LEMMA SortedExists ==
  ASSUME NEW S, S \subseteq Spans, IsFiniteSet(S)
  PROVE  \E s : Sorted(s, S)
<1> DEFINE T == {n \in Nat : \A R \in SUBSET Spans :
                   IsFiniteSet(R) /\ Cardinality(R) = n => \E s : Sorted(s, R)}
<1>1. 0 \in T
  <2> SUFFICES ASSUME NEW R \in SUBSET Spans, IsFiniteSet(R), Cardinality(R) = 0
      PROVE  \E s : Sorted(s, R)
    OBVIOUS
  <2>1. R = {}
    BY FS_EmptySet
  <2> DEFINE s == [i \in 1 .. 0 |-> i]
  <2>2. Sorted(s, R)
    BY <2>1 DEF Sorted
  <2>3. QED
    BY <2>2
<1>2. ASSUME NEW n \in Nat, n \in T
      PROVE  n + 1 \in T
  <2> SUFFICES ASSUME NEW R \in SUBSET Spans, IsFiniteSet(R), Cardinality(R) = n + 1
      PROVE  \E s : Sorted(s, R)
    OBVIOUS
  <2>1. R # {}
    BY FS_EmptySet
  <2>2. PICK m \in R : \A e \in R : Before(e, m)
    BY <2>1, LatestExists DEF Latest
  <2>3. /\ IsFiniteSet(R \ {m}) /\ R \ {m} \in SUBSET Spans
        /\ Cardinality(R \ {m}) = n
    <3>1. IsFiniteSet(R \ {m}) /\ Cardinality(R \ {m}) = Cardinality(R) - 1
      BY FS_RemoveElement, <2>2
    <3>2. QED
      BY <3>1
  <2>4. PICK q : Sorted(q, R \ {m})
    BY <1>2, <2>3
  <2>5. /\ q \in [1 .. n -> R \ {m}]
        /\ \A e \in R \ {m} : \E i \in 1 .. n : q[i] = e
        /\ \A i, j \in 1 .. n : i < j => Before(q[i], q[j])
    BY <2>3, <2>4 DEF Sorted
  <2> DEFINE s == [i \in 1 .. n + 1 |-> IF i <= n THEN q[i] ELSE m]
  <2>6. s \in [1 .. n + 1 -> R]
    BY <2>2, <2>5
  <2>7. s[n + 1] = m /\ \A i \in 1 .. n : s[i] = q[i]
    OBVIOUS
  <2> HIDE DEF s
  <2>8. \A e \in R : \E i \in 1 .. n + 1 : s[i] = e
    BY <2>5, <2>7
  <2>9. ASSUME NEW i \in 1 .. n + 1, NEW j \in 1 .. n + 1, i < j
        PROVE  Before(s[i], s[j])
    <3>1. i \in 1 .. n
      BY <2>9
    <3>2. CASE j = n + 1
      BY <2>2, <2>6, <2>7, <3>2
    <3>3. CASE j # n + 1
      <4>1. j \in 1 .. n
        BY <3>3
      <4>2. QED
        BY <2>5, <2>7, <2>9, <3>1, <4>1
    <3>4. QED
      BY <3>2, <3>3
  <2>10. Sorted(s, R)
    BY <2>6, <2>8, <2>9 DEF Sorted
  <2>11. QED
    BY <2>10
<1> HIDE DEF T
<1>3. Nat \subseteq T
  BY <1>1, <1>2, NatSetInduction
<1>4. Cardinality(S) \in T
  BY <1>3, FS_CardinalityType
<1>5. QED
  BY <1>4 DEF T

LEMMA InOrderSorted ==
  ASSUME NEW S, S \subseteq Spans, IsFiniteSet(S)
  PROVE  Sorted(InOrder(S), S)
<1>1. PICK s : Sorted(s, S)
  BY SortedExists
<1>2. s \in Surjection(1 .. Cardinality(S), S)
  BY <1>1 DEF Sorted, Surjection
<1>3. \A i, j \in DOMAIN s : i < j => Before(s[i], s[j])
  BY <1>1 DEF Sorted
<1>4. /\ InOrder(S) \in Surjection(1 .. Cardinality(S), S)
      /\ \A i, j \in DOMAIN InOrder(S) : i < j => Before(InOrder(S)[i], InOrder(S)[j])
  BY <1>2, <1>3 DEF InOrder
<1>5. QED
  BY <1>4 DEF Sorted, Surjection

----
\* The walk over the events

\* What the walk has after the first n of N events.
Walking(F, window, length, busy, N) ==
  /\ F[0] = [cursor |-> window.from, slot |-> NoSlot]
  /\ \A n \in 1 .. N : F[n] = Walk(length, F[n - 1], busy[n])

Walkers == [cursor : Int, slot : Int \cup {NoSlot}]

LEMMA WalkType ==
  ASSUME NEW w \in Walkers, NEW e \in Spans, NEW length \in Nat, NoSlot \notin Int
  PROVE  /\ Walk(length, w, e) \in Walkers
         /\ w.slot # NoSlot => Walk(length, w, e) = w
         /\ w.slot = NoSlot /\ e.from - w.cursor >= length =>
              Walk(length, w, e) = [cursor |-> w.cursor, slot |-> w.cursor]
         /\ w.slot = NoSlot /\ ~(e.from - w.cursor >= length) =>
              Walk(length, w, e) = [cursor |-> Later(w.cursor, e.to), slot |-> NoSlot]
<1>1. w.cursor \in Int /\ w = [cursor |-> w.cursor, slot |-> w.slot] /\ e.to \in Int
  BY DEF Walkers, Spans
<1>2. Later(w.cursor, e.to) \in Int
  BY <1>1 DEF Later
<1>3. CASE w.slot # NoSlot
  <2>1. Walk(length, w, e) = w
    BY <1>3 DEF Walk
  <2>2. QED
    BY <1>3, <2>1
<1>4. CASE w.slot = NoSlot /\ e.from - w.cursor >= length
  <2>1. Walk(length, w, e) = [w EXCEPT !.slot = w.cursor]
    BY <1>4 DEF Walk
  <2>2. [w EXCEPT !.slot = w.cursor] = [cursor |-> w.cursor, slot |-> w.cursor]
    BY <1>1
  <2>3. QED
    BY <1>1, <1>4, <2>1, <2>2 DEF Walkers
<1>5. CASE w.slot = NoSlot /\ ~(e.from - w.cursor >= length)
  <2>1. Walk(length, w, e) = [w EXCEPT !.cursor = Later(w.cursor, e.to)]
    BY <1>5 DEF Walk
  <2>2. [w EXCEPT !.cursor = Later(w.cursor, e.to)]
          = [cursor |-> Later(w.cursor, e.to), slot |-> NoSlot]
    BY <1>1, <1>5
  <2>3. QED
    BY <1>1, <1>2, <1>5, <2>1, <2>2 DEF Walkers
<1>6. QED
  BY <1>3, <1>4, <1>5

\* The slot that a walk ends with.
Offer(w, window, length) ==
  IF w.slot = NoSlot /\ window.to - w.cursor >= length THEN w.cursor ELSE w.slot

LEMMA FirstFreeWalks ==
  ASSUME NEW window, Bounded(window), NEW length \in Nat, NEW events, NoSlot \notin Int,
         NEW N \in Nat, N = Len(InOrder(Busy(window, events))),
         NEW busy \in [1 .. N -> Spans], busy = InOrder(Busy(window, events))
  PROVE  \E F \in [0 .. N -> Walkers] :
           /\ Walking(F, window, length, busy, N)
           /\ FirstFree(window, length, events) = Offer(F[N], window, length)
<1> DEFINE b == [cursor |-> window.from, slot |-> NoSlot]
           g == [n \in 1 .. N |-> [w \in Walkers |-> Walk(length, w, busy[n])]]
           D(f) == [n \in 0 .. N |-> IF n = 0 THEN [cursor |-> window.from, slot |-> NoSlot]
                                     ELSE Walk(length, f[n - 1], busy[n])]
           F == CHOOSE f : f = D(f)
<1>1. b \in Walkers
  BY DEF Walkers, Spans, Bounded
<1>2. \A n \in 1 .. N, w \in Walkers : Walk(length, w, busy[n]) \in Walkers
  BY WalkType
<1>3. g \in [1 .. N -> [Walkers -> Walkers]]
  BY <1>2
<1>4. PICK f : Recursion(f, Walkers, N, b, g)
  <2> HIDE DEF g, b
  <2>1. QED
    BY <1>1, <1>3, RecursionExists
<1>5. \A n \in 1 .. N : f[n] = Walk(length, f[n - 1], busy[n])
  <2> SUFFICES ASSUME NEW n \in 1 .. N PROVE f[n] = Walk(length, f[n - 1], busy[n])
    OBVIOUS
  <2>1. f[n - 1] \in Walkers /\ f[n] = g[n][f[n - 1]]
    BY <1>4 DEF Recursion
  <2>2. QED
    BY <2>1
<1>6. f = D(f)
  <2>1. ASSUME NEW n \in 0 .. N
        PROVE  f[n] = IF n = 0 THEN [cursor |-> window.from, slot |-> NoSlot]
                      ELSE Walk(length, f[n - 1], busy[n])
    <3>1. CASE n = 0
      BY <1>4, <3>1 DEF Recursion
    <3>2. CASE n # 0
      BY <1>5, <3>2
    <3>3. QED
      BY <3>1, <3>2
  <2>2. QED
    BY <1>4, <2>1 DEF Recursion
<1>7. F = D(F)
  <2> HIDE DEF D
  <2>1. QED
    BY <1>6
<1>8. FirstFree(window, length, events) = Offer(F[N], window, length)
  BY DEF FirstFree, Offer
<1>9. Walking(F, window, length, busy, N)
  <2>1. \A h : D(h)[0] = b /\ \A n \in 1 .. N : D(h)[n] = Walk(length, h[n - 1], busy[n])
    OBVIOUS
  <2> HIDE DEF D, F
  <2>2. QED
    BY <1>7, <2>1 DEF Walking
<1>10. F \in [0 .. N -> Walkers]
  <2> DEFINE U == {n \in 0 .. N : F[n] \in Walkers}
  <2>1. F = [n \in 0 .. N |-> D(F)[n]]
    <3> HIDE DEF F
    <3>1. QED
      BY <1>7
  <2> HIDE DEF F, D
  <2>2. 0 \in U
    BY <1>1, <1>9 DEF Walking
  <2>3. ASSUME NEW n \in 0 .. N, n \in U, n < N
        PROVE  n + 1 \in U
    <3>1. n + 1 \in 1 .. N /\ n + 1 \in 0 .. N /\ (n + 1) - 1 = n
      BY <2>3
    <3>2. F[n + 1] = Walk(length, F[n], busy[n + 1])
      BY <1>9, <3>1 DEF Walking
    <3>3. QED
      BY <1>2, <2>3, <3>1, <3>2
  <2> HIDE DEF U
  <2>4. 0 .. N \subseteq U
    BY <2>2, <2>3, RangeSetInduction
  <2>5. \A n \in 0 .. N : D(F)[n] \in Walkers
    BY <1>7, <2>4 DEF U
  <2>6. QED
    BY <2>1, <2>5
<1> HIDE DEF F
<1>11. QED
  BY <1>8, <1>9, <1>10

\* A gap of a length from t on overlaps a span; or it touches none of a set.
Clashes(t, length, e) == t + length > e.from /\ e.to > t
Taken(t, length, B) == \E e \in B : Clashes(t, length, e)

\* Once n events are behind the walk, its cursor is behind them all and what is
\* before the cursor is taken; a slot that was found is free, ends before some
\* event, and what is before it is taken.
WalkInv(w, n, window, length, busy, B) ==
  /\ w \in Walkers /\ window.from <= w.cursor
  /\ w.slot = NoSlot => \A i \in 1 .. n : busy[i].to <= w.cursor
  /\ w.slot = NoSlot => \A t \in window.from .. w.cursor - 1 : Taken(t, length, B)
  /\ w.slot # NoSlot =>
       /\ window.from <= w.slot
       /\ \A t \in window.from .. w.slot - 1 : Taken(t, length, B)
       /\ ~ Taken(w.slot, length, B)
       /\ \E e \in B : w.slot + length <= e.from

LEMMA WalkStep ==
  ASSUME NoSlot \notin Int, NEW window, Bounded(window), NEW length \in Nat,
         NEW B, B \subseteq Spans,
         NEW N \in Nat, NEW busy \in [1 .. N -> B],
         \A e \in B : \E i \in 1 .. N : busy[i] = e,
         \A i, j \in 1 .. N : i < j => Before(busy[i], busy[j]),
         NEW n \in 0 .. N - 1, NEW w, WalkInv(w, n, window, length, busy, B)
  PROVE  WalkInv(Walk(length, w, busy[n + 1]), n + 1, window, length, busy, B)
<1> DEFINE e == busy[n + 1]
           v == Walk(length, w, e)
<1>1. n + 1 \in 1 .. N /\ e \in B /\ e \in Spans /\ w \in Walkers
  BY DEF WalkInv
<1>2. /\ v \in Walkers
      /\ w.slot # NoSlot => v = w
      /\ w.slot = NoSlot /\ e.from - w.cursor >= length =>
           v = [cursor |-> w.cursor, slot |-> w.cursor]
      /\ w.slot = NoSlot /\ ~(e.from - w.cursor >= length) =>
           v = [cursor |-> Later(w.cursor, e.to), slot |-> NoSlot]
  <2> HIDE DEF e
  <2>1. QED
    BY <1>1, WalkType
<1>3. w.cursor \in Int /\ e.from \in Int /\ e.to \in Int /\ window.from \in Int
  BY <1>1 DEF Walkers, Spans, Bounded
<1>4. CASE w.slot # NoSlot
  BY <1>2, <1>4 DEF WalkInv
<1>5. CASE w.slot = NoSlot /\ e.from - w.cursor >= length
  <2>1. v = [cursor |-> w.cursor, slot |-> w.cursor]
    BY <1>2, <1>5
  <2>2. v.cursor = w.cursor /\ v.slot = w.cursor /\ v.slot # NoSlot
    BY <1>3, <2>1
  <2>3. ASSUME NEW d \in B PROVE ~ Clashes(w.cursor, length, d)
    <3>1. PICK i \in 1 .. N : busy[i] = d
      OBVIOUS
    <3>2. d.from \in Int /\ d.to \in Int
      BY DEF Spans, Bounded
    <3>3. CASE i \in 1 .. n
      <4>1. busy[i].to <= w.cursor
        BY <1>5, <3>3 DEF WalkInv
      <4>2. QED
        BY <1>3, <3>1, <3>2, <4>1 DEF Clashes
    <3>4. CASE i = n + 1
      BY <1>3, <1>5, <3>1, <3>2, <3>4 DEF Clashes
    <3>5. CASE i > n + 1
      <4>1. Before(e, d)
        BY <1>1, <3>1, <3>5
      <4>2. e.from <= d.from
        BY <1>3, <3>2, <4>1 DEF Before
      <4>3. QED
        BY <1>3, <1>5, <3>2, <4>2 DEF Clashes
    <3>6. QED
      BY <3>3, <3>4, <3>5
  <2>4. w.cursor + length <= e.from
    BY <1>3, <1>5
  <2>5. /\ window.from <= w.cursor
        /\ \A t \in window.from .. w.cursor - 1 : Taken(t, length, B)
    BY <1>5 DEF WalkInv
  <2> HIDE DEF v, e
  <2>6. QED
    BY <1>1, <1>2, <2>2, <2>3, <2>4, <2>5 DEF WalkInv, Taken, v, e
<1>6. CASE w.slot = NoSlot /\ ~(e.from - w.cursor >= length)
  <2>1. v.cursor = Later(w.cursor, e.to) /\ v.slot = NoSlot
    BY <1>2, <1>6
  <2>2. Later(w.cursor, e.to) \in Int /\ w.cursor <= Later(w.cursor, e.to)
        /\ e.to <= Later(w.cursor, e.to)
        /\ (Later(w.cursor, e.to) = w.cursor \/ Later(w.cursor, e.to) = e.to)
    BY <1>3 DEF Later
  <2>3. ASSUME NEW i \in 1 .. n + 1 PROVE busy[i].to <= Later(w.cursor, e.to)
    <3>1. CASE i = n + 1
      BY <2>2, <3>1
    <3>2. CASE i \in 1 .. n
      <4>1. busy[i].to <= w.cursor
        BY <1>6, <3>2 DEF WalkInv
      <4>2. busy[i] \in Spans
        BY <3>2
      <4>3. QED
        BY <1>3, <2>2, <4>1, <4>2 DEF Spans
    <3>3. QED
      BY <3>1, <3>2
  <2>4. ASSUME NEW t \in window.from .. Later(w.cursor, e.to) - 1
        PROVE  Taken(t, length, B)
    <3>1. CASE t < w.cursor
      <4>1. t \in window.from .. w.cursor - 1
        BY <1>3, <2>2, <3>1
      <4>2. QED
        BY <1>6, <4>1 DEF WalkInv
    <3>2. CASE w.cursor <= t
      <4>1. Clashes(t, length, e)
        BY <1>3, <1>6, <2>2, <3>2 DEF Clashes
      <4>2. QED
        BY <1>1, <4>1 DEF Taken
    <3>3. QED
      BY <1>3, <2>2, <3>1, <3>2
  <2>5. window.from <= w.cursor
    BY DEF WalkInv
  <2>6. window.from <= v.cursor
    BY <1>3, <2>1, <2>2, <2>5
  <2> HIDE DEF v, e
  <2>7. QED
    BY <1>2, <2>1, <2>3, <2>4, <2>6 DEF WalkInv, v, e
<1>7. QED
  BY <1>4, <1>5, <1>6

\* Where no event is in the way of the cut ones none is in the way at all, and
\* where one of the cut ones is in the way an event is.
LEMMA CutEvents ==
  ASSUME NEW window, Bounded(window), NEW length \in Nat \ {0}, NEW events,
         \A v \in events : Bounded(v),
         NEW s \in Int, window.from <= s, s + length <= window.to
  PROVE  Fits(s, window, length, events) <=> ~ Taken(s, length, Busy(window, events))
<1> DEFINE Cut(v) == [from |-> Later(v.from, window.from), to |-> Sooner(v.to, window.to)]
<1>1. \A v \in events : v.from \in Int /\ v.to \in Int
  BY DEF Bounded
<1>2. window.from \in Int /\ window.to \in Int
  BY DEF Spans, Bounded
<1>3. ASSUME NEW v \in events
      PROVE  (v.to > v.from /\ Clashes(s, length, v))
               <=> (Cut(v).to > Cut(v).from /\ Clashes(s, length, Cut(v)))
  <2>1. Cut(v).from = Later(v.from, window.from) /\ Cut(v).to = Sooner(v.to, window.to)
    OBVIOUS
  <2>2. QED
    BY <1>1, <1>2, <2>1 DEF Clashes, Later, Sooner
<1>4. \A c : c \in Busy(window, events) <=>
               \E v \in events : v.timed /\ c = Cut(v) /\ c.to > c.from
  BY DEF Busy
<1>5. Taken(s, length, Busy(window, events)) <=>
        \E v \in events : v.timed /\ Cut(v).to > Cut(v).from /\ Clashes(s, length, Cut(v))
  <2> HIDE DEF Cut
  <2>1. QED
    BY <1>4 DEF Taken
<1>6. Fits(s, window, length, events) <=>
        ~ \E v \in events : v.timed /\ v.to > v.from /\ Clashes(s, length, v)
  BY <1>1, <1>2 DEF Fits, Clashes
<1> HIDE DEF Cut
<1>7. QED
  BY <1>3, <1>5, <1>6

LEMMA BusySpans ==
  ASSUME NEW window, Bounded(window), NEW events, \A v \in events : Bounded(v),
         IsFiniteSet(events)
  PROVE  /\ Busy(window, events) \subseteq Spans /\ IsFiniteSet(Busy(window, events))
         /\ \A e \in Busy(window, events) : e.to <= window.to
<1> DEFINE V == {u \in events : u.timed}
           C == {[from |-> Later(v.from, window.from), to |-> Sooner(v.to, window.to)] :
                   v \in V}
<1>1. IsFiniteSet(V)
  BY FS_Subset
<1>2. IsFiniteSet(C)
  <2> DEFINE f == [v \in V |-> [from |-> Later(v.from, window.from),
                                to |-> Sooner(v.to, window.to)]]
  <2> HIDE DEF V
  <2>1. f \in Surjection(V, C)
    BY DEF Surjection
  <2> HIDE DEF f, C
  <2>2. QED
    BY <1>1, <2>1, FS_Surjection
<1>3. Busy(window, events) = {e \in C : e.to > e.from}
  BY DEF Busy
<1>4. C \subseteq Spans /\ \A e \in C : e.to <= window.to
  BY DEF Spans, Bounded, Later, Sooner
<1> HIDE DEF C
<1>5. QED
  BY <1>2, <1>3, <1>4, FS_Subset

\* _first_free_slot offers the first slot that is free, of any calendar.
LEMMA FirstFreeIsFirst ==
  ASSUME NoSlot \notin Int, NEW window, Bounded(window), NEW length \in Nat \ {0},
         NEW events, \A v \in events : Bounded(v), IsFiniteSet(events)
  PROVE  /\ FirstFree(window, length, events) \in Int \cup {NoSlot}
         /\ IsFirstFree(FirstFree(window, length, events), window, length, events)
<1> DEFINE B == Busy(window, events)
           busy == InOrder(B)
           N == Cardinality(B)
<1>1. B \subseteq Spans /\ IsFiniteSet(B) /\ \A e \in B : e.to <= window.to
  BY BusySpans
<1>2. N \in Nat
  BY <1>1, FS_CardinalityType
<1>3. Sorted(busy, B)
  <2> HIDE DEF B
  <2>1. QED
    BY <1>1, InOrderSorted
<1>4. /\ busy \in [1 .. N -> B]
      /\ \A e \in B : \E i \in 1 .. N : busy[i] = e
      /\ \A i, j \in 1 .. N : i < j => Before(busy[i], busy[j])
  BY <1>3 DEF Sorted
<1>5. busy \in [1 .. N -> Spans]
  <2> HIDE DEF B, busy, N
  <2>1. QED
    BY <1>1, <1>4
<1>6. Len(busy) = N
  <2> HIDE DEF B, busy, N
  <2>1. DOMAIN busy = 1 .. N
    BY <1>4
  <2>2. busy \in Seq(Spans)
    BY <1>2, <1>5
  <2>3. QED
    BY <1>2, <2>1, <2>2
<1>7. PICK F \in [0 .. N -> Walkers] :
        /\ Walking(F, window, length, busy, N)
        /\ FirstFree(window, length, events) = Offer(F[N], window, length)
  <2> HIDE DEF N
  <2>1. N = Len(InOrder(Busy(window, events))) /\ busy = InOrder(Busy(window, events))
    BY <1>6
  <2> HIDE DEF busy
  <2>2. QED
    BY <1>2, <1>5, <2>1, FirstFreeWalks
<1> HIDE DEF busy, N
<1> DEFINE U == {n \in 0 .. N : WalkInv(F[n], n, window, length, busy, B)}
<1>8. window.from \in Int /\ window.to \in Int
  BY DEF Spans, Bounded
<1>9. 0 \in U
  <2>1. F[0] = [cursor |-> window.from, slot |-> NoSlot]
    BY <1>7 DEF Walking
  <2>2. F[0] \in Walkers
    BY <1>2, <1>7
  <2> HIDE DEF B
  <2>3. WalkInv(F[0], 0, window, length, busy, B)
    BY <1>8, <2>1, <2>2 DEF WalkInv
  <2>4. QED
    BY <1>2, <2>3
<1>10. ASSUME NEW n \in 0 .. N, n \in U, n < N
       PROVE  n + 1 \in U
  <2>1. n + 1 \in 1 .. N /\ n + 1 \in 0 .. N /\ (n + 1) - 1 = n /\ n \in 0 .. N - 1
    BY <1>2, <1>10
  <2>2. F[n + 1] = Walk(length, F[n], busy[n + 1])
    BY <1>7, <2>1 DEF Walking
  <2>3. WalkInv(F[n], n, window, length, busy, B)
    BY <1>10
  <2> HIDE DEF B, U
  <2>4. WalkInv(Walk(length, F[n], busy[n + 1]), n + 1, window, length, busy, B)
    BY <1>1, <1>2, <1>4, <2>1, <2>3, WalkStep
  <2>5. QED
    BY <2>1, <2>2, <2>4 DEF U
<1>11. WalkInv(F[N], N, window, length, busy, B)
  <2> HIDE DEF U
  <2>1. 0 .. N \subseteq U
    BY <1>2, <1>9, <1>10, RangeSetInduction
  <2>2. QED
    BY <1>2, <2>1 DEF U
<1> DEFINE w == F[N]
           s == FirstFree(window, length, events)
<1>12. /\ w \in Walkers /\ w.cursor \in Int /\ w.slot \in Int \cup {NoSlot}
       /\ s = Offer(w, window, length)
  BY <1>7, <1>11 DEF WalkInv, Walkers
<1>13. \A t \in Int : window.from <= t /\ t + length <= window.to =>
         (Fits(t, window, length, events) <=> ~ Taken(t, length, B))
  BY CutEvents
<1> HIDE DEF B, s, w
<1>14. \A e \in B : e.from \in Int /\ e.to \in Int /\ e.to <= window.to
  BY <1>1 DEF Spans
<1>15. B = Busy(window, events) /\ \A e \in B : e.to > e.from
  BY DEF B, Busy
<1> DEFINE Starts == {t \in window.from .. window.to : Fits(t, window, length, events)}
<1>16. \A t \in Starts : t \in Int /\ window.from <= t /\ t + length <= window.to
  BY <1>8 DEF Fits
<1>17. CASE w.slot # NoSlot
  <2>1. s = w.slot /\ s \in Int
    BY <1>12, <1>17 DEF Offer
  <2>2. /\ window.from <= s /\ ~ Taken(s, length, B)
        /\ \A t \in window.from .. s - 1 : Taken(t, length, B)
        /\ \E e \in B : s + length <= e.from
    BY <1>11, <1>17, <2>1 DEF WalkInv, w
  <2>3. s + length <= window.to
    BY <1>8, <1>14, <1>15, <2>1, <2>2
  <2>4. s \in Starts
    BY <1>8, <1>13, <2>1, <2>2, <2>3
  <2>5. ASSUME NEW t \in Starts PROVE s <= t
    <3>1. ~ Taken(t, length, B) /\ t \in Int /\ window.from <= t
      BY <1>13, <1>16
    <3>2. QED
      BY <1>8, <2>1, <2>2, <3>1
  <2>6. QED
    BY <2>1, <2>4, <2>5 DEF IsFirstFree, s
<1>18. CASE w.slot = NoSlot
  <2>1. /\ window.from <= w.cursor
        /\ \A i \in 1 .. N : busy[i].to <= w.cursor
        /\ \A t \in window.from .. w.cursor - 1 : Taken(t, length, B)
    BY <1>11, <1>18 DEF WalkInv, w
  <2>2. \A e \in B : e.to <= w.cursor
    BY <1>4, <2>1 DEF B
  <2>3. ASSUME NEW t \in Starts PROVE w.cursor <= t
    <3>1. ~ Taken(t, length, B) /\ t \in Int /\ window.from <= t
      BY <1>13, <1>16
    <3>2. QED
      BY <1>8, <1>12, <2>1, <3>1
  <2>4. CASE window.to - w.cursor >= length
    <3>1. s = w.cursor
      BY <1>12, <1>18, <2>4 DEF Offer
    <3>2. ~ Taken(w.cursor, length, B)
      BY <1>12, <1>14, <2>2 DEF Taken, Clashes
    <3>3. w.cursor \in Starts
      BY <1>8, <1>12, <1>13, <2>1, <2>4, <3>2
    <3>4. QED
      BY <1>12, <2>3, <3>1, <3>3 DEF IsFirstFree, s
  <2>5. CASE ~ (window.to - w.cursor >= length)
    <3>1. s = NoSlot
      BY <1>12, <1>18, <2>5 DEF Offer
    <3>2. Starts = {}
      BY <1>8, <1>12, <1>16, <2>3, <2>5
    <3>3. QED
      BY <3>1, <3>2 DEF IsFirstFree, s
  <2>6. QED
    BY <2>4, <2>5
<1>19. QED
  BY <1>17, <1>18

\* The moments meant, and the times that are compared.
LEMMA TimesRead ==
  ASSUME NEW x \in Windows(Int, Int) \cup Events(Int, Int)
  PROVE  /\ x.from \in Int /\ x.to \in Int /\ x.zone \in Int
         /\ Moments(x).from = x.from - x.zone /\ Moments(x).to = x.to - x.zone
         /\ Aware(x) => Parsed(x) = Moments(x)
         /\ ~Aware(x) => Parsed(x) = x
         /\ Bounded(Parsed(x)) /\ Bounded(Moments(x))
         /\ x \in Events(Int, Int) => Moments(x).timed = x.timed /\ Parsed(x).timed = x.timed
<1>1. CASE x \in Windows(Int, Int)
  <2>1. x \notin Events(Int, Int)
    <3>1. DOMAIN x = {"from", "to", "zone"}
      BY <1>1 DEF Windows
    <3>2. x \in Events(Int, Int) => "timed" \in DOMAIN x
      BY DEF Events
    <3>3. QED
      BY <3>1, <3>2
  <2>2. QED
    BY <1>1, <2>1 DEF Windows, Moments, Parsed, Bounded
<1>2. CASE x \in Events(Int, Int)
  BY <1>2 DEF Events, Moments, Parsed, Bounded
<1>3. QED
  BY <1>1, <1>2

LEMMA ParsedFinite ==
  ASSUME NEW L, IsFiniteSet(L)
  PROVE  IsFiniteSet({Parsed(v) : v \in L})
<1> DEFINE P == {Parsed(v) : v \in L}
           f == [v \in L |-> Parsed(v)]
<1>1. f \in Surjection(L, P)
  BY DEF Surjection
<1> HIDE DEF f, P
<1>2. IsFiniteSet(P)
  BY <1>1, FS_Surjection
<1>3. QED
  BY <1>2 DEF P

\* A gap of the parsed times is the gap of the moments, moved by the offset
\* that all of them have lost.
LEMMA ClocksAgree ==
  ASSUME NEW window \in Windows(Int, Int), NEW events \in SUBSET Events(Int, Int),
         NEW length \in Nat \ {0}, OneClock(window, events),
         NEW c \in Int, c = IF Aware(window) THEN 0 ELSE window.zone,
         NEW t \in Int
  PROVE  /\ Parsed(window).from = Moments(window).from + c
         /\ Parsed(window).to = Moments(window).to + c
         /\ Fits(t + c, Parsed(window), length, {Parsed(v) : v \in Listed(window, events)})
              <=> Fits(t, Moments(window), length, {Moments(v) : v \in events})
<1> DEFINE W == Parsed(window)
           M == Moments(window)
           L == Listed(window, events)
<1>1. /\ M.from \in Int /\ M.to \in Int /\ window.zone \in Int
      /\ W.from = M.from + c /\ W.to = M.to + c
  BY TimesRead DEF Bounded
<1>2. ASSUME NEW v \in events
      PROVE  /\ Moments(v).from \in Int /\ Moments(v).to \in Int
             /\ Moments(v).timed = v.timed /\ Parsed(v).timed = v.timed
  BY TimesRead DEF Bounded
<1>3. ASSUME NEW v \in L, v.timed
      PROVE  /\ Parsed(v).from = Moments(v).from + c
             /\ Parsed(v).to = Moments(v).to + c
  <2>1. v \in events /\ (v.zone = window.zone \/ (Aware(v) /\ Aware(window)))
    BY <1>3 DEF OneClock, Listed
  <2>2. /\ v.from \in Int /\ v.to \in Int /\ v.zone \in Int
        /\ Moments(v).from = v.from - v.zone /\ Moments(v).to = v.to - v.zone
        /\ Aware(v) => Parsed(v) = Moments(v)
        /\ ~Aware(v) => Parsed(v) = v
    BY <2>1, TimesRead
  <2>3. CASE Aware(v)
    <3>1. c = 0
      BY <2>1, <2>3 DEF Aware
    <3>2. QED
      BY <2>2, <2>3, <3>1
  <2>4. CASE ~Aware(v)
    <3>1. c = v.zone
      BY <2>1, <2>4 DEF Aware
    <3>2. QED
      BY <2>2, <2>4, <3>1
  <2>5. QED
    BY <2>3, <2>4
<1>4. \A v \in events : v \in L <=> Moments(v).to > M.from /\ Moments(v).from < M.to
  BY DEF Listed
<1>5. L \subseteq events
  BY DEF Listed
<1>6. Fits(t + c, W, length, {Parsed(v) : v \in L}) <=>
        /\ W.from <= t + c /\ t + c + length <= W.to
        /\ \A v \in L : v.timed /\ Parsed(v).to > Parsed(v).from =>
             t + c + length <= Parsed(v).from \/ Parsed(v).to <= t + c
  BY <1>2, <1>5 DEF Fits
<1>7. Fits(t, M, length, {Moments(v) : v \in events}) <=>
        /\ M.from <= t /\ t + length <= M.to
        /\ \A v \in events : v.timed /\ Moments(v).to > Moments(v).from =>
             t + length <= Moments(v).from \/ Moments(v).to <= t
  BY <1>2 DEF Fits
<1> HIDE DEF W, M, L
<1>8. (W.from <= t + c /\ t + c + length <= W.to) <=> (M.from <= t /\ t + length <= M.to)
  BY <1>1
<1>9. ASSUME M.from <= t, t + length <= M.to
      PROVE  (\A v \in L : v.timed /\ Parsed(v).to > Parsed(v).from =>
                t + c + length <= Parsed(v).from \/ Parsed(v).to <= t + c)
             <=> (\A v \in events : v.timed /\ Moments(v).to > Moments(v).from =>
                    t + length <= Moments(v).from \/ Moments(v).to <= t)
  <2>1. ASSUME NEW v \in L, v.timed
        PROVE  (Parsed(v).to > Parsed(v).from =>
                  t + c + length <= Parsed(v).from \/ Parsed(v).to <= t + c)
               <=> (Moments(v).to > Moments(v).from =>
                      t + length <= Moments(v).from \/ Moments(v).to <= t)
    <3>1. v \in events
      BY <1>5
    <3>2. QED
      BY <1>2, <1>3, <2>1, <3>1
  <2>2. ASSUME NEW v \in events, v \notin L
        PROVE  t + length <= Moments(v).from \/ Moments(v).to <= t
    BY <1>1, <1>2, <1>4, <1>9, <2>2
  <2>3. QED
    BY <1>5, <2>1, <2>2
<1>10. QED
  BY <1>1, <1>6, <1>7, <1>8, <1>9 DEF W, M, L

\* find_free_slot names the first moment that is free, of any calendar whose
\* times are on one clock.
LEMMA FreeSlotIsFirst ==
  ASSUME NoSlot \notin Int, NEW window \in Windows(Int, Int), NEW length \in Nat \ {0},
         NEW events \in SUBSET Events(Int, Int), IsFiniteSet(events)
  PROVE  /\ FreeSlotOf(window, length, events) \in Int \cup {NoSlot}
         /\ OneClock(window, events) =>
              IsFirstFree(Named(FreeSlotOf(window, length, events), window),
                          Moments(window), length, {Moments(v) : v \in events})
<1> DEFINE W == Parsed(window)
           M == Moments(window)
           L == Listed(window, events)
           P == {Parsed(v) : v \in L}
           D == {Moments(v) : v \in events}
           s == FreeSlotOf(window, length, events)
<1>1. L \subseteq events /\ IsFiniteSet(L)
  BY FS_Subset DEF Listed
<1>2. IsFiniteSet(P)
  BY <1>1, ParsedFinite
<1>3. Bounded(W) /\ Bounded(M) /\ \A v \in P : Bounded(v)
  BY <1>1, TimesRead
<1>4. s = FirstFree(W, length, P)
  BY DEF FreeSlotOf
<1> HIDE DEF W, P, s
<1>5. s \in Int \cup {NoSlot} /\ IsFirstFree(s, W, length, P)
  BY <1>2, <1>3, <1>4, FirstFreeIsFirst
<1>6. ASSUME OneClock(window, events)
      PROVE  IsFirstFree(Named(s, window), M, length, D)
  <2> DEFINE c == IF Aware(window) THEN 0 ELSE window.zone
             Here == {t \in W.from .. W.to : Fits(t, W, length, P)}
             There == {t \in M.from .. M.to : Fits(t, M, length, D)}
  <2>1. c \in Int /\ M.from \in Int /\ M.to \in Int
    BY <1>3, TimesRead DEF Bounded
  <2>2. \A t \in Int : Fits(t + c, W, length, P) <=> Fits(t, M, length, D)
    BY <1>6, <2>1, ClocksAgree DEF W, P
  <2>3. W.from = M.from + c /\ W.to = M.to + c
    BY <1>6, <2>1, ClocksAgree DEF W
  <2>4. s # NoSlot => Named(s, window) = s - c
    BY <1>5, TimesRead DEF Named
  <2>5. s = NoSlot => Named(s, window) = NoSlot
    BY DEF Named
  <2> HIDE DEF c, D, M
  <2>6. \A t \in Int : t \in There <=> t + c \in Here
    BY <2>1, <2>2, <2>3
  <2>7. \A t \in Here : t \in Int /\ t - c \in Int /\ (t - c) + c = t
    BY <2>1, <2>3
  <2>8. \A t \in There : t \in Int /\ t + c \in Int
    BY <2>1
  <2>9. IF Here = {} THEN s = NoSlot ELSE s \in Here /\ \A t \in Here : s <= t
    BY <1>5 DEF IsFirstFree
  <2> HIDE DEF Here, There
  <2>10. CASE Here = {}
    <3>1. There = {}
      BY <2>6, <2>8, <2>10
    <3>2. QED
      BY <2>5, <2>9, <2>10, <3>1 DEF IsFirstFree, There
  <2>11. CASE Here # {}
    <3>1. s \in Here /\ s \in Int /\ s # NoSlot /\ \A t \in Here : s <= t
      BY <2>7, <2>9, <2>11
    <3>2. Named(s, window) = s - c /\ s - c \in There
      BY <2>1, <2>4, <2>6, <2>7, <3>1
    <3>3. \A t \in There : s - c <= t
      BY <2>1, <2>6, <2>8, <3>1
    <3>4. QED
      BY <3>2, <3>3 DEF IsFirstFree, There
  <2>12. QED
    BY <2>10, <2>11
<1>7. QED
  BY <1>5, <1>6 DEF s

----
\* Types

Replies ==
  /\ pc \in [Runs -> Labels]
  /\ row \in [Runs -> Status]
  /\ plan \in [Runs -> Answers \cup {NoAnswer}]
  /\ out \in [Runs -> Answers \cup {NoAnswer}]

Labours ==
  /\ todo \in [Runs -> Seq(Nat)]
  /\ ready \in [Runs -> Seq(Nat)]
  /\ effects \in [Runs -> Seq(Nat)]
  /\ count \in [Runs -> [done : Nat, failed : Nat]]
  /\ rounds \in [Runs -> 0 .. MaxRounds]

Around ==
  /\ ask \in Loads
  /\ live \in [Targets -> Runs \cup {Previous}]
  /\ observed \in Nat
  /\ seen \in [Runs -> {"none", "counted", "read", "unread"}]
  /\ extracted \in BOOLEAN
  /\ activity \in [Runs -> {"none", "success", "failure"}]
  /\ stopping \subseteq Runs

Rows == [run : Runs, status : Status]

Log ==
  /\ logs \in Seq(Rows)
  /\ published \in Seq(Runs)
  /\ at \in [Clients -> {"replay", "subscribe", "listen"}]
  /\ view \in [Clients -> Seq(Runs)]
  /\ inbox \in [Clients -> Seq(Runs)]
  /\ known \in [Clients -> Nat]
  /\ heard \in [Clients -> Nat]

Typed == Replies /\ Labours /\ Around /\ Log

----
\* What holds of each run

Senders == {"echo", "pm", "catch", "reach", "sentinel", "mark"}

\* Nothing has been done yet; something may have been; the answer is there.
Preparing ==
  {"context", "ollama", "claude", "transcribe", "fetch", "review", "discover",
   "personalise", "rewrite", "deploy", "rollback", "test", "gather", "scan",
   "keep", "page", "list", "create"}
Acting == {"send", "chat", "tools", "mirror", "observe", "threshold"}
Working == Preparing \cup Acting
Telling == {"log", "publish", "record", "done", "stopped"}

\* Items are done in their order, none of them twice.
Increasing(s) == \A i, j \in DOMAIN s : i < j => s[i] < s[j]
Ahead(s, t) == \A i \in DOMAIN s, j \in DOMAIN t : s[i] < t[j]

Untried(r) == effects[r] = <<>> /\ count[r].done = 0 /\ count[r].failed = 0

\* What a run awaits says which agent it is, what it was asked, and what it
\* still has to do.
PlaceInv(r) ==
  /\ pc[r] = "context" => rounds[r] = 0
  /\ pc[r] \in {"chat", "tools"} => rounds[r] < MaxRounds
  /\ pc[r] = "tools" => Agent(r) = "forge"
  /\ pc[r] = "send" => Agent(r) \in Senders /\ Has(r, "send") /\ todo[r] # <<>>
  /\ pc[r] \in {"create", "mirror"} =>
       Agent(r) = "calendar" /\ (Has(r, "attendees") => Has(r, "send"))
  /\ pc[r] \in {"deploy", "rollback"} => Agent(r) = "titan" /\ Mode(r) \in Targets
  /\ pc[r] \in {"personalise", "rewrite", "page"} => todo[r] # <<>>
  /\ pc[r] = "test" => Mode(r) \in Modes["qt"] \ {"generate", "unknown"}
  /\ r \in stopping => pc[r] \in {"record", "stopped"}

\* What it has done and what it has counted of that.
Kept(r) ==
  /\ Increasing(effects[r])
  /\ Gated(r) /\ effects[r] # <<>> => Has(r, "send")
  /\ Agent(r) \in Senders =>
       /\ count[r].done <= Len(effects[r])
       /\ Len(effects[r]) <= count[r].done + count[r].failed
                               + (IF r \in stopping THEN 1 ELSE 0)

DeedsInv(r) ==
  /\ Kept(r)
  /\ pc[r] \in Preparing \cup {"alert"} => Untried(r)
  /\ pc[r] \in {"chat", "tools"} => effects[r] \in {<<>>, <<1>>}
  /\ pc[r] = "mirror" => effects[r] = <<1>>
  /\ pc[r] \in {"context", "discover"} => ready[r] = <<>>
  /\ pc[r] \in {"personalise", "rewrite"} =>
       Increasing(ready[r]) /\ Increasing(todo[r]) /\ Ahead(ready[r], todo[r])
  /\ pc[r] = "send" => Increasing(todo[r]) /\ Ahead(effects[r], todo[r])
  /\ pc[r] = "send" /\ Agent(r) \in {"echo", "sentinel"} =>
       Len(todo[r]) = 1 /\ Untried(r)

\* What an answer claims is so.
Sound(r, a) ==
  a # NoAnswer =>
    /\ a.held /\ Agent(r) # "titan" => effects[r] = <<>> /\ ~Has(r, "send")
    /\ Agent(r) \in Senders =>
         /\ ~a.ok => count[r].done = 0
         /\ a.ok /\ effects[r] = <<>> =>
              \/ a.held
              \/ Agent(r) = "reach"
              \/ Agent(r) = "catch" /\ count[r].failed = 0
    /\ a.undone => Mode(r) \in Targets /\ live[Mode(r)] # r
    /\ a.slot # Unasked /\ OneClock(ask[r].window, ask[r].events) =>
         IsFirstFree(Named(a.slot, ask[r].window), Asked(r), Length, Diary(r))

\* An answer is there when it is due and not before.
AnswerInv(r) ==
  /\ plan[r] # NoAnswer => pc[r] \in {"alert"} \cup Telling
  /\ out[r] # NoAnswer => pc[r] \in Telling
  /\ pc[r] \in {"record", "done"} => out[r] # NoAnswer
  /\ pc[r] \in {"alert", "log", "publish"} => plan[r] # NoAnswer \/ out[r] # NoAnswer
  /\ Sound(r, plan[r]) /\ Sound(r, out[r])

Agrees(r, a) ==
  a # NoAnswer =>
    (row[r] = "success") = a.ok \/ (Agent(r) = "qt" /\ row[r] = "success")

\* A run has one row in the log, once it is logged, and it agrees with the
\* answer; so does the activity that is recorded.
StoryInv(r) ==
  /\ \A i, j \in DOMAIN logs : logs[i].run = r /\ logs[j].run = r => i = j
  /\ \A i \in DOMAIN logs : logs[i].run = r =>
       /\ pc[r] \in {"publish", "record", "done", "stopped"}
       /\ logs[i].status = row[r]
       /\ Agrees(r, out[r])
  /\ Agrees(r, plan[r])
  /\ pc[r] \in {"log", "publish"} => Agrees(r, out[r])
  /\ activity[r] # "none" =>
       /\ pc[r] \in {"done", "stopped"} /\ out[r] # NoAnswer
       /\ (activity[r] = "success") = out[r].ok

RunInv(r) == PlaceInv(r) /\ DeedsInv(r) /\ AnswerInv(r) /\ StoryInv(r)

----
\* Answers and places

LEMMA AnswerTypes ==
  /\ \A ok, held \in BOOLEAN : Answer(ok, held) \in Answers
  /\ Failed \in Answers /\ Succeeded \in Answers /\ Held \in Answers
  /\ NoAnswer \notin Answers
BY ValueAssumption DEF Answer, Answers, Failed, Succeeded, Held

LEMMA AnswerFields ==
  /\ Failed.ok = FALSE /\ Failed.held = FALSE
  /\ Failed.undone = FALSE /\ Failed.slot = Unasked
  /\ Succeeded.ok = TRUE /\ Succeeded.held = FALSE
  /\ Succeeded.undone = FALSE /\ Succeeded.slot = Unasked
  /\ Held.ok = TRUE /\ Held.held = TRUE /\ Held.undone = FALSE /\ Held.slot = Unasked
BY DEF Answer, Failed, Succeeded, Held

LEMMA AskType ==
  ASSUME NEW r \in Runs, Around
  PROVE  /\ Agent(r) \in Agents /\ Mode(r) \in Modes[Agent(r)]
         /\ ask[r].window \in Windows(Int, Int)
         /\ ask[r].events \subseteq Events(Int, Int) /\ IsFiniteSet(ask[r].events)
BY AskAssumption DEF Around, Agent, Mode

\* A run at work: what it leaves alone while it works.
AtWork(r) ==
  /\ Typed /\ RunInv(r) /\ pc[r] \in Working
  /\ UNCHANGED <<ask, activity, stopping, logVars>>

LEMMA WorkFrame ==
  ASSUME NEW r \in Runs, AtWork(r)
  PROVE  /\ plan[r] = NoAnswer /\ out[r] = NoAnswer /\ activity[r] = "none"
         /\ \A i \in DOMAIN logs : logs[i].run # r
         /\ r \notin stopping /\ Log' /\ logs' = logs
         /\ Agent(r)' = Agent(r) /\ Mode(r)' = Mode(r)
         /\ \A f : Has(r, f)' <=> Has(r, f)
         /\ Gated(r)' <=> Gated(r)
<1>1. plan[r] = NoAnswer /\ out[r] = NoAnswer
  BY DEF AtWork, RunInv, AnswerInv, Working, Preparing, Acting, Telling
<1>2. activity[r] = "none" /\ \A i \in DOMAIN logs : logs[i].run # r
  BY DEF AtWork, RunInv, StoryInv, Working, Preparing, Acting
<1>3. r \notin stopping
  BY DEF AtWork, RunInv, PlaceInv, Working, Preparing, Acting
<1>4. Log' /\ logs' = logs
  BY DEF AtWork, Typed, Log, logVars
<1>5. QED
  BY <1>1, <1>2, <1>3, <1>4 DEF AtWork, Agent, Mode, Has, Gated

\* Where it goes, and that the reply is in order there.
LEMMA GoInv ==
  ASSUME NEW r \in Runs, AtWork(r), NEW l \in Working \cup {"raised"}, Go(r, l)
  PROVE  /\ Replies' /\ AnswerInv(r)' /\ StoryInv(r)' /\ pc'[r] = l
<1>1. /\ pc' = [pc EXCEPT ![r] = l] /\ row' = row /\ plan' = plan /\ out' = out
      /\ Replies
  BY DEF Go, AtWork, Typed
<1>2. Replies' /\ pc'[r] = l
  BY <1>1 DEF Replies, Labels, Ended, Working, Preparing, Acting
<1>3. plan'[r] = NoAnswer /\ out'[r] = NoAnswer
  BY <1>1, WorkFrame
<1>4. AnswerInv(r)'
  BY <1>2, <1>3 DEF AnswerInv, Sound, Working, Preparing, Acting
<1>5. StoryInv(r)'
  BY <1>2, <1>3, WorkFrame DEF StoryInv, Agrees, Working, Preparing, Acting, AtWork
<1>6. QED
  BY <1>2, <1>4, <1>5

LEMMA ConcludeInv ==
  ASSUME NEW r \in Runs, AtWork(r), NEW s \in Status, NEW a \in Answers,
         Conclude(r, s, a), Sound(r, a)',
         (s = "success") = a.ok \/ (Agent(r) = "qt" /\ s = "success")
  PROVE  /\ Replies' /\ AnswerInv(r)' /\ StoryInv(r)' /\ pc'[r] = "log"
<1>1. /\ pc' = [pc EXCEPT ![r] = "log"] /\ row' = [row EXCEPT ![r] = s]
      /\ plan' = [plan EXCEPT ![r] = a] /\ out' = out
      /\ Replies
  BY DEF Conclude, AtWork, Typed
<1>2. Replies' /\ pc'[r] = "log" /\ row'[r] = s /\ plan'[r] = a
  BY <1>1 DEF Replies, Labels
<1>3. out'[r] = NoAnswer /\ plan'[r] # NoAnswer
  BY <1>1, <1>2, WorkFrame, AnswerTypes
<1>4. AnswerInv(r)'
  BY <1>2, <1>3 DEF AnswerInv, Sound, Telling
<1>5. StoryInv(r)'
  BY <1>2, <1>3, WorkFrame DEF StoryInv, Agrees, AtWork
<1>6. QED
  BY <1>2, <1>4, <1>5

LEMMA HandleErrorInv ==
  ASSUME NEW r \in Runs, AtWork(r), HandleError(r), Sound(r, Failed)'
  PROVE  /\ Replies' /\ AnswerInv(r)' /\ StoryInv(r)' /\ pc'[r] = "log"
<1>1. /\ pc' = [pc EXCEPT ![r] = "log"] /\ row' = [row EXCEPT ![r] = "error"]
      /\ out' = [out EXCEPT ![r] = Failed] /\ plan' = plan
      /\ Replies
  BY DEF HandleError, AtWork, Typed
<1>2. Replies' /\ pc'[r] = "log" /\ row'[r] = "error" /\ out'[r] = Failed
  BY <1>1, AnswerTypes DEF Replies, Labels, Status
<1>3. plan'[r] = NoAnswer /\ out'[r] # NoAnswer
  BY <1>1, <1>2, WorkFrame, AnswerTypes
<1>4. AnswerInv(r)'
  BY <1>2, <1>3 DEF AnswerInv, Sound, Telling
<1>5. StoryInv(r)'
  BY <1>2, <1>3, WorkFrame, AnswerFields DEF StoryInv, Agrees, AtWork
<1>6. QED
  BY <1>2, <1>4, <1>5

LEMMA GiveInv ==
  ASSUME NEW r \in Runs, AtWork(r), NEW a \in Answers, Give(r, a), Sound(r, a)'
  PROVE  /\ Replies' /\ AnswerInv(r)' /\ StoryInv(r)' /\ pc'[r] = "record"
<1>1. /\ pc' = [pc EXCEPT ![r] = "record"] /\ out' = [out EXCEPT ![r] = a]
      /\ plan' = plan /\ row' = row
      /\ Replies
  BY DEF Give, AtWork, Typed
<1>2. Replies' /\ pc'[r] = "record" /\ out'[r] = a
  BY <1>1 DEF Replies, Labels
<1>3. plan'[r] = NoAnswer /\ out'[r] # NoAnswer
  BY <1>1, <1>2, WorkFrame, AnswerTypes
<1>4. AnswerInv(r)'
  BY <1>2, <1>3 DEF AnswerInv, Sound, Telling
<1>5. StoryInv(r)'
  BY <1>2, <1>3, WorkFrame DEF StoryInv, Agrees, AtWork
<1>6. QED
  BY <1>2, <1>4, <1>5

LEMMA AlarmInv ==
  ASSUME NEW r \in Runs, AtWork(r), NEW undone \in BOOLEAN, Alarm(r, undone),
         Sound(r, Abort(r, undone))'
  PROVE  /\ Replies' /\ AnswerInv(r)' /\ StoryInv(r)' /\ pc'[r] = "alert"
<1> DEFINE a == Abort(r, undone)
<1>1. /\ pc' = [pc EXCEPT ![r] = "alert"] /\ row' = [row EXCEPT ![r] = "error"]
      /\ plan' = [plan EXCEPT ![r] = a] /\ out' = out
      /\ Replies
  BY DEF Alarm, AtWork, Typed
<1>2. a \in Answers /\ a.ok = FALSE
  BY DEF Abort, Failed, Answer, Answers
<1> HIDE DEF a
<1>3. Replies' /\ pc'[r] = "alert" /\ row'[r] = "error" /\ plan'[r] = a
  BY <1>1, <1>2 DEF Replies, Labels, Status
<1>4. out'[r] = NoAnswer /\ plan'[r] # NoAnswer
  BY <1>1, <1>2, <1>3, WorkFrame, AnswerTypes
<1>5. AnswerInv(r)'
  BY <1>3, <1>4 DEF AnswerInv, Sound, Telling, a
<1>6. StoryInv(r)'
  BY <1>2, <1>3, <1>4, WorkFrame DEF StoryInv, Agrees, AtWork
<1>7. QED
  BY <1>3, <1>5, <1>6

LEMMA WorkPasses ==
  ASSUME NEW r \in Runs, AtWork(r), effects'[r] = effects[r], count'[r] = count[r]
  PROVE  Kept(r)' /\ (Untried(r) => Untried(r)')
BY WorkFrame DEF AtWork, RunInv, DeedsInv, Kept, Untried

LEMMA WorkEnds ==
  ASSUME NEW r \in Runs, AtWork(r), Kept(r)', pc'[r] \in {"log", "record", "raised"}
  PROVE  PlaceInv(r)' /\ DeedsInv(r)'
<1>1. r \notin stopping'
  BY WorkFrame DEF AtWork
<1>2. QED
  BY <1>1 DEF PlaceInv, DeedsInv, Preparing

\* Sequences of items
LEMMA Increases ==
  ASSUME NEW s \in Seq(Nat), NEW t \in Seq(Nat), t # <<>>,
         Increasing(s), Increasing(t), Ahead(s, t)
  PROVE  /\ Head(t) \in Nat /\ Tail(t) \in Seq(Nat) /\ Append(s, Head(t)) \in Seq(Nat)
         /\ Len(Tail(t)) = Len(t) - 1 /\ Len(Append(s, Head(t))) = Len(s) + 1
         /\ Increasing(Append(s, Head(t))) /\ Increasing(Tail(t))
         /\ Ahead(s, Tail(t)) /\ Ahead(Append(s, Head(t)), Tail(t))
<1>1. /\ Head(t) = t[1] /\ 1 \in DOMAIN t /\ Tail(t) \in Seq(Nat)
      /\ Len(Tail(t)) = Len(t) - 1
      /\ \A i \in DOMAIN Tail(t) : i + 1 \in DOMAIN t /\ Tail(t)[i] = t[i + 1]
  OBVIOUS
<1>2. /\ Append(s, Head(t)) \in Seq(Nat) /\ Len(Append(s, Head(t))) = Len(s) + 1
      /\ \A i \in DOMAIN s : Append(s, Head(t))[i] = s[i]
      /\ Append(s, Head(t))[Len(s) + 1] = t[1]
      /\ DOMAIN Append(s, Head(t)) = 1 .. Len(s) + 1
      /\ DOMAIN s = 1 .. Len(s)
  BY <1>1
<1> DEFINE a == Append(s, Head(t))
           b == Tail(t)
<1>i. DOMAIN t = 1 .. Len(t) /\ DOMAIN b = 1 .. Len(b)
  BY <1>1
<1> HIDE DEF b
<1>3. Increasing(b) /\ Ahead(s, b)
  <2>1. ASSUME NEW i \in DOMAIN b, NEW j \in DOMAIN b, i < j
        PROVE  b[i] < b[j]
    <3>1. i + 1 \in DOMAIN t /\ j + 1 \in DOMAIN t /\ i + 1 < j + 1
      BY <1>1, <1>i, <2>1 DEF b
    <3>2. t[i + 1] < t[j + 1]
      BY <3>1 DEF Increasing
    <3>3. QED
      BY <1>1, <3>2 DEF b
  <2>2. ASSUME NEW i \in DOMAIN s, NEW j \in DOMAIN b
        PROVE  s[i] < b[j]
    <3>1. j + 1 \in DOMAIN t /\ b[j] = t[j + 1]
      BY <1>1 DEF b
    <3>2. QED
      BY <3>1 DEF Ahead
  <2>3. QED
    BY <2>1, <2>2 DEF Increasing, Ahead
<1>4. ASSUME NEW i \in DOMAIN a, NEW j \in DOMAIN a, i < j
      PROVE  a[i] < a[j]
  <2>1. i \in DOMAIN s
    BY <1>2, <1>4
  <2>2. CASE j \in DOMAIN s
    BY <1>2, <1>4, <2>1, <2>2 DEF Increasing
  <2>3. CASE j = Len(s) + 1
    BY <1>1, <1>2, <2>1, <2>3 DEF Ahead
  <2>4. QED
    BY <1>2, <2>2, <2>3
<1>5. ASSUME NEW i \in DOMAIN a, NEW j \in DOMAIN b
      PROVE  a[i] < b[j]
  <2>1. CASE i \in DOMAIN s
    BY <1>2, <1>3, <2>1 DEF Ahead
  <2>2. CASE i = Len(s) + 1
    <3>1. j + 1 \in DOMAIN t /\ b[j] = t[j + 1] /\ 1 < j + 1
      BY <1>1, <1>i DEF b
    <3>2. t[1] < t[j + 1]
      BY <1>1, <3>1 DEF Increasing
    <3>3. QED
      BY <1>2, <2>2, <3>1, <3>2
  <2>3. QED
    BY <1>2, <2>1, <2>2
<1>6. QED
  BY <1>1, <1>2, <1>3, <1>4, <1>5 DEF Increasing, Ahead, b

LEMMA NotEmpty ==
  ASSUME NEW s \in Seq(Nat), Len(s) # 0
  PROVE  s # <<>>
OBVIOUS

LEMMA TailLeft ==
  ASSUME NEW t \in Seq(Nat), Len(t) > 1
  PROVE  Tail(t) # <<>>
<1> DEFINE u == Tail(t)
<1>1. Len(u) = Len(t) - 1 /\ u \in Seq(Nat)
  OBVIOUS
<1> HIDE DEF u
<1>2. u # <<>>
  BY <1>1, NotEmpty
<1>3. QED
  BY <1>2 DEF u

LEMMA ItemsIncrease ==
  ASSUME NEW n \in Nat
  PROVE  Items(n) \in Seq(Nat) /\ Increasing(Items(n)) /\ Len(Items(n)) = n
         /\ (n > 0 => Items(n) # <<>>)
<1>1. Items(n) = [i \in 1 .. n |-> i]
  BY DEF Items
<1>2. Items(n) \in Seq(Nat) /\ Len(Items(n)) = n
  BY <1>1
<1>3. Increasing(Items(n))
  BY <1>1 DEF Increasing
<1>4. QED
  BY <1>2, <1>3

LEMMA NothingAhead ==
  ASSUME NEW t
  PROVE  Ahead(<<>>, t) /\ Increasing(<<>>)
BY DEF Ahead, Increasing

LEMMA BatchTypes ==
  ASSUME NEW r, Agent(r) \in Senders \ {"reach"}, NEW b \in Batches(r)
  PROVE  /\ b \in Seq(Nat) /\ Increasing(b)
         /\ Agent(r) \in {"echo", "sentinel"} => Len(b) = 1
<1>1. Agent(r) \in {"echo", "sentinel"} => b = Items(1)
  BY DEF Batches, Mail, Comments
<1>2. Agent(r) \in {"pm", "catch"} => \E n \in Nat : b = Items(n)
  BY BoundAssumption DEF Batches, Tasks, ActionItems
<1>3. Agent(r) = "mark" => b \in {<<1>>, <<2>>, <<1, 2>>, <<>>}
  BY DEF Batches, PublishTo, Github, Notion
<1>4. CASE Agent(r) \in {"echo", "sentinel"}
  BY <1>1, <1>4, ItemsIncrease
<1>5. CASE Agent(r) \in {"pm", "catch"}
  <2>1. PICK n \in Nat : b = Items(n)
    BY <1>2, <1>5
  <2>2. QED
    BY <1>5, <2>1, ItemsIncrease
<1>6. CASE Agent(r) = "mark"
  <2>1. CASE b = <<1>>
    BY <1>6, <2>1 DEF Increasing
  <2>2. CASE b = <<2>>
    BY <1>6, <2>2 DEF Increasing
  <2>3. CASE b = <<1, 2>>
    <3>1. b \in Seq(Nat) /\ DOMAIN b = {1, 2} /\ b[1] = 1 /\ b[2] = 2
      BY <2>3
    <3>2. QED
      BY <1>6, <3>1 DEF Increasing
  <2>4. CASE b = <<>>
    BY <1>6, <2>4 DEF Increasing
  <2>5. QED
    BY <1>3, <1>6, <2>1, <2>2, <2>3, <2>4
<1>7. QED
  BY <1>4, <1>5, <1>6 DEF Senders

LEMMA SentWellCases ==
  ASSUME NEW r, Agent(r) \in Senders, NEW c
  PROVE  /\ Agent(r) = "reach" => SentWell(r, c)
         /\ Agent(r) \in {"pm", "mark"} => (SentWell(r, c) <=> c.done > 0)
         /\ Agent(r) = "catch" => (SentWell(r, c) <=> c.done > 0 \/ c.failed = 0)
         /\ Agent(r) \in {"echo", "sentinel"} => (SentWell(r, c) <=> c.failed = 0)
<1>1. CASE Agent(r) = "reach"
  BY <1>1 DEF SentWell
<1>2. CASE Agent(r) \in {"pm", "mark"}
  BY <1>2 DEF SentWell
<1>3. CASE Agent(r) = "catch"
  BY <1>3 DEF SentWell
<1>4. CASE Agent(r) \in {"echo", "sentinel"}
  BY <1>4 DEF SentWell
<1>5. QED
  BY <1>1, <1>2, <1>3, <1>4 DEF Senders

\* The end of the loop, or its next turn.
LEMMA SendOrEndInv ==
  ASSUME NEW r \in Runs, AtWork(r), Agent(r) \in Senders, Has(r, "send"),
         NEW rest \in Seq(Nat), NEW c \in [done : Nat, failed : Nat],
         Labours', Around', Kept(r)',
         todo'[r] = rest, count'[r] = c,
         SendOrEnd(r, rest, c),
         rest # <<>> => Increasing(rest) /\ Ahead(effects'[r], rest),
         Agent(r) \in {"echo", "sentinel"} /\ rest = <<>> => c.done + c.failed = 1,
         Agent(r) \in {"echo", "sentinel"} /\ rest # <<>> => Len(rest) = 1 /\ Untried(r)'
  PROVE  Typed' /\ RunInv(r)'
<1>1. r \notin stopping' /\ effects'[r] \in Seq(Nat) /\ c.done \in Nat /\ c.failed \in Nat
  BY WorkFrame DEF AtWork, Labours
<1>2. CASE rest # <<>>
  <2>1. Go(r, "send")
    BY <1>2 DEF SendOrEnd
  <2>2. Replies' /\ AnswerInv(r)' /\ StoryInv(r)' /\ pc'[r] = "send"
    BY <2>1, GoInv DEF Working, Acting
  <2>3. PlaceInv(r)'
    BY <1>1, <1>2, <2>2, WorkFrame DEF PlaceInv
  <2>4. DeedsInv(r)'
    BY <1>2, <2>2, WorkFrame DEF DeedsInv, Preparing
  <2>5. QED
    BY <2>2, <2>3, <2>4, WorkFrame DEF Typed, RunInv
<1>3. CASE rest = <<>> /\ SentWell(r, c)
  <2>1. Conclude(r, "success", Succeeded)
    BY <1>3 DEF SendOrEnd, Succeed
  <2>2. effects'[r] = <<>> => c.done = 0
    BY <1>1, WorkFrame DEF Kept
  <2>3. effects'[r] = <<>> => Agent(r) = "reach" \/ (Agent(r) = "catch" /\ c.failed = 0)
    BY <1>1, <1>3, <2>2, SentWellCases DEF Senders
  <2>4. Sound(r, Succeeded)'
    BY <2>3, AnswerFields, WorkFrame DEF Sound
  <2>5. Replies' /\ AnswerInv(r)' /\ StoryInv(r)' /\ pc'[r] = "log"
    BY <2>1, <2>4, AnswerTypes, AnswerFields, ConcludeInv DEF Status
  <2>6. QED
    BY <2>5, WorkEnds, WorkFrame DEF Typed, RunInv
<1>4. CASE rest = <<>> /\ ~SentWell(r, c)
  <2>1. Conclude(r, "error", Failed)
    BY <1>4 DEF SendOrEnd, Fail
  <2>2. c.done = 0
    BY <1>1, <1>4, SentWellCases DEF Senders
  <2>3. Sound(r, Failed)'
    BY <2>2, AnswerFields, WorkFrame DEF Sound
  <2>4. Replies' /\ AnswerInv(r)' /\ StoryInv(r)' /\ pc'[r] = "log"
    BY <2>1, <2>3, AnswerTypes, AnswerFields, ConcludeInv DEF Status
  <2>5. QED
    BY <2>4, WorkEnds, WorkFrame DEF Typed, RunInv
<1>5. QED
  BY <1>2, <1>3, <1>4

----
\* Where a run begins
LEMMA OpeningPlaces ==
  ASSUME NEW r \in Runs, Around
  PROVE  /\ Opening(r) \in (Preparing \ {"context", "claude", "review", "personalise",
                                       "rewrite", "rollback", "keep", "page"})
                           \cup {"chat"}
         /\ Opening(r) = "deploy" => Agent(r) = "titan"
         /\ Opening(r) = "create" => Agent(r) = "calendar" /\ Mode(r) = "create"
         /\ Opening(r) = "test" => Agent(r) = "qt" /\ Mode(r) # "generate"
<1>1. Agent(r) \in {"titan", "mark", "qt", "calendar", "catch", "raw", "forge", "reach",
                    "pm", "echo", "sentinel", "pulse", "general"}
  BY AskType DEF Agents, Modes
<1>2. CASE Agent(r) \in {"titan", "forge", "general", "reach", "sentinel"}
  BY <1>2 DEF Opening, Preparing
<1>3. CASE Agent(r) \in {"catch", "qt", "pulse"}
  BY <1>3 DEF Opening, Preparing
<1>4. CASE Agent(r) \in {"raw", "calendar", "pm", "echo", "mark"}
  BY <1>4 DEF Opening, Preparing
<1>5. QED
  BY <1>1, <1>2, <1>3, <1>4

LEMMA ModesOf ==
  /\ Modes["titan"] = Targets \cup {"other"}
  /\ Modes["qt"] = {"pytest", "npm_audit", "playwright", "lighthouse", "generate", "unknown"}
BY DEF Modes

LEMMA UntriedFails ==
  ASSUME NEW r \in Runs, AtWork(r), Untried(r)'
  PROVE  Sound(r, Failed)'
BY AnswerFields DEF Sound, Untried

LEMMA UntriedAsks ==
  ASSUME NEW r \in Runs, AtWork(r), Untried(r)', ~Has(r, "send")
  PROVE  Sound(r, Held)'
BY AnswerFields, WorkFrame DEF Sound, Untried

LEMMA OthersSucceed ==
  ASSUME NEW r \in Runs, AtWork(r), Agent(r) \notin Senders
  PROVE  Sound(r, Succeeded)' /\ Sound(r, Failed)'
BY AnswerFields, WorkFrame DEF Sound

LEMMA FailInv ==
  ASSUME NEW r \in Runs, AtWork(r), Fail(r), Sound(r, Failed)', Kept(r)',
         Labours', Around'
  PROVE  Typed' /\ RunInv(r)'
<1>1. Conclude(r, "error", Failed)
  BY DEF Fail
<1>2. Replies' /\ AnswerInv(r)' /\ StoryInv(r)' /\ pc'[r] = "log"
  BY <1>1, AnswerTypes, AnswerFields, ConcludeInv DEF Status
<1>3. QED
  BY <1>2, WorkEnds, WorkFrame DEF Typed, RunInv

LEMMA SucceedInv ==
  ASSUME NEW r \in Runs, AtWork(r), Succeed(r), Sound(r, Succeeded)', Kept(r)',
         Labours', Around'
  PROVE  Typed' /\ RunInv(r)'
<1>1. Conclude(r, "success", Succeeded)
  BY DEF Succeed
<1>2. Replies' /\ AnswerInv(r)' /\ StoryInv(r)' /\ pc'[r] = "log"
  BY <1>1, AnswerTypes, AnswerFields, ConcludeInv DEF Status
<1>3. QED
  BY <1>2, WorkEnds, WorkFrame DEF Typed, RunInv

LEMMA AskInv ==
  ASSUME NEW r \in Runs, AtWork(r), Ask(r), Sound(r, Held)', Kept(r)',
         Labours', Around'
  PROVE  Typed' /\ RunInv(r)'
<1>1. Conclude(r, "success", Held)
  BY DEF Ask
<1>2. Replies' /\ AnswerInv(r)' /\ StoryInv(r)' /\ pc'[r] = "log"
  BY <1>1, AnswerTypes, AnswerFields, ConcludeInv DEF Status
<1>3. QED
  BY <1>2, WorkEnds, WorkFrame DEF Typed, RunInv

LEMMA ErrorInv ==
  ASSUME NEW r \in Runs, AtWork(r), HandleError(r), Sound(r, Failed)', Kept(r)',
         Labours', Around'
  PROVE  Typed' /\ RunInv(r)'
<1>1. Replies' /\ AnswerInv(r)' /\ StoryInv(r)' /\ pc'[r] = "log"
  BY HandleErrorInv
<1>2. QED
  BY <1>1, WorkEnds, WorkFrame DEF Typed, RunInv

LEMMA AnswersInv ==
  ASSUME NEW r \in Runs, AtWork(r), NEW a \in Answers, Give(r, a), Sound(r, a)', Kept(r)',
         Labours', Around'
  PROVE  Typed' /\ RunInv(r)'
<1>1. Replies' /\ AnswerInv(r)' /\ StoryInv(r)' /\ pc'[r] = "record"
  BY GiveInv
<1>2. QED
  BY <1>1, WorkEnds, WorkFrame DEF Typed, RunInv

LEMMA EscapeInv ==
  ASSUME NEW r \in Runs, AtWork(r), Escape(r), Kept(r)', Labours', Around'
  PROVE  Typed' /\ RunInv(r)'
<1>1. Replies' /\ AnswerInv(r)' /\ StoryInv(r)' /\ pc'[r] = "raised"
  BY GoInv DEF Escape
<1>2. QED
  BY <1>1, WorkEnds, WorkFrame DEF Typed, RunInv

\* A run that goes on and has done nothing yet.
PlaceNext(r, l) ==
  /\ l = "deploy" \/ l = "rollback" => Agent(r) = "titan" /\ Mode(r) \in Targets
  /\ l = "create" => Agent(r) = "calendar" /\ (Has(r, "attendees") => Has(r, "send"))
  /\ l = "test" => Mode(r) \in Modes["qt"] \ {"generate", "unknown"}

LEMMA PrepareInv ==
  ASSUME NEW r \in Runs, AtWork(r), Untried(r), UNCHANGED <<effects, count>>,
         NEW l \in (Preparing \ {"context", "personalise", "rewrite", "page"}) \cup {"chat"},
         Go(r, l), PlaceNext(r, l),
         l = "discover" => ready'[r] = <<>>, l = "chat" => rounds'[r] < MaxRounds,
         Labours', Around'
  PROVE  Typed' /\ RunInv(r)'
<1>1. Replies' /\ AnswerInv(r)' /\ StoryInv(r)' /\ pc'[r] = l
  BY GoInv DEF Working, Acting
<1>2. Kept(r)' /\ Untried(r)'
  BY WorkPasses
<1>3. PlaceInv(r)'
  BY <1>1, WorkFrame DEF PlaceInv, PlaceNext, Preparing, AtWork
<1>4. DeedsInv(r)'
  BY <1>1, <1>2 DEF DeedsInv, Preparing, Untried
<1>5. QED
  BY <1>1, <1>3, <1>4, WorkFrame DEF Typed, RunInv

LEMMA BeginStep ==
  ASSUME NEW r \in Runs, Typed, RunInv(r), Begin(r)
  PROVE  Typed' /\ RunInv(r)'
<1>1. AtWork(r) /\ pc[r] = "context" /\ Around
  BY DEF Begin, AtWork, ending, Working, Preparing, Typed
<1>2. Labours' /\ Around' /\ UNCHANGED <<effects, count, ready, rounds>>
  BY DEF Begin, Typed, Labours, Around, batch, deeds, pattern, ending
<1>3. Untried(r) /\ ready[r] = <<>> /\ rounds[r] = 0
  BY <1>1 DEF RunInv, DeedsInv, PlaceInv, Preparing
<1>4. Kept(r)' /\ Untried(r)'
  BY <1>1, <1>2, <1>3, WorkPasses
<1>5. CASE Fail(r)
  BY <1>1, <1>2, <1>4, <1>5, UntriedFails, FailInv
<1>6. CASE Give(r, Failed)
  BY <1>1, <1>2, <1>4, <1>6, UntriedFails, AnswersInv, AnswerTypes
<1>7. CASE Preview(r) /\ Give(r, Held)
  BY <1>1, <1>2, <1>4, <1>7, UntriedAsks, AnswersInv, AnswerTypes DEF Preview
<1>8. CASE ~(Refused(r) \/ Misasked(r) \/ Preview(r)) /\ Go(r, Opening(r))
  <2>1. PlaceNext(r, Opening(r))
    BY <1>1, <1>8, OpeningPlaces, AskType, ModesOf DEF PlaceNext, Refused, Preview, Preparing
  <2>2. rounds'[r] < MaxRounds /\ ready'[r] = <<>>
    BY <1>2, <1>3, BoundAssumption
  <2>3. Opening(r) \in (Preparing \ {"context", "personalise", "rewrite", "page"}) \cup {"chat"}
    BY <1>1, OpeningPlaces
  <2>4. QED
    BY <1>1, <1>2, <1>3, <1>8, <2>1, <2>2, <2>3, PrepareInv
<1>9. QED
  BY <1>5, <1>6, <1>7, <1>8 DEF Begin

----
\* Drafts
LEMMA DeliverableInv ==
  ASSUME NEW r \in Runs, AtWork(r), Untried(r), Agent(r) \in Senders \ {"reach"},
         UNCHANGED <<ready, deeds, rounds, live, pattern>>, Deliverable(r)
  PROVE  Typed' /\ RunInv(r)'
<1>1. Kept(r)' /\ Untried(r)'
  BY WorkPasses DEF deeds
<1>2. Around' /\ Typed
  BY DEF AtWork, Typed, Around, pattern
<1>3. PICK b \in Batches(r) :
        IF Has(r, "send")
        THEN todo' = [todo EXCEPT ![r] = b] /\ SendOrEnd(r, b, count[r])
        ELSE Ask(r) /\ UNCHANGED todo
  BY DEF Deliverable
<1>4. b \in Seq(Nat) /\ Increasing(b)
  BY BatchTypes
<1>l. Agent(r) \in {"echo", "sentinel"} => Len(b) = 1
  BY BatchTypes
<1>5. CASE Has(r, "send")
  <2>1. todo' = [todo EXCEPT ![r] = b] /\ SendOrEnd(r, b, count[r])
    BY <1>3, <1>5
  <2>2. Labours' /\ todo'[r] = b
    BY <1>2, <1>4, <2>1 DEF Typed, Labours, deeds
  <2>3. count[r] \in [done : Nat, failed : Nat] /\ count'[r] = count[r]
        /\ effects'[r] = <<>>
    BY <1>2 DEF Typed, Labours, deeds, Untried
  <2>4. Ahead(effects'[r], b)
    BY <2>3, NothingAhead
  <2>5. Agent(r) \in {"echo", "sentinel"} => Len(b) # 0
    BY <1>l
  <2>6. Agent(r) \in {"echo", "sentinel"} => b # <<>>
    BY <1>4, <2>5, NotEmpty
  <2>7. QED
    BY <1>1, <1>2, <1>4, <1>5, <2>1, <2>2, <2>3, <2>4, <2>6, <1>l, SendOrEndInv
<1>6. CASE ~ Has(r, "send")
  <2>1. Ask(r) /\ UNCHANGED todo
    BY <1>3, <1>6
  <2>2. Labours'
    BY <1>2, <2>1 DEF Typed, Labours, deeds
  <2>3. QED
    BY <1>1, <1>2, <1>6, <2>1, <2>2, UntriedAsks, AskInv
<1>7. QED
  BY <1>5, <1>6

\* Claude is a place like any other a draft may come from.
LEMMA DraftedInv ==
  ASSUME NEW r \in Runs, AtWork(r), Untried(r),
         UNCHANGED <<ready, deeds, rounds, live, pattern>>, Drafted(r)
  PROVE  Typed' /\ RunInv(r)'
<1>1. Kept(r)' /\ Untried(r)' /\ UNCHANGED <<effects, count>>
  BY WorkPasses DEF deeds
<1>2. Around' /\ Typed
  BY DEF AtWork, Typed, Around, pattern
<1>3. UNCHANGED todo => Labours'
  BY <1>2 DEF Typed, Labours, deeds
<1>4. CASE Parses(r) /\ Fail(r) /\ UNCHANGED todo
  BY <1>1, <1>2, <1>3, <1>4, UntriedFails, FailInv
<1>5. CASE Agent(r) \in {"echo", "pm", "catch", "mark"} /\ Deliverable(r)
  BY <1>5, DeliverableInv DEF Senders
<1>6. CASE Agent(r) \in {"qt", "pulse"} /\ Succeed(r) /\ UNCHANGED todo
  <2>1. Sound(r, Succeeded)'
    BY <1>6, OthersSucceed DEF Senders
  <2>2. QED
    BY <1>1, <1>2, <1>3, <1>6, <2>1, SucceedInv
<1>7. CASE Agent(r) = "raw" /\ Go(r, "keep") /\ UNCHANGED todo
  BY <1>1, <1>2, <1>3, <1>7, PrepareInv DEF PlaceNext, Preparing
<1>8. QED
  BY <1>4, <1>5, <1>6, <1>7 DEF Drafted

LEMMA DraftStep ==
  ASSUME NEW r \in Runs, Typed, RunInv(r),
         Ollama(r) \/ Claude(r) \/ Transcribe(r) \/ FetchPr(r) \/ Gather(r) \/ Scan(r)
           \/ (Agent(r) = "sentinel" /\ Review(r))
  PROVE  Typed' /\ RunInv(r)'
<1>1. AtWork(r) /\ pc[r] \in Preparing
  BY DEF Ollama, Claude, Transcribe, FetchPr, Gather, Scan, Review, AtWork, ending,
         Working, Preparing
<1>2. Untried(r)
  BY <1>1 DEF RunInv, DeedsInv
<1>3. UNCHANGED <<ready, deeds, rounds, live, pattern>> /\ UNCHANGED <<effects, count>>
  BY DEF Ollama, Claude, Transcribe, FetchPr, Gather, Scan, Review, batch, deeds
<1>4. Kept(r)' /\ Untried(r)' /\ Sound(r, Failed)'
  BY <1>1, <1>2, <1>3, WorkPasses, UntriedFails
<1>5. Around'
  BY <1>1, <1>3 DEF AtWork, Typed, Around, pattern
<1>6. UNCHANGED todo => Labours'
  BY <1>3 DEF Typed, Labours, deeds
<1>7. CASE Drafted(r)
  BY <1>1, <1>2, <1>3, <1>7, DraftedInv
<1>8. CASE Agent(r) = "sentinel" /\ Deliverable(r)
  BY <1>1, <1>2, <1>3, <1>8, DeliverableInv DEF Senders
<1>9. CASE Fail(r) /\ UNCHANGED todo
  BY <1>1, <1>4, <1>5, <1>6, <1>9, FailInv
<1>10. CASE HandleError(r) /\ UNCHANGED todo
  BY <1>1, <1>4, <1>5, <1>6, <1>10, ErrorInv
<1>11. CASE Escape(r) /\ UNCHANGED todo
  BY <1>1, <1>4, <1>5, <1>6, <1>11, EscapeInv
<1>12. ASSUME NEW l \in {"ollama", "claude", "review"}, Go(r, l), UNCHANGED todo
       PROVE  Typed' /\ RunInv(r)'
  BY <1>1, <1>2, <1>3, <1>5, <1>6, <1>12, PrepareInv DEF PlaceNext, Preparing
<1>13. Ollama(r) => Drafted(r) \/ (Go(r, "claude") /\ UNCHANGED todo)
  BY DEF Ollama
<1>14. Claude(r) => Drafted(r) \/ (Fail(r) /\ UNCHANGED todo)
                      \/ (HandleError(r) /\ UNCHANGED todo)
  BY DEF Claude, ClaudeFails
<1>15. Transcribe(r) \/ FetchPr(r) \/ Gather(r) \/ Scan(r) =>
         /\ UNCHANGED todo
         /\ Go(r, "ollama") \/ Go(r, "review") \/ Fail(r) \/ Escape(r)
  BY DEF Transcribe, FetchPr, Gather, Scan, batch
<1>16. Review(r) => Deliverable(r) \/ (Fail(r) /\ UNCHANGED todo)
  BY DEF Review
<1>17. QED
  BY <1>7, <1>8, <1>9, <1>10, <1>11, <1>12, <1>13, <1>14, <1>15, <1>16

----
\* REACH and the sending
LEMMA WrittenInv ==
  ASSUME NEW r \in Runs, AtWork(r), Agent(r) = "reach", Untried(r), todo[r] # <<>>,
         Increasing(ready[r]), Increasing(todo[r]), Ahead(ready[r], todo[r]),
         UNCHANGED <<deeds, rounds, live, pattern>>,
         NEW leads \in {ready[r], Append(ready[r], Head(todo[r]))}, Written(r, leads)
  PROVE  Typed' /\ RunInv(r)'
<1>1. Kept(r)' /\ Untried(r)' /\ UNCHANGED <<effects, count>>
  BY WorkPasses DEF deeds
<1>2. Around' /\ Typed
  BY DEF AtWork, Typed, Around, pattern
<1>3. ready[r] \in Seq(Nat) /\ todo[r] \in Seq(Nat)
  BY <1>2 DEF Typed, Labours
<1>4. /\ leads \in Seq(Nat) /\ Increasing(leads) /\ Ahead(leads, Tail(todo[r]))
      /\ Increasing(Tail(todo[r])) /\ Tail(todo[r]) \in Seq(Nat)
      /\ Len(Tail(todo[r])) = Len(todo[r]) - 1
  BY <1>3, Increases
<1>5. ready' = [ready EXCEPT ![r] = leads] /\ ready'[r] = leads
  BY <1>2 DEF Written, Typed, Labours
<1>6. ASSUME NEW t \in Seq(Nat), todo' = [todo EXCEPT ![r] = t]
      PROVE  Labours' /\ todo'[r] = t
  BY <1>2, <1>4, <1>5, <1>6 DEF Typed, Labours, deeds
<1>7. CASE Len(todo[r]) > 1
  <2>1. Go(r, "personalise") /\ todo' = [todo EXCEPT ![r] = Tail(todo[r])]
    BY <1>7 DEF Written
  <2>2. Labours' /\ todo'[r] = Tail(todo[r])
    BY <1>4, <1>6, <2>1
  <2>3. Replies' /\ AnswerInv(r)' /\ StoryInv(r)' /\ pc'[r] = "personalise"
    BY <2>1, GoInv DEF Working, Preparing
  <2>4. Tail(todo[r]) # <<>>
    BY <1>3, <1>7, TailLeft
  <2>5. PlaceInv(r)'
    BY <2>2, <2>3, <2>4, WorkFrame DEF PlaceInv, AtWork
  <2>6. DeedsInv(r)'
    BY <1>1, <1>4, <1>5, <2>2, <2>3 DEF DeedsInv
  <2>7. QED
    BY <1>2, <2>2, <2>3, <2>5, <2>6, WorkFrame DEF Typed, RunInv
<1>8. CASE ~(Len(todo[r]) > 1) /\ Has(r, "send")
  <2>1. SendOrEnd(r, leads, count[r]) /\ todo' = [todo EXCEPT ![r] = leads]
    BY <1>8 DEF Written
  <2>2. Labours' /\ todo'[r] = leads
    BY <1>4, <1>6, <2>1
  <2>3. count[r] \in [done : Nat, failed : Nat] /\ count'[r] = count[r]
        /\ effects'[r] = <<>>
    BY <1>1, <1>2 DEF Typed, Labours, Untried
  <2>4. Ahead(effects'[r], leads)
    BY <2>3, NothingAhead
  <2>5. QED
    BY <1>1, <1>2, <1>4, <1>8, <2>1, <2>2, <2>3, <2>4, SendOrEndInv DEF Senders
<1>9. CASE ~(Len(todo[r]) > 1) /\ ~Has(r, "send")
  <2>1. Ask(r) /\ todo' = [todo EXCEPT ![r] = <<>>]
    BY <1>9 DEF Written
  <2>2. <<>> \in Seq(Nat)
    OBVIOUS
  <2>3. Labours'
    BY <1>6, <2>1, <2>2
  <2>4. QED
    BY <1>1, <1>2, <1>9, <2>1, <2>3, UntriedAsks, AskInv
<1>10. QED
  BY <1>7, <1>8, <1>9

LEMMA ReachStep ==
  ASSUME NEW r \in Runs, Typed, RunInv(r), Agent(r) = "reach",
         Discover(r) \/ Personalise(r) \/ Rewrite(r)
  PROVE  Typed' /\ RunInv(r)'
<1>1. AtWork(r) /\ pc[r] \in {"discover", "personalise", "rewrite"}
      /\ UNCHANGED <<deeds, rounds, live, pattern>> /\ UNCHANGED <<effects, count>>
  BY DEF Discover, Personalise, Rewrite, AtWork, ending, Working, Preparing, deeds
<1>2. Untried(r)
  BY <1>1 DEF RunInv, DeedsInv, Preparing
<1>3. Kept(r)' /\ Untried(r)' /\ Sound(r, Failed)' /\ Around'
  BY <1>1, <1>2, WorkPasses, UntriedFails DEF Typed, Around, pattern, AtWork
<1>4. CASE Discover(r)
  <2>1. ready' = ready /\ ready[r] = <<>>
    BY <1>4 DEF Discover, RunInv, DeedsInv
  <2>2. CASE Fail(r) /\ UNCHANGED todo
    <3>1. Labours'
      BY <1>1, <2>1, <2>2 DEF Typed, Labours
    <3>2. QED
      BY <1>1, <1>3, <2>2, <3>1, FailInv
  <2>3. CASE \E leads \in Leads :
               todo' = [todo EXCEPT ![r] = leads] /\ Go(r, "personalise")
    <3>1. PICK n \in 1 .. MaxItems :
            todo' = [todo EXCEPT ![r] = Items(n)] /\ Go(r, "personalise")
      BY <2>3 DEF Leads
    <3>2. Items(n) \in Seq(Nat) /\ Increasing(Items(n)) /\ Items(n) # <<>>
      BY ItemsIncrease, BoundAssumption
    <3>3. Labours' /\ todo'[r] = Items(n)
      BY <1>1, <2>1, <3>1, <3>2 DEF Typed, Labours
    <3>4. Replies' /\ AnswerInv(r)' /\ StoryInv(r)' /\ pc'[r] = "personalise"
      BY <1>1, <3>1, GoInv DEF Working, Preparing
    <3>5. PlaceInv(r)'
      BY <1>1, <3>2, <3>3, <3>4, WorkFrame DEF PlaceInv, AtWork
    <3>6. DeedsInv(r)'
      BY <1>3, <2>1, <3>2, <3>3, <3>4, NothingAhead DEF DeedsInv
    <3>7. QED
      BY <1>1, <1>3, <3>3, <3>4, <3>5, <3>6, WorkFrame DEF Typed, RunInv
  <2>4. QED
    BY <1>4, <2>2, <2>3 DEF Discover
<1>5. CASE Personalise(r) \/ Rewrite(r)
  <2>1. /\ todo[r] # <<>> /\ Increasing(ready[r]) /\ Increasing(todo[r])
        /\ Ahead(ready[r], todo[r])
    BY <1>5 DEF Personalise, Rewrite, RunInv, PlaceInv, DeedsInv
  <2>2. CASE Personalised(r)
    BY <1>1, <1>2, <2>1, <2>2, WrittenInv DEF Personalised
  <2>3. CASE Go(r, "rewrite") /\ UNCHANGED batch
    <3>1. Labours' /\ UNCHANGED <<todo, ready>>
      BY <1>1, <2>3 DEF Typed, Labours, batch
    <3>2. Replies' /\ AnswerInv(r)' /\ StoryInv(r)' /\ pc'[r] = "rewrite"
      BY <1>1, <2>3, GoInv DEF Working, Preparing
    <3>3. PlaceInv(r)'
      BY <1>1, <2>1, <3>1, <3>2, WorkFrame DEF PlaceInv, AtWork
    <3>4. DeedsInv(r)'
      BY <1>3, <2>1, <3>1, <3>2 DEF DeedsInv
    <3>5. QED
      BY <1>1, <1>3, <3>1, <3>2, <3>3, <3>4, WorkFrame DEF Typed, RunInv
  <2>4. QED
    BY <1>5, <2>2, <2>3 DEF Personalise, Rewrite
<1>6. QED
  BY <1>4, <1>5

LEMMA SendStep ==
  ASSUME NEW r \in Runs, Typed, RunInv(r), Send(r)
  PROVE  Typed' /\ RunInv(r)'
<1>1. AtWork(r) /\ pc[r] = "send" /\ UNCHANGED <<ready, rounds, live, pattern>>
  BY DEF Send, AtWork, ending, Working, Acting
<1>2. /\ Agent(r) \in Senders /\ Has(r, "send") /\ todo[r] # <<>>
      /\ Increasing(todo[r]) /\ Ahead(effects[r], todo[r]) /\ Increasing(effects[r])
      /\ Agent(r) \in {"echo", "sentinel"} => Len(todo[r]) = 1 /\ Untried(r)
      /\ count[r].done <= Len(effects[r])
      /\ Len(effects[r]) <= count[r].done + count[r].failed
  <2>1. PlaceInv(r) /\ DeedsInv(r) /\ Kept(r) /\ r \notin stopping
    BY <1>1, WorkFrame DEF RunInv, DeedsInv
  <2>2. Agent(r) \in Senders /\ Has(r, "send") /\ todo[r] # <<>>
    BY <1>1, <2>1 DEF PlaceInv
  <2>3. /\ Increasing(todo[r]) /\ Ahead(effects[r], todo[r])
        /\ Agent(r) \in {"echo", "sentinel"} => Len(todo[r]) = 1 /\ Untried(r)
    BY <1>1, <2>1 DEF DeedsInv
  <2>4. effects[r] \in Seq(Nat) /\ count[r] \in [done : Nat, failed : Nat]
    BY DEF Typed, Labours
  <2>5. /\ Increasing(effects[r]) /\ count[r].done <= Len(effects[r])
        /\ Len(effects[r]) <= count[r].done + count[r].failed + 0
    BY <2>1, <2>2 DEF Kept
  <2>6. Len(effects[r]) <= count[r].done + count[r].failed
    BY <2>4, <2>5
  <2>7. QED
    BY <2>2, <2>3, <2>5, <2>6
<1>3. PICK sent \in BOOLEAN :
        /\ Effect(r, Head(todo[r])) \/ (~sent /\ UNCHANGED effects)
        /\ count' = [count EXCEPT ![r] = Counted(r, sent)]
        /\ todo' = [todo EXCEPT ![r] = Rest(r, sent)]
        /\ SendOrEnd(r, Rest(r, sent), Counted(r, sent))
  BY DEF Send
<1> DEFINE rest == Tail(todo[r])
           more == Append(effects[r], Head(todo[r]))
           c == Counted(r, sent)
<1>4. /\ todo[r] \in Seq(Nat) /\ effects[r] \in Seq(Nat)
      /\ count[r] \in [done : Nat, failed : Nat]
  BY DEF Typed, Labours
<1>5. /\ Head(todo[r]) \in Nat /\ rest \in Seq(Nat) /\ more \in Seq(Nat)
      /\ Len(rest) = Len(todo[r]) - 1 /\ Len(more) = Len(effects[r]) + 1
      /\ Increasing(more) /\ Increasing(rest)
      /\ Ahead(effects[r], rest) /\ Ahead(more, rest)
  BY <1>2, <1>4, Increases
<1>6. Rest(r, sent) = rest
  BY DEF Rest
<1>7. /\ c \in [done : Nat, failed : Nat]
      /\ sent => c.done = count[r].done + 1 /\ c.failed = count[r].failed
      /\ ~sent => c.done = count[r].done /\ c.failed = count[r].failed + 1
  <2>1. CASE sent
    <3>1. c = [count[r] EXCEPT !.done = @ + 1]
      BY <2>1 DEF Counted
    <3> HIDE DEF c
    <3>2. c = [done |-> c.done, failed |-> c.failed] /\ c.failed = count[r].failed
          /\ c.done = count[r].done + 1
      BY <1>4, <3>1
    <3>n. count[r].done \in Nat /\ count[r].failed \in Nat
      BY <1>4
    <3>c. c \in [done : Nat, failed : Nat]
      BY <3>2, <3>n
    <3>3. QED
      BY <2>1, <3>2, <3>c
  <2>2. CASE ~sent
    <3>1. c = [count[r] EXCEPT !.failed = @ + 1]
      BY <2>2 DEF Counted
    <3> HIDE DEF c
    <3>2. c = [done |-> c.done, failed |-> c.failed] /\ c.done = count[r].done
          /\ c.failed = count[r].failed + 1
      BY <1>4, <3>1
    <3>n. count[r].done \in Nat /\ count[r].failed \in Nat
      BY <1>4
    <3>c. c \in [done : Nat, failed : Nat]
      BY <3>2, <3>n
    <3>3. QED
      BY <2>2, <3>2, <3>c
  <2>3. QED
    BY <2>1, <2>2
<1> HIDE DEF rest, more, c
<1>8. /\ effects' = [effects EXCEPT ![r] = effects'[r]]
      /\ effects'[r] = more \/ (~sent /\ effects'[r] = effects[r])
  <2>1. CASE Effect(r, Head(todo[r]))
    BY <2>1 DEF Effect, more, Typed, Labours
  <2>2. CASE ~sent /\ UNCHANGED effects
    BY <2>2 DEF Typed, Labours
  <2>3. QED
    BY <1>3, <2>1, <2>2
<1>9. Labours' /\ todo'[r] = rest /\ count'[r] = c
  <2>1. effects'[r] \in Seq(Nat)
    BY <1>4, <1>5, <1>8
  <2>2. todo' = [todo EXCEPT ![r] = rest] /\ count' = [count EXCEPT ![r] = c]
    BY <1>3, <1>6 DEF c
  <2>3. QED
    BY <1>1, <1>5, <1>7, <1>8, <2>1, <2>2 DEF Typed, Labours
<1>10. Around'
  BY <1>1 DEF AtWork, Typed, Around, pattern
<1>11. /\ Increasing(effects'[r]) /\ Ahead(effects'[r], rest)
       /\ c.done <= Len(effects'[r]) /\ Len(effects'[r]) <= c.done + c.failed
  <2>1. /\ Len(effects[r]) \in Nat /\ count[r].done \in Nat /\ count[r].failed \in Nat
        /\ \/ c.done = count[r].done + 1 /\ c.failed = count[r].failed
           \/ ~sent /\ c.done = count[r].done /\ c.failed = count[r].failed + 1
    BY <1>4, <1>7
  <2>2. CASE effects'[r] = more
    <3>1. Len(effects'[r]) = Len(effects[r]) + 1
      BY <1>5, <2>2
    <3>2. c.done <= Len(effects'[r]) /\ Len(effects'[r]) <= c.done + c.failed
      BY <1>2, <2>1, <3>1
    <3>3. QED
      BY <1>5, <2>2, <3>2
  <2>3. CASE ~sent /\ effects'[r] = effects[r]
    <3>1. c.done = count[r].done /\ c.failed = count[r].failed + 1
      BY <1>7, <2>3
    <3>2. c.done <= Len(effects'[r]) /\ Len(effects'[r]) <= c.done + c.failed
      BY <1>2, <2>1, <2>3, <3>1
    <3>3. QED
      BY <1>2, <1>5, <2>3, <3>2
  <2>4. QED
    BY <1>8, <2>2, <2>3
<1>12. Kept(r)'
  <2>1. r \notin stopping' /\ (Gated(r)' => Has(r, "send")')
    BY <1>1, <1>2, WorkFrame DEF AtWork
  <2>2. c.done + c.failed + 0 = c.done + c.failed
    BY <1>7
  <2>3. QED
    BY <1>9, <1>11, <2>1, <2>2 DEF Kept
<1>13. ASSUME Agent(r) \in {"echo", "sentinel"}
       PROVE  rest = <<>> /\ c.done + c.failed = 1
  <2>1. Len(rest) = 0 /\ Untried(r)
    BY <1>2, <1>5, <1>13
  <2>2. rest = <<>>
    BY <1>5, <2>1
  <2>3. c.done + c.failed = 1
    BY <1>7, <2>1 DEF Untried
  <2>4. QED
    BY <2>2, <2>3
<1>14. SendOrEnd(r, rest, c)
  BY <1>3, <1>6 DEF c
<1>15. QED
  BY <1>1, <1>2, <1>5, <1>7, <1>9, <1>10, <1>11, <1>12, <1>13, <1>14, SendOrEndInv

----
\* TITAN
LEMMA TitanStep ==
  ASSUME NEW r \in Runs, Typed, RunInv(r), Agent(r) = "titan",
         Deploy(r) \/ Rollback(r)
  PROVE  Typed' /\ RunInv(r)'
<1>1. AtWork(r) /\ pc[r] \in {"deploy", "rollback"} /\ UNCHANGED <<batch, deeds, rounds, pattern>>
  BY DEF Deploy, Rollback, AtWork, ending, Working, Preparing
<1>2. Untried(r) /\ Mode(r) \in Targets /\ UNCHANGED <<effects, count>>
  BY <1>1 DEF RunInv, DeedsInv, PlaceInv, Preparing, deeds
<1>3. Kept(r)' /\ Untried(r)' /\ Labours'
  BY <1>1, <1>2, WorkPasses DEF Typed, Labours, batch, deeds
<1>4. /\ live \in [Targets -> Runs \cup {Previous}] /\ Previous # r
      /\ Put(r, r) => live' \in [Targets -> Runs \cup {Previous}]
      /\ Put(r, Previous) => live' \in [Targets -> Runs \cup {Previous}]
                              /\ live'[Mode(r)] = Previous
  BY <1>2, BoundAssumption DEF Typed, Around, Put
<1>5. Put(r, r) \/ Put(r, Previous) \/ UNCHANGED live
  BY DEF Deploy, Rollback
<1>6. Around'
  BY <1>1, <1>4, <1>5 DEF AtWork, Typed, Around, pattern
<1>7. CASE Ask(r)
  <2>1. Sound(r, Held)'
    BY <1>1, AnswerFields, WorkFrame DEF Sound, Senders
  <2>2. QED
    BY <1>1, <1>3, <1>6, <1>7, <2>1, AskInv
<1>8. CASE Go(r, "rollback")
  BY <1>1, <1>2, <1>3, <1>6, <1>8, PrepareInv DEF PlaceNext, Preparing
<1>9. ASSUME NEW undone \in BOOLEAN, Alarm(r, undone), undone => live'[Mode(r)] # r
      PROVE  Typed' /\ RunInv(r)'
  <2> DEFINE a == Abort(r, undone)
  <2>1. a.held = FALSE /\ a.undone = undone /\ a.slot = Unasked
    BY DEF Abort, Failed, Answer
  <2>2. Sound(r, a)'
    <3> HIDE DEF a
    <3>1. QED
      BY <1>1, <1>2, <1>9, <2>1, WorkFrame DEF Sound, Senders
  <2>3. Replies' /\ AnswerInv(r)' /\ StoryInv(r)' /\ pc'[r] = "alert"
    BY <1>1, <1>9, <2>2, AlarmInv
  <2>4. PlaceInv(r)' /\ DeedsInv(r)'
    BY <1>1, <1>3, <2>3, WorkFrame DEF PlaceInv, DeedsInv, AtWork
  <2>5. QED
    BY <1>1, <1>3, <1>6, <2>3, <2>4, WorkFrame DEF Typed, RunInv
<1>10. CASE Alarm(r, FALSE)
  BY <1>9, <1>10
<1>11. CASE Put(r, Previous) /\ Alarm(r, TRUE)
  BY <1>4, <1>9, <1>11
<1>12. QED
  BY <1>7, <1>8, <1>10, <1>11 DEF Deploy, Rollback, RollbackFails

LEMMA AlertStep ==
  ASSUME NEW r \in Runs, Typed, RunInv(r), Alert(r)
  PROVE  Typed' /\ RunInv(r)'
<1>1. /\ pc[r] = "alert" /\ pc' = [pc EXCEPT ![r] = "log"]
      /\ UNCHANGED <<row, plan, out, ask, batch, deeds, rounds, live, pattern, ending, logVars>>
  BY DEF Alert, Go
<1>2. Typed'
  BY <1>1 DEF Typed, Replies, Labels, Labours, Around, Log, batch, deeds, pattern, ending, logVars
<1>3. pc'[r] = "log"
  BY <1>1 DEF Typed, Replies
<1>4. PlaceInv(r)' /\ DeedsInv(r)'
  BY <1>1, <1>3 DEF RunInv, PlaceInv, DeedsInv, Kept, Preparing, Agent, Has, Gated, deeds, ending
<1>5. AnswerInv(r)'
  BY <1>1, <1>3 DEF RunInv, AnswerInv, Sound, Asked, Diary, Telling, Agent, Mode, Has, deeds
<1>6. StoryInv(r)'
  BY <1>1, <1>3 DEF RunInv, AnswerInv, StoryInv, Agrees, Telling, Agent, ending, logVars
<1>7. QED
  BY <1>2, <1>4, <1>5, <1>6 DEF RunInv

----
\* FORGE, GENERAL, QT and RAW

LEMMA ChatStep ==
  ASSUME NEW r \in Runs, Typed, RunInv(r), Agent(r) \in {"forge", "general"}, Chat(r)
  PROVE  Typed' /\ RunInv(r)'
<1>1. AtWork(r) /\ pc[r] = "chat" /\ UNCHANGED <<effects, count>> /\ UNCHANGED rounds
      /\ UNCHANGED todo
  BY DEF Chat, AtWork, ending, Working, Acting, deeds, batch
<1>2. Labours' /\ Around' /\ Kept(r)'
  BY <1>1, WorkPasses DEF Chat, Typed, Labours, Around, batch, deeds, pattern, ending
<1>3. Sound(r, Succeeded)' /\ Sound(r, Failed)'
  BY <1>1, OthersSucceed DEF Senders
<1>4. CASE Succeed(r)
  BY <1>1, <1>2, <1>3, <1>4, SucceedInv
<1>5. CASE HandleError(r)
  BY <1>1, <1>2, <1>3, <1>5, ErrorInv
<1>6. CASE Give(r, Succeeded)
  BY <1>1, <1>2, <1>3, <1>6, AnswersInv, AnswerTypes
<1>7. CASE Agent(r) = "forge" /\ Go(r, "tools")
  <2>1. Replies' /\ AnswerInv(r)' /\ StoryInv(r)' /\ pc'[r] = "tools"
    BY <1>1, <1>7, GoInv DEF Working, Acting
  <2>2. rounds[r] < MaxRounds /\ effects[r] \in {<<>>, <<1>>}
    BY <1>1 DEF RunInv, PlaceInv, DeedsInv
  <2>3. PlaceInv(r)'
    BY <1>1, <1>7, <2>1, <2>2, WorkFrame DEF PlaceInv, AtWork
  <2>4. DeedsInv(r)'
    BY <1>1, <1>2, <2>1, <2>2 DEF DeedsInv, Preparing
  <2>5. QED
    BY <1>1, <1>2, <2>1, <2>3, <2>4, WorkFrame DEF Typed, RunInv
<1>8. QED
  BY <1>4, <1>5, <1>6, <1>7 DEF Chat

\* What FORGE and CALENDAR do: one thing, or one after the other.
Twice == Append(<<1>>, 2)

LEMMA OnceIncreases ==
  /\ Append(<<>>, 1) = <<1>> /\ <<>> \in Seq(Nat) /\ <<1>> \in Seq(Nat) /\ Twice \in Seq(Nat)
  /\ Increasing(<<>>) /\ Increasing(<<1>>) /\ Increasing(Twice)
<1>1. Append(<<>>, 1) = <<1>>
  OBVIOUS
<1>2. <<>> \in Seq(Nat) /\ <<1>> \in Seq(Nat)
  OBVIOUS
<1>3. /\ Twice \in Seq(Nat) /\ DOMAIN Twice = 1 .. 2
      /\ Twice[1] = 1 /\ Twice[2] = 2
  BY <1>2 DEF Twice
<1>4. Increasing(<<>>) /\ Increasing(<<1>>)
  BY DEF Increasing
<1>5. Increasing(Twice)
  BY <1>3 DEF Increasing
<1>6. QED
  BY <1>1, <1>2, <1>3, <1>4, <1>5

LEMMA ToolsStep ==
  ASSUME NEW r \in Runs, Typed, RunInv(r), Agent(r) = "forge", Tools(r)
  PROVE  Typed' /\ RunInv(r)'
<1>1. AtWork(r) /\ pc[r] = "tools" /\ UNCHANGED <<batch, count, live, pattern>>
      /\ rounds' = [rounds EXCEPT ![r] = rounds[r] + 1]
      /\ (Write(r) \/ UNCHANGED effects)
  BY DEF Tools, AtWork, ending, Working, Acting, Round
<1>2. rounds[r] < MaxRounds /\ effects[r] \in {<<>>, <<1>>}
      /\ rounds \in [Runs -> 0 .. MaxRounds] /\ effects \in [Runs -> Seq(Nat)]
  BY <1>1 DEF RunInv, PlaceInv, DeedsInv, Typed, Labours
<1>3. rounds'[r] = rounds[r] + 1 /\ rounds'[r] \in 0 .. MaxRounds
      /\ rounds' \in [Runs -> 0 .. MaxRounds]
  BY <1>1, <1>2, BoundAssumption
<1>4. <<1>> \in Seq(Nat)
  OBVIOUS
<1>5. effects' \in [Runs -> Seq(Nat)] /\ effects'[r] \in {<<>>, <<1>>}
  <2>1. CASE Write(r)
    BY <1>2, <1>4, <2>1 DEF Write
  <2>2. CASE UNCHANGED effects
    BY <1>2, <2>2
  <2>3. QED
    BY <1>1, <2>1, <2>2
<1>6. Labours' /\ Around'
  BY <1>1, <1>3, <1>5 DEF AtWork, Typed, Labours, Around, batch, pattern
<1>7. Kept(r)'
  BY <1>1, <1>5, OnceIncreases, WorkFrame DEF Kept, Gated, Senders
<1>8. Sound(r, Failed)'
  BY <1>1, OthersSucceed DEF Senders
<1>9. CASE rounds'[r] < MaxRounds /\ Go(r, "chat")
  <2>1. Replies' /\ AnswerInv(r)' /\ StoryInv(r)' /\ pc'[r] = "chat"
    BY <1>1, <1>9, GoInv DEF Working, Acting
  <2>2. PlaceInv(r)'
    BY <1>1, <1>9, <2>1, WorkFrame DEF PlaceInv, AtWork
  <2>3. DeedsInv(r)'
    BY <1>5, <1>7, <2>1 DEF DeedsInv, Preparing
  <2>4. QED
    BY <1>1, <1>6, <2>1, <2>2, <2>3, WorkFrame DEF Typed, RunInv
<1>10. CASE Give(r, Failed)
  BY <1>1, <1>6, <1>7, <1>8, <1>10, AnswersInv, AnswerTypes
<1>11. CASE HandleError(r)
  BY <1>1, <1>6, <1>7, <1>8, <1>11, ErrorInv
<1>12. QED
  BY <1>9, <1>10, <1>11 DEF Tools

LEMMA TestStep ==
  ASSUME NEW r \in Runs, Typed, RunInv(r), Agent(r) = "qt", Test(r)
  PROVE  Typed' /\ RunInv(r)'
<1>1. AtWork(r) /\ pc[r] = "test" /\ UNCHANGED <<effects, count>>
  BY DEF Test, AtWork, ending, Working, Preparing, deeds
<1>2. Labours' /\ Around' /\ Kept(r)'
  BY <1>1, WorkPasses DEF Test, Typed, Labours, Around, batch, deeds, pattern, ending
<1>3. Sound(r, Failed)'
  BY <1>1, OthersSucceed DEF Senders
<1>4. CASE Fail(r)
  BY <1>1, <1>2, <1>3, <1>4, FailInv
<1>5. ASSUME NEW exited0 \in BOOLEAN, NEW report \in Reports,
             Conclude(r, "success", Answer(Passed(Mode(r), exited0, report), FALSE))
      PROVE  Typed' /\ RunInv(r)'
  <2>1. Mode(r) \in {"pytest", "npm_audit", "playwright", "lighthouse"}
    BY <1>1, ModesOf DEF RunInv, PlaceInv
  <2>2. Passed(Mode(r), exited0, report) \in BOOLEAN
    BY <2>1 DEF Passed
  <2>3. PICK p \in BOOLEAN : p = Passed(Mode(r), exited0, report)
    BY <2>2
  <2> DEFINE a == Answer(p, FALSE)
  <2>4. a \in Answers
    BY AnswerTypes
  <2>5. a.held = FALSE /\ a.undone = FALSE /\ a.slot = Unasked
    BY DEF Answer
  <2>6. Conclude(r, "success", a)
    BY <1>5, <2>3
  <2> HIDE DEF a
  <2>7. Sound(r, a)'
    BY <1>1, <2>5, WorkFrame DEF Sound, Senders
  <2>8. Replies' /\ AnswerInv(r)' /\ StoryInv(r)' /\ pc'[r] = "log"
    BY <1>1, <2>4, <2>6, <2>7, ConcludeInv DEF Status
  <2>9. QED
    BY <1>1, <1>2, <2>8, WorkEnds, WorkFrame DEF Typed, RunInv
<1>6. QED
  BY <1>4, <1>5 DEF Test

LEMMA KeepStep ==
  ASSUME NEW r \in Runs, Typed, RunInv(r), Agent(r) = "raw", Keep(r) \/ Page(r)
  PROVE  Typed' /\ RunInv(r)'
<1>1. AtWork(r) /\ pc[r] \in {"keep", "page"} /\ UNCHANGED <<effects, count>>
      /\ UNCHANGED <<ready, rounds, live, pattern>>
  BY DEF Keep, Page, AtWork, ending, Working, Preparing, deeds
<1>2. Untried(r) /\ Around'
  BY <1>1 DEF RunInv, DeedsInv, Preparing, AtWork, Typed, Around, pattern
<1>3. Kept(r)' /\ Untried(r)'
  BY <1>1, <1>2, WorkPasses
<1>4. Sound(r, Succeeded)' /\ Sound(r, Failed)'
  BY <1>1, OthersSucceed DEF Senders
<1>5. ASSUME NEW t \in Seq(Nat), todo' = [todo EXCEPT ![r] = t]
      PROVE  Labours' /\ todo'[r] = t
  BY <1>1, <1>5 DEF Typed, Labours
<1>6. ASSUME Labours', todo'[r] # <<>>, Go(r, "page")
      PROVE  Typed' /\ RunInv(r)'
  <2>1. Replies' /\ AnswerInv(r)' /\ StoryInv(r)' /\ pc'[r] = "page"
    BY <1>1, <1>6, GoInv DEF Working, Preparing
  <2>2. PlaceInv(r)'
    BY <1>1, <1>6, <2>1, WorkFrame DEF PlaceInv, AtWork
  <2>3. DeedsInv(r)'
    BY <1>3, <2>1 DEF DeedsInv
  <2>4. QED
    BY <1>1, <1>2, <1>6, <2>1, <2>2, <2>3, WorkFrame DEF Typed, RunInv
<1>7. CASE Keep(r)
  <2>p. PICK n \in (IF Mode(r) = "research" THEN 0 .. MaxItems ELSE {0}) :
          /\ todo' = [todo EXCEPT ![r] = Items(n)]
          /\ IF n = 0 THEN Succeed(r) ELSE Go(r, "page")
    BY <1>7 DEF Keep
  <2>1. /\ todo' = [todo EXCEPT ![r] = Items(n)]
        /\ IF n = 0 THEN Succeed(r) ELSE Go(r, "page")
    BY <2>p
  <2>2. n \in Nat
    BY BoundAssumption
  <2>3. Labours' /\ todo'[r] = Items(n)
    BY <1>5, <2>1, <2>2, ItemsIncrease
  <2>4. CASE n = 0
    BY <1>1, <1>2, <1>3, <1>4, <2>1, <2>3, <2>4, SucceedInv
  <2>5. CASE n # 0
    BY <1>6, <2>1, <2>2, <2>3, <2>5, ItemsIncrease
  <2>6. QED
    BY <2>4, <2>5
<1>8. CASE Page(r)
  <2>1. todo[r] # <<>> /\ todo[r] \in Seq(Nat)
    BY <1>8 DEF Page, RunInv, PlaceInv, Typed, Labours
  <2>2. todo' = [todo EXCEPT ![r] = Tail(todo[r])] /\ Tail(todo[r]) \in Seq(Nat)
    BY <1>8, <2>1 DEF Page
  <2>3. Labours' /\ todo'[r] = Tail(todo[r])
    BY <1>5, <2>2
  <2>4. CASE Len(todo[r]) > 1 /\ Go(r, "page")
    BY <1>6, <2>1, <2>3, <2>4, TailLeft
  <2>5. CASE Succeed(r)
    BY <1>1, <1>2, <1>3, <1>4, <2>3, <2>5, SucceedInv
  <2>6. CASE Fail(r)
    BY <1>1, <1>2, <1>3, <1>4, <2>3, <2>6, FailInv
  <2>7. QED
    BY <1>8, <2>4, <2>5, <2>6 DEF Page
<1>9. QED
  BY <1>7, <1>8

----
\* CALENDAR
LEMMA SlotSound ==
  ASSUME NEW r \in Runs, Around
  PROVE  /\ Slot(r) \in Int \cup {NoSlot}
         /\ OneClock(ask[r].window, ask[r].events) =>
              IsFirstFree(Named(Slot(r), ask[r].window), Asked(r), Length, Diary(r))
<1>1. /\ ask[r].window \in Windows(Int, Int) /\ IsFiniteSet(ask[r].events)
      /\ ask[r].events \in SUBSET Events(Int, Int)
  BY AskType
<1>2. QED
  BY <1>1, SlotAssumption, ValueAssumption, FreeSlotIsFirst DEF Slot, Asked, Diary

LEMMA ListStep ==
  ASSUME NEW r \in Runs, Typed, RunInv(r), Agent(r) = "calendar", ListEvents(r)
  PROVE  Typed' /\ RunInv(r)'
<1>1. AtWork(r) /\ pc[r] = "list" /\ UNCHANGED <<effects, count>>
  BY DEF ListEvents, AtWork, ending, Working, Preparing, deeds
<1>2. Labours' /\ Around' /\ Kept(r)'
  BY <1>1, WorkPasses DEF ListEvents, Typed, Labours, Around, batch, deeds, pattern, ending
<1>3. Sound(r, Succeeded)' /\ Sound(r, Failed)'
  BY <1>1, OthersSucceed DEF Senders
<1>4. CASE Give(r, Failed) \/ Give(r, Succeeded)
  BY <1>1, <1>2, <1>3, <1>4, AnswersInv, AnswerTypes
<1>5. CASE Give(r, [Answer(Slot(r) # NoSlot, FALSE) EXCEPT !.slot = Slot(r)])
  <2>1. /\ Slot(r) \in Int \cup {NoSlot}
        /\ OneClock(ask[r].window, ask[r].events) =>
             IsFirstFree(Named(Slot(r), ask[r].window), Asked(r), Length, Diary(r))
    BY SlotSound DEF Typed
  <2>2. PICK slot \in Int \cup {NoSlot} :
          /\ slot = Slot(r)
          /\ OneClock(ask[r].window, ask[r].events) =>
               IsFirstFree(Named(slot, ask[r].window), Asked(r), Length, Diary(r))
    BY <2>1
  <2>3. PICK free \in BOOLEAN : free = (slot # NoSlot)
    OBVIOUS
  <2> DEFINE b == Answer(free, FALSE)
             a == [b EXCEPT !.slot = slot]
  <2>4. b \in Answers /\ b.held = FALSE /\ b.undone = FALSE
    BY AnswerTypes DEF Answer
  <2>5. Give(r, a)
    BY <1>5, <2>2, <2>3
  <2> HIDE DEF b
  <2>6. a \in Answers
    BY <2>4 DEF Answers
  <2>7. a.held = FALSE /\ a.undone = FALSE /\ a.slot = slot
    BY <2>4 DEF Answers
  <2> HIDE DEF a
  <2>8. Sound(r, a)'
    BY <1>1, <2>2, <2>7, WorkFrame DEF Sound, Senders, AtWork, Asked, Diary
  <2>9. QED
    BY <1>1, <1>2, <2>5, <2>6, <2>8, AnswersInv
<1>6. QED
  BY <1>4, <1>5 DEF ListEvents

LEMMA CreateStep ==
  ASSUME NEW r \in Runs, Typed, RunInv(r), Agent(r) = "calendar",
         CreateEvent(r) \/ Mirror(r)
  PROVE  Typed' /\ RunInv(r)'
<1>1. AtWork(r) /\ pc[r] \in {"create", "mirror"} /\ UNCHANGED <<batch, count, rounds, live, pattern>>
  BY DEF CreateEvent, Mirror, AtWork, ending, Working, Preparing, Acting
<1>2. /\ effects \in [Runs -> Seq(Nat)] /\ (Has(r, "attendees") => Has(r, "send"))
      /\ pc[r] = "create" => effects[r] = <<>>
      /\ pc[r] = "mirror" => effects[r] = <<1>>
  BY <1>1 DEF Typed, Labours, RunInv, PlaceInv, DeedsInv, Preparing, Untried
<1>3. /\ CreateEvent(r) => pc[r] = "create" /\ (Effect(r, 1) \/ UNCHANGED effects)
      /\ Mirror(r) => pc[r] = "mirror" /\ (Effect(r, 2) \/ UNCHANGED effects)
  BY DEF CreateEvent, Mirror, Event, Mirrored
<1>5. effects' \in [Runs -> Seq(Nat)] /\ effects'[r] \in {<<>>, <<1>>, Twice}
  <2>1. CASE UNCHANGED effects
    BY <1>1, <1>2, <2>1
  <2>2. CASE CreateEvent(r) /\ Effect(r, 1)
    BY <1>2, <1>3, <2>2, OnceIncreases DEF Effect
  <2>3. CASE Mirror(r) /\ Effect(r, 2)
    BY <1>2, <1>3, <2>3, OnceIncreases DEF Effect, Twice
  <2>4. QED
    BY <1>3, <2>1, <2>2, <2>3
<1>6. CreateEvent(r) /\ Effect(r, Event) => effects'[r] = <<1>>
  BY <1>2, <1>3, OnceIncreases DEF Effect, Event
<1>7. Labours' /\ Around'
  BY <1>1, <1>5 DEF AtWork, Typed, Labours, Around, batch, pattern
<1>8. Kept(r)'
  BY <1>1, <1>2, <1>5, OnceIncreases, WorkFrame DEF Kept, Gated, Senders
<1>9. Sound(r, Failed)' /\ Sound(r, Succeeded)'
  BY <1>1, OthersSucceed DEF Senders
<1>10. CASE CreateEvent(r) /\ Effect(r, Event) /\ Go(r, "mirror")
  <2>1. Replies' /\ AnswerInv(r)' /\ StoryInv(r)' /\ pc'[r] = "mirror"
    BY <1>1, <1>10, GoInv DEF Working, Acting
  <2>2. PlaceInv(r)' /\ DeedsInv(r)'
    BY <1>1, <1>2, <1>6, <1>8, <1>10, <2>1, WorkFrame
    DEF PlaceInv, DeedsInv, Preparing, AtWork
  <2>3. QED
    BY <1>1, <1>7, <2>1, <2>2, WorkFrame DEF Typed, RunInv
<1>11. CASE Give(r, Failed) \/ Give(r, Succeeded)
  BY <1>1, <1>7, <1>8, <1>9, <1>11, AnswersInv, AnswerTypes
<1>12. CASE Go(r, "observe")
  <2>1. Replies' /\ AnswerInv(r)' /\ StoryInv(r)' /\ pc'[r] = "observe"
    BY <1>1, <1>12, GoInv DEF Working, Acting
  <2>2. PlaceInv(r)' /\ DeedsInv(r)'
    BY <1>1, <1>8, <2>1, WorkFrame DEF PlaceInv, DeedsInv, Preparing, AtWork
  <2>3. QED
    BY <1>1, <1>7, <2>1, <2>2, WorkFrame DEF Typed, RunInv
<1>13. QED
  BY <1>10, <1>11, <1>12 DEF CreateEvent, Mirror

LEMMA ObserveStep ==
  ASSUME NEW r \in Runs, Typed, RunInv(r), Agent(r) = "calendar",
         Observe(r) \/ ReadCount(r)
  PROVE  Typed' /\ RunInv(r)'
<1>1. AtWork(r) /\ pc[r] \in {"observe", "threshold"} /\ UNCHANGED <<batch, deeds, rounds, live>>
      /\ UNCHANGED <<effects, count>>
  BY DEF Observe, ReadCount, AtWork, ending, Working, Acting, deeds
<1>2. Labours' /\ Kept(r)'
  BY <1>1, WorkPasses DEF Typed, Labours, batch
<1>3. Sound(r, Succeeded)'
  BY <1>1, OthersSucceed DEF Senders
<1>4. observed' \in Nat /\ extracted' \in BOOLEAN
      /\ seen' \in [Runs -> {"none", "counted", "read", "unread"}]
  <2>1. observed \in Nat /\ extracted \in BOOLEAN
        /\ seen \in [Runs -> {"none", "counted", "read", "unread"}]
    BY DEF Typed, Around
  <2>2. CASE Observe(r)
    BY <2>1, <2>2 DEF Observe
  <2>3. CASE ReadCount(r)
    BY <2>1, <2>3 DEF ReadCount, Enough
  <2>4. QED
    BY <2>2, <2>3
<1>5. Around'
  BY <1>1, <1>4 DEF AtWork, Typed, Around
<1>6. CASE Give(r, Succeeded)
  BY <1>1, <1>2, <1>3, <1>5, <1>6, AnswersInv, AnswerTypes
<1>7. CASE Go(r, "threshold")
  <2>1. Replies' /\ AnswerInv(r)' /\ StoryInv(r)' /\ pc'[r] = "threshold"
    BY <1>1, <1>7, GoInv DEF Working, Acting
  <2>2. PlaceInv(r)' /\ DeedsInv(r)'
    BY <1>1, <1>2, <2>1, WorkFrame DEF PlaceInv, DeedsInv, Preparing, AtWork
  <2>3. QED
    BY <1>1, <1>2, <1>5, <2>1, <2>2, WorkFrame DEF Typed, RunInv
<1>8. QED
  BY <1>6, <1>7 DEF Observe, ReadCount

----
\* The end of a run

LEMMA RowAdded ==
  ASSUME NEW r \in Runs, logs \in Seq(Rows), NEW s \in Status, InsertRow(r, s)
  PROVE  /\ logs' \in Seq(Rows) /\ Len(logs') = Len(logs) + 1
         /\ DOMAIN logs' = 1 .. Len(logs) + 1
         /\ \A i \in DOMAIN logs : i \in DOMAIN logs' /\ logs'[i] = logs[i]
         /\ logs'[Len(logs) + 1] = [run |-> r, status |-> s]
BY DEF InsertRow, Rows

LEMMA RowsPublished ==
  ASSUME NEW r \in Runs, Log, PublishRow(r), logs' = logs
  PROVE  Log'
BY DEF Log, PublishRow, Rows

LEMMA InsertStep ==
  ASSUME NEW r \in Runs, Typed, RunInv(r), Insert(r)
  PROVE  Typed' /\ RunInv(r)'
<1>1. /\ pc[r] = "log" /\ (InsertRow(r, row[r]) \/ UNCHANGED logs)
      /\ pc' = [pc EXCEPT ![r] = "publish"] /\ UNCHANGED <<row, plan, out>>
      /\ UNCHANGED <<ask, todo, ready, effects, count, rounds, live, observed, seen, extracted>>
      /\ UNCHANGED <<activity, stopping, published, at, view, inbox, known, heard>>
  BY DEF Insert, Go, batch, deeds, pattern, ending, clientVars
<1>2. Replies' /\ Labours' /\ Around' /\ pc'[r] = "publish" /\ row[r] \in Status
  BY <1>1 DEF Typed, Replies, Labours, Around, Labels
<1>3. logs \in Seq(Rows)
  BY DEF Typed, Log
<1>4. Log'
  <2>1. logs' \in Seq(Rows)
    BY <1>1, <1>2, <1>3, RowAdded
  <2>2. QED
    BY <1>1, <2>1 DEF Typed, Log
<1>5. PlaceInv(r)' /\ DeedsInv(r)'
  BY <1>1, <1>2 DEF RunInv, PlaceInv, DeedsInv, Kept, Preparing, Agent, Has, Gated
<1>6. AnswerInv(r)'
  BY <1>1, <1>2 DEF RunInv, AnswerInv, Sound, Asked, Diary, Telling, Agent, Mode, Has
<1>7. /\ \A i \in DOMAIN logs : logs[i].run # r
      /\ Agrees(r, plan[r]) /\ Agrees(r, out[r]) /\ activity[r] = "none"
  BY <1>1 DEF RunInv, StoryInv
<1>8. Agrees(r, plan[r])' /\ Agrees(r, out[r])' /\ activity'[r] = "none"
  BY <1>1, <1>7 DEF Agrees, Agent
<1>9. /\ \A i, j \in DOMAIN logs' : logs'[i].run = r /\ logs'[j].run = r => i = j
      /\ \A i \in DOMAIN logs' : logs'[i].run = r => logs'[i].status = row'[r]
  <2>1. CASE InsertRow(r, row[r])
    <3>1. /\ DOMAIN logs' = 1 .. Len(logs) + 1 /\ DOMAIN logs = 1 .. Len(logs)
          /\ \A i \in DOMAIN logs : logs'[i] = logs[i]
          /\ logs'[Len(logs) + 1] = [run |-> r, status |-> row[r]]
      BY <1>2, <1>3, <2>1, RowAdded
    <3>2. \A i \in DOMAIN logs' : logs'[i].run = r => i = Len(logs) + 1
      BY <1>3, <1>7, <3>1
    <3>3. QED
      BY <1>1, <3>1, <3>2
  <2>2. CASE UNCHANGED logs
    BY <1>1, <1>7, <2>2
  <2>3. QED
    BY <1>1, <2>1, <2>2
<1>10. StoryInv(r)'
  BY <1>2, <1>8, <1>9 DEF StoryInv
<1>11. QED
  BY <1>2, <1>4, <1>5, <1>6, <1>10 DEF Typed, RunInv

LEMMA PublishStep ==
  ASSUME NEW r \in Runs, Typed, RunInv(r), Publish(r)
  PROVE  Typed' /\ RunInv(r)'
<1>1. /\ pc[r] = "publish" /\ (PublishRow(r) \/ UNCHANGED <<published, clientVars>>)
      /\ pc' = [pc EXCEPT ![r] = "record"]
      /\ out' = [out EXCEPT ![r] = IF plan[r] # NoAnswer THEN plan[r] ELSE out[r]]
      /\ UNCHANGED <<ask, row, plan, todo, ready, effects, count, rounds, live, observed>>
      /\ UNCHANGED <<seen, extracted, activity, stopping, logs>>
  BY DEF Publish, batch, deeds, pattern, ending
<1>2. /\ pc'[r] = "record"
      /\ plan[r] # NoAnswer => out'[r] = plan[r]
      /\ plan[r] = NoAnswer => out'[r] = out[r]
      /\ out' \in [Runs -> Answers \cup {NoAnswer}]
  BY <1>1 DEF Typed, Replies
<1>3. Replies' /\ Labours' /\ Around'
  BY <1>1, <1>2 DEF Typed, Replies, Labours, Around, Labels
<1>4. Log'
  <2>1. CASE PublishRow(r)
    BY <1>1, <2>1, RowsPublished DEF Typed
  <2>2. CASE UNCHANGED <<published, clientVars>>
    BY <1>1, <2>2 DEF Typed, Log, clientVars
  <2>3. QED
    BY <1>1, <2>1, <2>2
<1>5. PlaceInv(r)' /\ DeedsInv(r)'
  BY <1>1, <1>2 DEF RunInv, PlaceInv, DeedsInv, Kept, Preparing, Agent, Has, Gated
<1>6. /\ Sound(r, plan[r]) /\ Sound(r, out[r]) /\ (plan[r] # NoAnswer \/ out[r] # NoAnswer)
      /\ Agrees(r, plan[r]) /\ Agrees(r, out[r]) /\ activity[r] = "none"
  BY <1>1 DEF RunInv, AnswerInv, StoryInv
<1>7. out'[r] # NoAnswer /\ Sound(r, out[r])' /\ Sound(r, plan[r])'
  BY <1>1, <1>2, <1>6 DEF Sound, Asked, Diary, Agent, Mode, Has
<1>8. AnswerInv(r)'
  BY <1>2, <1>7 DEF AnswerInv, Telling
<1>9. Agrees(r, out[r])' /\ Agrees(r, plan[r])'
  BY <1>1, <1>2, <1>6 DEF Agrees, Agent
<1>10. StoryInv(r)'
  BY <1>1, <1>2, <1>6, <1>9 DEF RunInv, StoryInv
<1>11. QED
  BY <1>3, <1>4, <1>5, <1>8, <1>10 DEF Typed, RunInv

LEMMA RecordStep ==
  ASSUME NEW r \in Runs, Typed, RunInv(r), Record(r)
  PROVE  Typed' /\ RunInv(r)'
<1>1. /\ pc[r] = "record" /\ (RecordActivity(r) \/ UNCHANGED activity)
      /\ pc' = [pc EXCEPT ![r] = IF r \in stopping THEN "stopped" ELSE "done"]
      /\ UNCHANGED <<row, plan, out>>
      /\ UNCHANGED <<ask, todo, ready, effects, count, rounds, live, observed, seen, extracted>>
      /\ UNCHANGED <<stopping, logs, published, at, view, inbox, known, heard>>
  BY DEF Record, Go, batch, deeds, pattern, ending, logVars
<1>2. /\ pc'[r] \in {"done", "stopped"} /\ (r \in stopping => pc'[r] = "stopped")
      /\ pc' \in [Runs -> Labels]
  BY <1>1 DEF Typed, Replies, Labels, Ended
<1>3. activity' \in [Runs -> {"none", "success", "failure"}]
      /\ (activity'[r] = Recorded(r) \/ activity'[r] = activity[r])
  BY <1>1 DEF Typed, Around, RecordActivity, Recorded
<1>4. Replies' /\ Labours' /\ Around' /\ Log'
  BY <1>1, <1>2, <1>3 DEF Typed, Replies, Labours, Around, Log
<1>5. PlaceInv(r)' /\ DeedsInv(r)'
  BY <1>1, <1>2 DEF RunInv, PlaceInv, DeedsInv, Kept, Preparing, Agent, Has, Gated
<1>6. AnswerInv(r)'
  BY <1>1, <1>2 DEF RunInv, AnswerInv, Sound, Asked, Diary, Telling, Agent, Mode, Has
<1>7. out'[r] # NoAnswer /\ activity[r] = "none" /\ out[r].ok \in BOOLEAN
  BY <1>1, <1>4 DEF RunInv, AnswerInv, StoryInv, Replies, Answers
<1>8. activity'[r] # "none" => (activity'[r] = "success") = out'[r].ok
  BY <1>1, <1>3, <1>7 DEF Recorded
<1>9. StoryInv(r)'
  BY <1>1, <1>2, <1>7, <1>8 DEF RunInv, StoryInv, Agrees, Agent
<1>10. QED
  BY <1>4, <1>5, <1>6, <1>9 DEF Typed, RunInv

----
\* Cancellation, in which the call that was cut short may have had its effect.
LEMMA HalfDoneCases ==
  ASSUME NEW r \in Runs, HalfDone(r)
  PROVE  /\ UNCHANGED logs \/ (pc[r] = "log" /\ InsertRow(r, row[r]))
         /\ UNCHANGED <<published, clientVars>>
              \/ (pc[r] = "publish" /\ PublishRow(r) /\ UNCHANGED logs)
         /\ \/ UNCHANGED effects
            \/ pc[r] = "send" /\ Effect(r, Head(todo[r]))
            \/ pc[r] = "tools" /\ Write(r)
            \/ pc[r] = "create" /\ Effect(r, 1)
            \/ pc[r] = "mirror" /\ Effect(r, 2)
         /\ \/ UNCHANGED live
            \/ pc[r] = "deploy" /\ Put(r, r)
            \/ pc[r] = "rollback" /\ Put(r, Previous)
         /\ UNCHANGED observed \/ observed' = observed + 1
         /\ UNCHANGED activity \/ (pc[r] = "record" /\ RecordActivity(r))
<1>1. CASE /\ \/ pc[r] = "log" /\ InsertRow(r, row[r]) /\ UNCHANGED <<published, clientVars>>
              \/ pc[r] = "publish" /\ PublishRow(r) /\ UNCHANGED logs
              \/ UNCHANGED logVars
           /\ UNCHANGED <<effects, live, observed, activity>>
  BY <1>1 DEF logVars, clientVars
<1>2. CASE /\ \/ pc[r] = "send" /\ Effect(r, Head(todo[r]))
              \/ pc[r] = "tools" /\ Write(r)
              \/ pc[r] = "create" /\ Effect(r, Event)
              \/ pc[r] = "mirror" /\ Effect(r, Mirrored)
           /\ UNCHANGED <<logVars, live, observed, activity>>
  BY <1>2 DEF logVars, clientVars, Event, Mirrored
<1>3. CASE /\ \/ pc[r] = "deploy" /\ Put(r, r)
              \/ pc[r] = "rollback" /\ Put(r, Previous)
           /\ UNCHANGED <<logVars, effects, observed, activity>>
  BY <1>3 DEF logVars, clientVars
<1>4. CASE observed' = observed + 1 /\ UNCHANGED <<logVars, effects, live, activity>>
  BY <1>4 DEF logVars, clientVars
<1>5. CASE pc[r] = "record" /\ RecordActivity(r) /\ UNCHANGED <<logVars, effects, live, observed>>
  BY <1>5 DEF logVars, clientVars
<1>6. QED
  BY <1>1, <1>2, <1>3, <1>4, <1>5 DEF HalfDone

\* What a call that was cut short did comes after what was done before it.
LEMMA EffectHalfDone ==
  ASSUME NEW r \in Runs, Typed, RunInv(r), HalfDone(r), r \notin stopping
  PROVE  /\ effects' \in [Runs -> Seq(Nat)] /\ Increasing(effects'[r])
         /\ effects'[r] # effects[r] =>
              /\ pc[r] \in {"send", "tools", "create", "mirror"}
              /\ Gated(r) => Has(r, "send")
              /\ Agent(r) \in Senders => Len(effects'[r]) = Len(effects[r]) + 1
<1>1. /\ effects \in [Runs -> Seq(Nat)] /\ todo \in [Runs -> Seq(Nat)]
      /\ Increasing(effects[r])
  BY DEF Typed, Labours, RunInv, DeedsInv, Kept
<1>2. CASE UNCHANGED effects
  BY <1>1, <1>2
<1>3. CASE pc[r] = "send" /\ Effect(r, Head(todo[r]))
  <2>1. /\ Has(r, "send") /\ todo[r] # <<>> /\ Increasing(todo[r])
        /\ Ahead(effects[r], todo[r])
    BY <1>3 DEF RunInv, PlaceInv, DeedsInv
  <2>2. effects' = [effects EXCEPT ![r] = Append(effects[r], Head(todo[r]))]
    BY <1>3 DEF Effect
  <2>3. /\ Append(effects[r], Head(todo[r])) \in Seq(Nat)
        /\ Len(Append(effects[r], Head(todo[r]))) = Len(effects[r]) + 1
        /\ Increasing(Append(effects[r], Head(todo[r])))
    BY <1>1, <2>1, Increases
  <2>4. effects'[r] = Append(effects[r], Head(todo[r])) /\ effects' \in [Runs -> Seq(Nat)]
    BY <1>1, <2>2, <2>3
  <2>5. QED
    BY <1>3, <2>1, <2>3, <2>4
<1>4. CASE pc[r] = "tools" /\ Write(r)
  <2>1. Agent(r) = "forge" /\ <<1>> \in Seq(Nat)
    BY <1>4 DEF RunInv, PlaceInv
  <2>2. effects' \in [Runs -> Seq(Nat)] /\ effects'[r] = <<1>>
    BY <1>1, <1>4, <2>1 DEF Write
  <2>3. QED
    BY <1>4, <2>1, <2>2, OnceIncreases DEF Gated, Senders
<1>5. CASE (pc[r] = "create" /\ Effect(r, 1)) \/ (pc[r] = "mirror" /\ Effect(r, 2))
  <2>1. /\ Agent(r) = "calendar" /\ (Has(r, "attendees") => Has(r, "send"))
        /\ pc[r] = "create" => effects[r] = <<>>
        /\ pc[r] = "mirror" => effects[r] = <<1>>
    BY <1>5 DEF RunInv, PlaceInv, DeedsInv, Preparing, Untried
  <2>2. effects' \in [Runs -> Seq(Nat)] /\ effects'[r] \in {<<1>>, Twice}
    BY <1>1, <1>5, <2>1, OnceIncreases DEF Effect, Twice
  <2>3. QED
    BY <1>5, <2>1, <2>2, OnceIncreases DEF Gated, Senders
<1>6. QED
  BY <1>2, <1>3, <1>4, <1>5, HalfDoneCases

LEMMA CancelStep ==
  ASSUME NEW r \in Runs, Typed, RunInv(r), Cancel(r)
  PROVE  Typed' /\ RunInv(r)'
<1>1. /\ pc[r] \notin Ended /\ r \notin stopping /\ HalfDone(r)
      /\ stopping' = stopping \cup {r}
      /\ seen' = [seen EXCEPT ![r] = IF pc[r] = "observe" THEN "unread" ELSE seen[r]]
      /\ pc' = [pc EXCEPT ![r] = IF out[r] # NoAnswer /\ pc[r] # "record"
                                 THEN "record" ELSE "stopped"]
      /\ UNCHANGED <<row, plan, out>>
      /\ UNCHANGED <<ask, todo, ready, count, rounds, extracted>>
  BY DEF Cancel, Go, batch
<1>2. /\ pc' \in [Runs -> Labels] /\ pc'[r] \in {"record", "stopped"}
      /\ pc'[r] = "record" => out[r] # NoAnswer
      /\ pc[r] = "record" => pc'[r] = "stopped"
  BY <1>1 DEF Typed, Replies, Labels, Ended
<1>3. Replies'
  BY <1>1, <1>2 DEF Typed, Replies
<1>4. /\ effects' \in [Runs -> Seq(Nat)] /\ Increasing(effects'[r])
      /\ effects'[r] # effects[r] =>
           /\ pc[r] \in {"send", "tools", "create", "mirror"}
           /\ Gated(r) => Has(r, "send")
           /\ Agent(r) \in Senders => Len(effects'[r]) = Len(effects[r]) + 1
  BY <1>1, EffectHalfDone
<1>5. Labours'
  BY <1>1, <1>4 DEF Typed, Labours
<1>6. activity' \in [Runs -> {"none", "success", "failure"}]
      /\ (activity'[r] = activity[r] \/ (pc[r] = "record" /\ activity'[r] = Recorded(r)))
  BY <1>1, HalfDoneCases DEF Typed, Around, RecordActivity, Recorded
<1>7. /\ live' \in [Targets -> Runs \cup {Previous}]
      /\ live' = live \/ pc[r] \in {"deploy", "rollback"}
  BY <1>1, HalfDoneCases DEF Typed, Around, Put
<1>8. Around'
  <2>1. observed' \in Nat
    BY <1>1, HalfDoneCases DEF Typed, Around
  <2>2. seen' \in [Runs -> {"none", "counted", "read", "unread"}] /\ stopping' \subseteq Runs
    BY <1>1 DEF Typed, Around
  <2>3. QED
    BY <1>1, <1>6, <1>7, <2>1, <2>2 DEF Typed, Around
<1>9. logs \in Seq(Rows) /\ row[r] \in Status
  BY DEF Typed, Log, Replies
<1>10. Log'
  <2>1. CASE pc[r] = "publish" /\ PublishRow(r) /\ UNCHANGED logs
    BY <2>1, RowsPublished DEF Typed
  <2>2. CASE UNCHANGED <<published, clientVars>>
    <3>1. logs' \in Seq(Rows)
      BY <1>1, <1>9, HalfDoneCases, RowAdded
    <3>2. QED
      BY <2>2, <3>1 DEF Typed, Log, clientVars
  <2>3. QED
    BY <1>1, <2>1, <2>2, HalfDoneCases
<1>11. PlaceInv(r)'
  BY <1>2 DEF PlaceInv
<1>12. DeedsInv(r)'
  <2>1. /\ Agent(r)' = Agent(r) /\ (Has(r, "send")' <=> Has(r, "send"))
        /\ (Gated(r)' <=> Gated(r)) /\ r \in stopping'
    BY <1>1 DEF Agent, Has, Gated
  <2>2. Gated(r)' /\ effects'[r] # <<>> => Has(r, "send")'
    BY <1>4, <2>1 DEF RunInv, DeedsInv, Kept
  <2>3. ASSUME Agent(r) \in Senders
        PROVE  /\ count'[r].done <= Len(effects'[r])
               /\ Len(effects'[r]) <= count'[r].done + count'[r].failed + 1
    <3>1. /\ effects[r] \in Seq(Nat) /\ count[r] \in [done : Nat, failed : Nat]
          /\ count'[r] = count[r]
      BY <1>1 DEF Typed, Labours
    <3>2. count[r].done <= Len(effects[r])
          /\ Len(effects[r]) <= count[r].done + count[r].failed + 0
      BY <1>1, <2>3 DEF RunInv, DeedsInv, Kept
    <3>3. Len(effects'[r]) = Len(effects[r]) \/ Len(effects'[r]) = Len(effects[r]) + 1
      BY <1>4, <2>3
    <3>4. Len(effects[r]) \in Nat /\ count[r].done \in Nat /\ count[r].failed \in Nat
      BY <3>1
    <3>5. QED
      BY <3>1, <3>2, <3>3, <3>4
  <2>4. Kept(r)'
    BY <1>4, <2>1, <2>2, <2>3 DEF Kept
  <2>5. QED
    BY <1>2, <2>4 DEF DeedsInv, Preparing
<1>13. AnswerInv(r)'
  <2>1. ASSUME plan[r] # NoAnswer \/ out[r] # NoAnswer
        PROVE  effects'[r] = effects[r] /\ live' = live
    <3>1. pc[r] \in {"alert"} \cup Telling
      BY <2>1 DEF RunInv, AnswerInv
    <3>2. QED
      BY <1>4, <1>7, <3>1 DEF Telling
  <2>2. Sound(r, plan[r])' /\ Sound(r, out[r])'
    BY <1>1, <2>1 DEF RunInv, AnswerInv, Sound, Asked, Diary, Agent, Mode, Has
  <2>3. QED
    BY <1>1, <1>2, <2>2 DEF AnswerInv, Telling
<1>14. StoryInv(r)'
  <2>1. /\ activity[r] = "none" /\ Agrees(r, plan[r])
        /\ pc[r] = "log" => Agrees(r, out[r]) /\ \A i \in DOMAIN logs : logs[i].run # r
    BY <1>1 DEF RunInv, StoryInv, Ended
  <2>2. Agrees(r, plan[r])' /\ (Agrees(r, out[r])' <=> Agrees(r, out[r]))
    BY <1>1, <2>1 DEF Agrees, Agent
  <2>3. /\ \A i, j \in DOMAIN logs' : logs'[i].run = r /\ logs'[j].run = r => i = j
        /\ \A i \in DOMAIN logs' : logs'[i].run = r =>
             logs'[i].status = row'[r] /\ Agrees(r, out[r])
    <3>1. CASE pc[r] = "log" /\ InsertRow(r, row[r])
      <4>1. /\ DOMAIN logs' = 1 .. Len(logs) + 1 /\ DOMAIN logs = 1 .. Len(logs)
            /\ \A i \in DOMAIN logs : logs'[i] = logs[i]
            /\ logs'[Len(logs) + 1] = [run |-> r, status |-> row[r]]
        BY <1>9, <3>1, RowAdded
      <4>2. \A i \in DOMAIN logs' : logs'[i].run = r => i = Len(logs) + 1
        BY <1>9, <2>1, <3>1, <4>1
      <4>3. QED
        BY <1>1, <2>1, <3>1, <4>1, <4>2
    <3>2. CASE UNCHANGED logs
      BY <1>1, <3>2 DEF RunInv, StoryInv
    <3>3. QED
      BY <1>1, <3>1, <3>2, HalfDoneCases
  <2>4. activity'[r] # "none" =>
          /\ pc'[r] = "stopped" /\ out'[r] # NoAnswer
          /\ (activity'[r] = "success") = out'[r].ok
    <3>1. ASSUME activity'[r] # "none"
          PROVE  pc[r] = "record" /\ activity'[r] = Recorded(r)
      BY <1>6, <2>1, <3>1
    <3>2. pc[r] = "record" => out[r] # NoAnswer /\ out[r].ok \in BOOLEAN
      BY <1>1 DEF RunInv, AnswerInv, Typed, Replies, Answers
    <3>3. QED
      BY <1>1, <1>2, <3>1, <3>2 DEF Recorded
  <2>5. QED
    BY <1>2, <2>2, <2>3, <2>4 DEF StoryInv
<1>15. QED
  BY <1>3, <1>5, <1>8, <1>10, <1>11, <1>12, <1>13, <1>14 DEF Typed, RunInv

----
\* The steps of one run

LEMMA StepInv ==
  ASSUME NEW r \in Runs, Typed, RunInv(r), Step(r) \/ Cancel(r)
  PROVE  Typed' /\ RunInv(r)'
<1>1. CASE Titan(r)
  BY <1>1, TitanStep, AlertStep DEF Titan
<1>2. CASE Echo(r) \/ Pm(r) \/ Catch(r) \/ Mark(r)
  BY <1>2, DraftStep, SendStep DEF Echo, Pm, Catch, Mark, Drafting
<1>3. CASE Sentinel(r)
  BY <1>3, DraftStep, SendStep DEF Sentinel
<1>4. CASE Reach(r)
  BY <1>4, ReachStep, SendStep DEF Reach
<1>5. CASE Forge(r) \/ General(r)
  BY <1>5, ChatStep, ToolsStep DEF Forge, General
<1>6. CASE Qt(r)
  BY <1>6, TestStep, DraftStep DEF Qt, Drafting
<1>7. CASE Pulse(r)
  BY <1>7, DraftStep DEF Pulse, Drafting
<1>8. CASE Raw(r)
  BY <1>8, DraftStep, KeepStep DEF Raw, Drafting
<1>9. CASE Calendar(r)
  BY <1>9, ListStep, CreateStep, ObserveStep DEF Calendar
<1>10. CASE Closing(r)
  BY <1>10, InsertStep, PublishStep, RecordStep DEF Closing
<1>11. QED
  BY <1>1, <1>2, <1>3, <1>4, <1>5, <1>6, <1>7, <1>8, <1>9, <1>10, BeginStep, CancelStep
  DEF Step, Process

----
\* What the step of one run leaves of another: all but what the others deploy
\* over it and log beside it.
Apart(u) ==
  /\ UNCHANGED ask
  /\ pc'[u] = pc[u] /\ row'[u] = row[u] /\ plan'[u] = plan[u] /\ out'[u] = out[u]
  /\ todo'[u] = todo[u] /\ ready'[u] = ready[u]
  /\ effects'[u] = effects[u] /\ count'[u] = count[u] /\ rounds'[u] = rounds[u]
  /\ activity'[u] = activity[u] /\ (u \in stopping' <=> u \in stopping)
  /\ \A t \in Targets : live'[t] = u => live[t] = u
  /\ \A i \in DOMAIN logs' : logs'[i].run = u => i \in DOMAIN logs /\ logs'[i] = logs[i]

LEMMA ApartInv ==
  ASSUME NEW u \in Runs, RunInv(u), Apart(u)
  PROVE  RunInv(u)'
<1>1. /\ Agent(u)' = Agent(u) /\ Mode(u)' = Mode(u) /\ (Gated(u)' <=> Gated(u))
      /\ \A f : Has(u, f)' <=> Has(u, f)
  BY DEF Apart, Agent, Mode, Has, Gated
<1>2. PlaceInv(u)'
  BY <1>1 DEF RunInv, PlaceInv, Apart
<1>3. Kept(u)' /\ (Untried(u) => Untried(u)')
  BY <1>1 DEF RunInv, DeedsInv, Kept, Untried, Apart
<1>4. DeedsInv(u)'
  BY <1>1, <1>3 DEF RunInv, DeedsInv, Apart
<1>5. Sound(u, plan[u])' /\ Sound(u, out[u])'
  BY <1>1 DEF RunInv, AnswerInv, Sound, Asked, Diary, Apart
<1>6. AnswerInv(u)'
  BY <1>5 DEF RunInv, AnswerInv, Apart
<1>7. Agrees(u, plan[u])' /\ (Agrees(u, out[u])' <=> Agrees(u, out[u]))
  BY <1>1 DEF RunInv, StoryInv, Agrees, Apart
<1>8. StoryInv(u)'
  BY <1>7 DEF RunInv, StoryInv, Apart
<1>9. QED
  BY <1>2, <1>4, <1>6, <1>8 DEF RunInv

LEMMA ReplyApart ==
  ASSUME NEW r \in Runs, NEW u \in Runs, u # r, Typed, NEW l, NEW s, NEW a,
         \/ Go(r, l) \/ Conclude(r, s, a) \/ HandleError(r) \/ Give(r, a) \/ Alarm(r, a)
  PROVE  pc'[u] = pc[u] /\ row'[u] = row[u] /\ plan'[u] = plan[u] /\ out'[u] = out[u]
BY DEF Typed, Replies, Go, Conclude, HandleError, Give, Alarm

LEMMA ReplyKinds ==
  ASSUME NEW r \in Runs, NEW u \in Runs, u # r, Typed,
         \/ Fail(r) \/ Succeed(r) \/ Ask(r) \/ Escape(r) \/ ClaudeFails(r)
         \/ \E rest, c : SendOrEnd(r, rest, c)
  PROVE  pc'[u] = pc[u] /\ row'[u] = row[u] /\ plan'[u] = plan[u] /\ out'[u] = out[u]
BY ReplyApart DEF Fail, Succeed, Ask, Escape, ClaudeFails, SendOrEnd

\* The variables of a run that are its own.
Left(u) ==
  /\ todo'[u] = todo[u] /\ ready'[u] = ready[u]
  /\ effects'[u] = effects[u] /\ count'[u] = count[u] /\ rounds'[u] = rounds[u]

LEMMA LeftApart ==
  ASSUME NEW r \in Runs, NEW u \in Runs, u # r, Typed,
         UNCHANGED todo \/ \E b : todo' = [todo EXCEPT ![r] = b],
         UNCHANGED ready \/ \E b : ready' = [ready EXCEPT ![r] = b],
         UNCHANGED effects \/ \E b : effects' = [effects EXCEPT ![r] = b],
         UNCHANGED count \/ \E b : count' = [count EXCEPT ![r] = b],
         UNCHANGED rounds \/ \E b : rounds' = [rounds EXCEPT ![r] = b]
  PROVE  Left(u)
BY DEF Left, Typed, Labours

LEMMA RowsApart ==
  ASSUME NEW r \in Runs, NEW u \in Runs, u # r, Typed,
         UNCHANGED logs \/ \E s \in Status : InsertRow(r, s)
  PROVE  \A i \in DOMAIN logs' : logs'[i].run = u => i \in DOMAIN logs /\ logs'[i] = logs[i]
<1>1. CASE UNCHANGED logs
  BY <1>1
<1>2. ASSUME NEW s \in Status, InsertRow(r, s)
      PROVE  \A i \in DOMAIN logs' : logs'[i].run = u => i \in DOMAIN logs /\ logs'[i] = logs[i]
  <2>1. logs \in Seq(Rows)
    BY DEF Typed, Log
  <2>2. /\ DOMAIN logs' = 1 .. Len(logs) + 1 /\ DOMAIN logs = 1 .. Len(logs)
        /\ \A i \in DOMAIN logs : logs'[i] = logs[i]
        /\ logs'[Len(logs) + 1] = [run |-> r, status |-> s]
    BY <1>2, <2>1, RowAdded
  <2>3. logs'[Len(logs) + 1].run = r
    BY <2>2
  <2>4. QED
    BY <2>1, <2>2, <2>3
<1>3. QED
  BY <1>1, <1>2

LEMMA WorkApart ==
  ASSUME NEW r \in Runs, NEW u \in Runs, u # r, Typed,
         UNCHANGED <<ask, live, activity, stopping, logs>>, Left(u),
         pc'[u] = pc[u] /\ row'[u] = row[u] /\ plan'[u] = plan[u] /\ out'[u] = out[u]
  PROVE  Apart(u)
BY DEF Apart, Left

\* The steps that change nothing but the reply, and those that change the batch.
LEMMA DraftApart ==
  ASSUME NEW r \in Runs, NEW u \in Runs, u # r, Typed,
         \/ Begin(r) \/ Ollama(r) \/ Claude(r) \/ Transcribe(r) \/ FetchPr(r) \/ Review(r)
         \/ Discover(r) \/ Chat(r) \/ Test(r) \/ Gather(r) \/ Scan(r) \/ Keep(r) \/ Page(r)
         \/ ListEvents(r) \/ Alert(r)
  PROVE  Apart(u)
<1>1. UNCHANGED <<ask, live, activity, stopping, logs>>
      /\ UNCHANGED <<ready, effects, count, rounds>>
  BY DEF Begin, Ollama, Claude, Transcribe, FetchPr, Review, Discover, Chat, Test,
         Gather, Scan, Keep, Page, ListEvents, Alert, batch, deeds, ending, logVars
<1> DEFINE Batched == UNCHANGED todo \/ \E b : todo' = [todo EXCEPT ![r] = b]
           Replied == /\ pc'[u] = pc[u] /\ row'[u] = row[u]
                      /\ plan'[u] = plan[u] /\ out'[u] = out[u]
<1>2. Deliverable(r) => Batched /\ Replied
  BY ReplyKinds DEF Deliverable
<1>3. Drafted(r) => Batched /\ Replied
  BY <1>2, ReplyKinds, ReplyApart DEF Drafted
<1>4. Begin(r) \/ Chat(r) \/ Test(r) \/ ListEvents(r) \/ Alert(r) => Batched /\ Replied
  <2>1. Begin(r) => Batched /\ Replied
    BY ReplyKinds, ReplyApart DEF Begin, batch
  <2>2. Chat(r) => Batched /\ Replied
    BY ReplyKinds, ReplyApart DEF Chat, batch
  <2>3. Test(r) => Batched /\ Replied
    BY ReplyKinds, ReplyApart DEF Test, batch
  <2>4. ListEvents(r) \/ Alert(r) => Batched /\ Replied
    BY ReplyKinds, ReplyApart DEF ListEvents, Alert, batch
  <2>5. QED
    BY <2>1, <2>2, <2>3, <2>4
<1>5. Ollama(r) \/ Claude(r) \/ Review(r) \/ Discover(r) => Batched /\ Replied
  BY <1>2, <1>3, ReplyKinds, ReplyApart DEF Ollama, Claude, Review, Discover
<1>6. Transcribe(r) \/ FetchPr(r) \/ Gather(r) \/ Scan(r) => Batched /\ Replied
  BY ReplyKinds, ReplyApart DEF Transcribe, FetchPr, Gather, Scan, batch
<1>7. Keep(r) \/ Page(r) => Batched /\ Replied
  BY ReplyKinds, ReplyApart DEF Keep, Page
<1>8. Batched /\ Replied
  BY <1>4, <1>5, <1>6, <1>7
<1>9. Left(u)
  BY <1>1, <1>8, LeftApart
<1>10. QED
  BY <1>1, <1>8, <1>9, WorkApart

\* The steps that do something to the world outside.
LEMMA DoingApart ==
  ASSUME NEW r \in Runs, NEW u \in Runs, u # r, Typed,
         \/ Personalise(r) \/ Rewrite(r) \/ Send(r) \/ Tools(r) \/ CreateEvent(r)
         \/ Mirror(r) \/ Observe(r) \/ ReadCount(r)
  PROVE  Apart(u)
<1>1. UNCHANGED <<ask, live, activity, stopping, logs>>
  BY DEF Personalise, Rewrite, Send, Tools, CreateEvent, Mirror, Observe, ReadCount,
         ending, logVars
<1> DEFINE Replied == /\ pc'[u] = pc[u] /\ row'[u] = row[u]
                      /\ plan'[u] = plan[u] /\ out'[u] = out[u]
<1>2. CASE Personalise(r) \/ Rewrite(r)
  <2>1. Personalised(r) => /\ Replied /\ \E b : todo' = [todo EXCEPT ![r] = b]
                           /\ \E b : ready' = [ready EXCEPT ![r] = b]
    BY ReplyKinds, ReplyApart DEF Personalised, Written
  <2>2. /\ Replied /\ UNCHANGED <<effects, count, rounds>>
        /\ UNCHANGED todo \/ \E b : todo' = [todo EXCEPT ![r] = b]
        /\ UNCHANGED ready \/ \E b : ready' = [ready EXCEPT ![r] = b]
    BY <1>2, <2>1, ReplyApart DEF Personalise, Rewrite, batch, deeds
  <2>3. Left(u)
    BY <2>2, LeftApart
  <2>4. QED
    BY <1>1, <2>2, <2>3, WorkApart
<1>3. CASE Send(r)
  <2>1. /\ Replied /\ UNCHANGED <<ready, rounds>>
        /\ \E b : todo' = [todo EXCEPT ![r] = b]
        /\ \E b : count' = [count EXCEPT ![r] = b]
        /\ UNCHANGED effects \/ \E b : effects' = [effects EXCEPT ![r] = b]
    BY <1>3, ReplyKinds DEF Send, Effect
  <2>2. Left(u)
    BY <2>1, LeftApart
  <2>3. QED
    BY <1>1, <2>1, <2>2, WorkApart
<1>4. CASE Tools(r)
  <2>1. /\ Replied /\ UNCHANGED <<todo, ready, count>>
        /\ \E b : rounds' = [rounds EXCEPT ![r] = b]
        /\ UNCHANGED effects \/ \E b : effects' = [effects EXCEPT ![r] = b]
    BY <1>4, ReplyApart DEF Tools, Write, Round, batch
  <2>2. Left(u)
    BY <2>1, LeftApart
  <2>3. QED
    BY <1>1, <2>1, <2>2, WorkApart
<1>5. CASE CreateEvent(r) \/ Mirror(r) \/ Observe(r) \/ ReadCount(r)
  <2>1. Replied
    BY <1>5, ReplyApart DEF CreateEvent, Mirror, Observe, ReadCount
  <2>2. /\ UNCHANGED <<todo, ready, count, rounds>>
        /\ UNCHANGED effects \/ \E b : effects' = [effects EXCEPT ![r] = b]
    BY <1>5 DEF CreateEvent, Mirror, Observe, ReadCount, Effect, batch, deeds
  <2>3. Left(u)
    BY <2>2, LeftApart
  <2>4. QED
    BY <1>1, <2>1, <2>3, WorkApart
<1>6. QED
  BY <1>2, <1>3, <1>4, <1>5

\* A deployment hides those of others and puts none of them back.
LEMMA PutApart ==
  ASSUME NEW r \in Runs, NEW u \in Runs, u # r, Typed,
         UNCHANGED live \/ Put(r, r) \/ Put(r, Previous)
  PROVE  \A t \in Targets : live'[t] = u => live[t] = u
BY BoundAssumption DEF Typed, Around, Put

LEMMA ReleaseApart ==
  ASSUME NEW r \in Runs, NEW u \in Runs, u # r, Typed, Deploy(r) \/ Rollback(r)
  PROVE  Apart(u)
<1>1. UNCHANGED <<ask, activity, stopping, logs>>
      /\ UNCHANGED <<todo, ready, effects, count, rounds>>
      /\ (UNCHANGED live \/ Put(r, r) \/ Put(r, Previous))
  BY DEF Deploy, Rollback, batch, deeds, ending, logVars
<1>2. pc'[u] = pc[u] /\ row'[u] = row[u] /\ plan'[u] = plan[u] /\ out'[u] = out[u]
  BY ReplyKinds, ReplyApart DEF Deploy, Rollback, RollbackFails
<1>3. QED
  BY <1>1, <1>2, PutApart DEF Apart

LEMMA ClosingApart ==
  ASSUME NEW r \in Runs, NEW u \in Runs, u # r, Typed, Closing(r)
  PROVE  Apart(u)
<1>1. UNCHANGED <<ask, live, todo, ready, effects, count, rounds, stopping>>
  BY DEF Closing, Insert, Publish, Record, batch, deeds, ending
<1>2. pc'[u] = pc[u] /\ row'[u] = row[u] /\ plan'[u] = plan[u] /\ out'[u] = out[u]
  <2>1. CASE Insert(r) \/ Record(r)
    BY <2>1, ReplyApart DEF Insert, Record
  <2>2. CASE Publish(r)
    BY <2>2 DEF Publish, Typed, Replies
  <2>3. QED
    BY <2>1, <2>2 DEF Closing
<1>3. activity'[u] = activity[u]
  BY DEF Closing, Insert, Publish, Record, RecordActivity, Typed, Around, ending
<1>4. UNCHANGED logs \/ \E s \in Status : InsertRow(r, s)
  BY DEF Closing, Insert, Publish, Record, logVars, Typed, Replies
<1>5. QED
  BY <1>1, <1>2, <1>3, <1>4, RowsApart DEF Apart

LEMMA CancelApart ==
  ASSUME NEW r \in Runs, NEW u \in Runs, u # r, Typed, Cancel(r)
  PROVE  Apart(u)
<1>1. /\ HalfDone(r) /\ stopping' = stopping \cup {r}
      /\ UNCHANGED <<ask, todo, ready, count, rounds>>
  BY DEF Cancel, batch
<1>2. pc'[u] = pc[u] /\ row'[u] = row[u] /\ plan'[u] = plan[u] /\ out'[u] = out[u]
  BY ReplyApart DEF Cancel
<1>3. UNCHANGED effects \/ \E b : effects' = [effects EXCEPT ![r] = b]
  BY <1>1, HalfDoneCases DEF Effect, Write
<1>4. Left(u)
  BY <1>1, <1>3, LeftApart
<1>5. activity'[u] = activity[u]
  BY <1>1, HalfDoneCases DEF RecordActivity, Typed, Around
<1>6. UNCHANGED logs \/ \E s \in Status : InsertRow(r, s)
  BY <1>1, HalfDoneCases DEF Typed, Replies
<1>7. UNCHANGED live \/ Put(r, r) \/ Put(r, Previous)
  BY <1>1, HalfDoneCases
<1>8. QED
  BY <1>1, <1>2, <1>4, <1>5, <1>6, <1>7, RowsApart, PutApart DEF Apart, Left

LEMMA StepApart ==
  ASSUME NEW r \in Runs, NEW u \in Runs, u # r, Typed, Step(r) \/ Cancel(r)
  PROVE  Apart(u)
BY DraftApart, DoingApart, ReleaseApart, ClosingApart, CancelApart
DEF Step, Process, Titan, Echo, Pm, Catch, Mark, Sentinel, Reach, Forge, General, Qt,
    Pulse, Raw, Calendar, Drafting

----
\* The readers

LEMMA ShownTypes ==
  ASSUME NEW rows \in Seq(Rows)
  PROVE  /\ Shown(rows) \in Seq(Runs) /\ Len(Shown(rows)) = Len(rows)
         /\ \A i \in 1 .. Len(rows) : Shown(rows)[i] = rows[i].run
<1>1. DOMAIN rows = 1 .. Len(rows) /\ Len(rows) \in Nat
  OBVIOUS
<1>2. \A i \in 1 .. Len(rows) : rows[i] \in Rows
  OBVIOUS
<1>3. \A i \in 1 .. Len(rows) : rows[i].run \in Runs
  BY <1>2 DEF Rows
<1>4. Shown(rows) = [i \in 1 .. Len(rows) |-> rows[i].run]
  BY <1>1 DEF Shown
<1>5. QED
  BY <1>1, <1>3, <1>4

LEMMA ReplayedTypes ==
  ASSUME Log
  PROVE  Beyond \in Nat /\ Beyond <= Len(logs) /\ Replayed \in Seq(Runs)
<1>1. logs \in Seq(Rows) /\ Len(logs) \in Nat /\ ReplayLimit \in Nat
  BY EventLogAssumption DEF Log
<1>2. Beyond \in Nat /\ Beyond <= Len(logs)
  BY <1>1 DEF Beyond
<1>3. SubSeq(logs, Beyond + 1, Len(logs)) \in Seq(Rows)
  BY <1>1, <1>2
<1>4. QED
  BY <1>2, <1>3, ShownTypes DEF Replayed

LEMMA ReadStep ==
  ASSUME NEW c \in Clients, Typed, Read(c)
  PROVE  Typed' /\ \A u \in Runs : Apart(u)
<1>1. /\ UNCHANGED <<ask, pc, row, plan, out, todo, ready, effects, count, rounds, live>>
      /\ UNCHANGED <<observed, seen, extracted, activity, stopping, logs, published>>
      /\ Reader(c)
  BY DEF Read, Reader, Replay, Subscribe, Deliver, Reconnect, reply, batch, deeds,
         pattern, ending
<1>2. Log
  BY DEF Typed
<1>3. Log'
  <2>1. CASE Replay(c)
    BY <1>1, <1>2, <2>1, ReplayedTypes DEF Log, Replay
  <2>2. CASE Subscribe(c)
    BY <1>1, <1>2, <2>2 DEF Log, Subscribe
  <2>3. CASE Deliver(c)
    <3>1. /\ inbox[c] \in Seq(Runs) /\ inbox[c] # <<>> /\ view[c] \in Seq(Runs)
          /\ view' = [view EXCEPT ![c] = Append(view[c], Head(inbox[c]))]
          /\ inbox' = [inbox EXCEPT ![c] = Tail(inbox[c])]
          /\ UNCHANGED <<logs, published, at, known, heard>>
      BY <1>2, <2>3 DEF Log, Deliver
    <3>2. Tail(inbox[c]) \in Seq(Runs) /\ Append(view[c], Head(inbox[c])) \in Seq(Runs)
      BY <3>1
    <3>3. QED
      BY <1>2, <3>1, <3>2 DEF Log
  <2>4. CASE Reconnect(c)
    <3>1. <<>> \in Seq(Runs)
      OBVIOUS
    <3>2. QED
      BY <1>1, <1>2, <2>4, <3>1 DEF Log, Reconnect
  <2>5. QED
    BY <1>1, <2>1, <2>2, <2>3, <2>4 DEF Reader
<1>4. Typed'
  BY <1>1, <1>3 DEF Typed, Replies, Labours, Around
<1>5. QED
  BY <1>1, <1>4 DEF Apart

----
\* The invariant of all runs

Inv == Typed /\ \A r \in Runs : RunInv(r)

LEMMA InitInv ==
  ASSUME Init
  PROVE  Inv
<1>1. /\ ask \in Loads /\ pc = [r \in Runs |-> "context"] /\ row = [r \in Runs |-> "success"]
      /\ plan = [r \in Runs |-> NoAnswer] /\ out = [r \in Runs |-> NoAnswer]
      /\ todo = [r \in Runs |-> <<>>] /\ ready = [r \in Runs |-> <<>>]
      /\ effects = [r \in Runs |-> <<>>]
      /\ count = [r \in Runs |-> [done |-> 0, failed |-> 0]]
      /\ rounds = [r \in Runs |-> 0] /\ live = [t \in Targets |-> Previous]
      /\ observed \in Before0 /\ seen = [r \in Runs |-> "none"] /\ extracted = FALSE
      /\ activity = [r \in Runs |-> "none"] /\ stopping = {}
  BY DEF Init
<1>2. Replies
  BY <1>1 DEF Replies, Labels, Status
<1>3. <<>> \in Seq(Nat) /\ [done |-> 0, failed |-> 0] \in [done : Nat, failed : Nat]
      /\ 0 \in 0 .. MaxRounds
  BY BoundAssumption
<1>4. Labours
  BY <1>1, <1>3 DEF Labours
<1>5. Around
  BY <1>1, BoundAssumption DEF Around
<1>6. Log
  BY DEF Init, InitLog, Log
<1>7. ASSUME NEW r \in Runs
      PROVE  RunInv(r)
  <2>1. /\ pc[r] = "context" /\ plan[r] = NoAnswer /\ out[r] = NoAnswer
        /\ ready[r] = <<>> /\ effects[r] = <<>> /\ rounds[r] = 0
        /\ count[r].done = 0 /\ count[r].failed = 0
        /\ activity[r] = "none" /\ r \notin stopping
    BY <1>1
  <2>2. PlaceInv(r)
    BY <2>1 DEF PlaceInv
  <2>3. Len(<<>>) = 0
    OBVIOUS
  <2>4. DeedsInv(r)
    BY <2>1, <2>3, OnceIncreases DEF DeedsInv, Kept, Untried
  <2>5. AnswerInv(r)
    BY <2>1 DEF AnswerInv, Sound
  <2>6. DOMAIN logs = {}
    BY DEF Init, InitLog
  <2>7. StoryInv(r)
    BY <2>1, <2>6 DEF StoryInv, Agrees
  <2>8. QED
    BY <2>2, <2>4, <2>5, <2>7 DEF RunInv
<1>8. QED
  BY <1>2, <1>4, <1>5, <1>6, <1>7 DEF Inv, Typed

LEMMA StutterApart ==
  ASSUME UNCHANGED vars
  PROVE  /\ Typed => Typed'
         /\ \A u \in Runs : Apart(u)
<1>1. /\ UNCHANGED <<ask, pc, row, plan, out, todo, ready, effects, count, rounds, live>>
      /\ UNCHANGED <<observed, seen, extracted, activity, stopping, logs, published>>
      /\ UNCHANGED <<at, view, inbox, known, heard>>
  BY DEF vars, reply, batch, deeds, pattern, ending, logVars
<1>2. QED
  BY <1>1 DEF Typed, Replies, Labours, Around, Log, Apart

LEMMA NextInv ==
  ASSUME Inv, [Next]_vars
  PROVE  Inv'
<1>1. CASE UNCHANGED vars
  BY <1>1, StutterApart, ApartInv DEF Inv
<1>2. ASSUME NEW c \in Clients, Read(c)
      PROVE  Inv'
  BY <1>2, ReadStep, ApartInv DEF Inv
<1>3. ASSUME NEW r \in Runs, Step(r) \/ Cancel(r)
      PROVE  Inv'
  <2>1. Typed' /\ RunInv(r)'
    BY <1>3, StepInv DEF Inv
  <2>2. ASSUME NEW u \in Runs, u # r
        PROVE  RunInv(u)'
    BY <1>3, <2>2, StepApart, ApartInv DEF Inv
  <2>3. QED
    BY <2>1, <2>2 DEF Inv
<1>4. QED
  BY <1>1, <1>2, <1>3 DEF Next

LEMMA Invariance == Spec => []Inv
<1>1. Init => Inv
  BY InitInv
<1>2. Inv /\ [Next]_vars => Inv'
  BY NextInv
<1>3. QED
  BY <1>1, <1>2, PTL DEF Spec

----
\* What the specialists are held to

\* The state has its types, and an output is there when it is recorded.
THEOREM TypeCorrect == Spec => []TypeOK
<1>1. Inv => TypeOK
  <2>1. SUFFICES ASSUME Inv PROVE TypeOK
    OBVIOUS
  <2>2. Typed /\ \A r \in Runs : RunInv(r)
    BY <2>1 DEF Inv
  <2>3. \A i \in DOMAIN logs : logs[i] \in [run : Runs, status : Status]
    <3>1. \A i \in DOMAIN logs : logs[i] \in Rows
      BY <2>2 DEF Typed, Log
    <3>2. QED
      BY <3>1 DEF Rows
  <2>4. LogTypeOK
    BY <2>2, <2>3 DEF Typed, Log, LogTypeOK
  <2>5. \A r \in Runs : pc[r] \in {"record", "done"} => out[r] # NoAnswer
    BY <2>2 DEF RunInv, AnswerInv
  <2>6. QED
    BY <2>2, <2>4, <2>5 DEF TypeOK, Typed, Replies, Labours, Around
<1>2. QED
  BY <1>1, Invariance, PTL

\* A gated agent acts outside only in a run with send, and nobody asks for
\* approval of what is already done: the requires_approval paths of the agents.
THEOREM ApprovalGate == Spec => []NothingWithoutLeave
<1>1. Inv => NothingWithoutLeave
  BY DEF Inv, RunInv, DeedsInv, Kept, AnswerInv, Sound, NothingWithoutLeave
<1>2. QED
  BY <1>1, Invariance, PTL

\* Row, answer and activity of a run agree (BaseAgent.log, the finally blocks).
THEOREM OneStoryTold == Spec => []OneStory
<1>1. ASSUME Inv, NEW r \in Runs, NEW mine, mine = {i \in DOMAIN logs : logs[i].run = r}
      PROVE  /\ Cardinality(mine) <= 1
             /\ \A i \in mine :
                  out[r] # NoAnswer =>
                    \/ (logs[i].status = "success") = out[r].ok
                    \/ (Agent(r) = "qt" /\ logs[i].status = "success")
             /\ activity[r] # "none" =>
                  out[r] # NoAnswer /\ (activity[r] = "success") = out[r].ok
             /\ pc[r] = "raised" => mine = {} /\ activity[r] = "none"
  <2>1. StoryInv(r)
    BY <1>1 DEF Inv, RunInv
  <2>2. \A i, j \in mine : i = j
    BY <1>1, <2>1 DEF StoryInv
  <2>3. Cardinality(mine) <= 1
    <3>1. CASE mine = {}
      BY <3>1, FS_EmptySet
    <3>2. CASE mine # {}
      <4>1. PICK i \in mine : mine = {i}
        BY <2>2, <3>2
      <4>2. Cardinality(mine) = 1
        BY <4>1, FS_Singleton, Zenon
      <4>3. QED
        BY <4>2
    <3>3. QED
      BY <3>1, <3>2
  <2>4. /\ \A i \in mine : logs[i].status = row[r] /\ Agrees(r, out[r])
        /\ pc[r] = "raised" => mine = {} /\ activity[r] = "none"
    BY <1>1, <2>1 DEF StoryInv
  <2>5. QED
    BY <2>1, <2>3, <2>4 DEF StoryInv, Agrees
<1>2. Inv => OneStory
  BY <1>1 DEF OneStory
<1>3. QED
  BY <1>2, Invariance, PTL

LEMMA IncreasingIsInjective ==
  ASSUME NEW s \in Seq(Nat), Increasing(s)
  PROVE  IsInjective(s)
<1>1. DOMAIN s = 1 .. Len(s) /\ \A i \in DOMAIN s : s[i] \in Nat
  OBVIOUS
<1>2. ASSUME NEW i \in DOMAIN s, NEW j \in DOMAIN s, s[i] = s[j]
      PROVE  i = j
  BY <1>1, <1>2 DEF Increasing
<1>3. QED
  BY <1>2 DEF IsInjective

\* Counts say what was done, and nothing is done twice (the send loops).
THEOREM CountsAreHonest == Spec => []CountsHonest
<1>1. Inv => CountsHonest
  <2>1. ASSUME Inv, NEW r \in Runs
        PROVE  IsInjective(effects[r])
    BY <2>1, IncreasingIsInjective DEF Inv, Typed, Labours, RunInv, DeedsInv, Kept
  <2>2. ASSUME Inv, NEW r \in Runs,
               Agent(r) \in {"echo", "sentinel", "pm", "catch", "reach", "mark"}
        PROVE  /\ count[r].done <= Len(effects[r])
               /\ Len(effects[r]) <= count[r].done + count[r].failed
                                       + (IF r \in stopping THEN 1 ELSE 0)
               /\ out[r] # NoAnswer /\ ~out[r].ok => count[r].done = 0
               /\ out[r] # NoAnswer /\ out[r].ok /\ effects[r] = <<>> =>
                    \/ out[r].held
                    \/ Agent(r) = "reach"
                    \/ Agent(r) = "catch" /\ count[r].failed = 0
    BY <2>2 DEF Inv, RunInv, DeedsInv, Kept, AnswerInv, Sound, Senders
  <2>3. QED
    BY <2>1, <2>2 DEF CountsHonest
<1>2. QED
  BY <1>1, Invariance, PTL

\* A deployment reported as rolled back is not in production (TITAN's _rollback).
THEOREM RollbackIsTruthful == Spec => []RollbackTruthful
<1>1. Inv => RollbackTruthful
  BY DEF Inv, RunInv, AnswerInv, Sound, RollbackTruthful
<1>2. QED
  BY <1>1, Invariance, PTL

\* The slot offered is the first that is free (_first_free_slot).
THEOREM SlotIsFirst == Spec => []OffersFirstSlot
<1>1. Inv => OffersFirstSlot
  BY DEF Inv, RunInv, AnswerInv, Sound, OffersFirstSlot, Answered, Offered
<1>2. QED
  BY <1>1, Invariance, PTL

----
\* The pattern

LEMMA PatternKept ==
  ASSUME Typed, ThresholdSeen, [Next]_vars
  PROVE  ThresholdSeen'
<1>1. /\ seen \in [Runs -> {"none", "counted", "read", "unread"}] /\ observed \in Nat
      /\ extracted \in BOOLEAN /\ Threshold \in Nat
  BY BoundAssumption DEF Typed, Around
<1>2. CASE UNCHANGED pattern
  BY <1>2 DEF ThresholdSeen, pattern
<1>3. ASSUME NEW r \in Runs, seen'[r] \in {"counted", "unread"}
      PROVE  ThresholdSeen'
  BY <1>3 DEF ThresholdSeen
<1>4. ASSUME NEW r \in Runs, Observe(r)
      PROVE  ThresholdSeen'
  <2>1. CASE seen' = [seen EXCEPT ![r] = "counted"]
    BY <1>1, <1>3, <2>1
  <2>2. CASE UNCHANGED <<observed, seen>>
    BY <1>2, <1>4, <2>2 DEF Observe, pattern
  <2>3. QED
    BY <1>4, <2>1, <2>2 DEF Observe
<1>5. ASSUME NEW r \in Runs, ReadCount(r)
      PROVE  ThresholdSeen'
  <2>1. CASE extracted' = (extracted \/ Enough)
    <3>1. observed' = observed
      BY <1>5 DEF ReadCount
    <3>2. CASE observed >= Threshold
      BY <2>1, <3>2 DEF Enough, ThresholdSeen
    <3>3. CASE ~(observed >= Threshold)
      BY <3>1, <3>3 DEF ThresholdSeen
    <3>4. QED
      BY <3>2, <3>3
  <2>2. CASE seen' = [seen EXCEPT ![r] = "unread"]
    BY <1>1, <1>3, <2>2
  <2>3. QED
    BY <1>5, <2>1, <2>2 DEF ReadCount
<1>6. ASSUME NEW r \in Runs, Cancel(r)
      PROVE  ThresholdSeen'
  <2>1. CASE pc[r] = "observe"
    <3>1. seen'[r] = "unread"
      BY <1>1, <1>6, <2>1 DEF Cancel
    <3>2. QED
      BY <1>3, <3>1
  <2>2. CASE pc[r] # "observe"
    <3>1. seen' = seen /\ extracted' = extracted
      BY <1>1, <1>6, <2>2 DEF Cancel
    <3>2. observed' = observed
      BY <1>6, <2>2 DEF Cancel, HalfDone
    <3>3. QED
      BY <1>2, <3>1, <3>2 DEF pattern
  <2>3. QED
    BY <2>1, <2>2
<1>7. ASSUME NEW r \in Runs, Begin(r) \/ Closing(r) \/ Titan(r) \/ Echo(r) \/ Pm(r)
               \/ Catch(r) \/ Mark(r) \/ Sentinel(r) \/ Reach(r)
      PROVE  UNCHANGED pattern
  BY <1>7 DEF Begin, Closing, Insert, Publish, Record, Titan, Deploy, Rollback, Alert,
       Echo, Pm, Catch, Mark, Drafting, Ollama, Claude, Send, Transcribe, Sentinel,
       FetchPr, Review, Reach, Discover, Personalise, Rewrite
<1>8. ASSUME NEW r \in Runs, Forge(r) \/ General(r) \/ Qt(r) \/ Pulse(r) \/ Raw(r)
               \/ (Agent(r) = "calendar" /\ (ListEvents(r) \/ CreateEvent(r) \/ Mirror(r)))
      PROVE  UNCHANGED pattern
  BY <1>8 DEF Forge, General, Chat, Tools, Qt, Test, Pulse, Gather, Raw, Scan, Keep, Page,
       Drafting, Ollama, Claude, ListEvents, CreateEvent, Mirror
<1>9. ASSUME NEW r \in Runs, Step(r)
      PROVE  ThresholdSeen'
  BY <1>2, <1>4, <1>5, <1>7, <1>8, <1>9 DEF Step, Process, Calendar
<1>10. ASSUME NEW c \in Clients, Read(c)
       PROVE  UNCHANGED pattern
  BY <1>10 DEF Read
<1>11. CASE UNCHANGED vars
  BY <1>2, <1>11 DEF vars
<1>12. QED
  BY <1>2, <1>6, <1>9, <1>10, <1>11 DEF Next

\* When all who counted have read the count, a pattern at the threshold has had
\* its extraction started (observe_interaction).
THEOREM ThresholdIsSeen == Spec => []ThresholdSeen
<1>1. Init => ThresholdSeen
  BY DEF Init, ThresholdSeen
<1>2. Inv /\ ThresholdSeen /\ [Next]_vars => ThresholdSeen'
  BY PatternKept DEF Inv
<1>3. QED
  BY <1>1, <1>2, Invariance, PTL DEF Spec

----
\* What the readers show

Places(r, s) == {i \in DOMAIN s : s[i] = r}

LEMMA PlacesFinite ==
  ASSUME NEW r, NEW s \in Seq(Runs)
  PROVE  /\ IsFiniteSet(Places(r, s)) /\ Times(r, s) = Cardinality(Places(r, s))
         /\ Times(r, s) \in Nat /\ Places(r, s) \subseteq 1 .. Len(s)
<1>1. DOMAIN s = 1 .. Len(s) /\ Len(s) \in Int /\ 1 \in Int
  OBVIOUS
<1>2. Places(r, s) \in SUBSET (1 .. Len(s))
  BY <1>1 DEF Places
<1>3. IsFiniteSet(1 .. Len(s))
  BY <1>1, FS_Interval
<1>4. IsFiniteSet(Places(r, s))
  BY <1>2, <1>3, FS_Subset
<1>5. Times(r, s) = Cardinality(Places(r, s))
  BY DEF Times, Places
<1>6. QED
  BY <1>2, <1>4, <1>5, FS_CardinalityType

LEMMA TimesEmpty ==
  ASSUME NEW r
  PROVE  Times(r, <<>>) = 0
<1>1. {i \in DOMAIN <<>> : <<>>[i] = r} = {}
  OBVIOUS
<1>2. QED
  BY <1>1, FS_EmptySet DEF Times

LEMMA TimesOnce ==
  ASSUME NEW r, NEW s \in Seq(Runs), \A i, j \in DOMAIN s : s[i] = r /\ s[j] = r => i = j
  PROVE  /\ (\E i \in DOMAIN s : s[i] = r) => Times(r, s) = 1
         /\ ~(\E i \in DOMAIN s : s[i] = r) => Times(r, s) = 0
<1>1. Times(r, s) = Cardinality(Places(r, s))
  BY PlacesFinite
<1>2. ASSUME NEW i \in DOMAIN s, s[i] = r
      PROVE  Times(r, s) = 1
  <2>1. Places(r, s) = {i}
    BY <1>2 DEF Places
  <2>2. QED
    BY <1>1, <2>1, FS_Singleton, Zenon
<1>3. ASSUME ~(\E i \in DOMAIN s : s[i] = r)
      PROVE  Times(r, s) = 0
  <2>1. Places(r, s) = {}
    BY <1>3 DEF Places
  <2>2. QED
    BY <1>1, <2>1, FS_EmptySet
<1>4. QED
  BY <1>2, <1>3

LEMMA TimesAppend ==
  ASSUME NEW r, NEW s \in Seq(Runs), NEW x \in Runs
  PROVE  /\ x = r => Times(r, Append(s, x)) = Times(r, s) + 1
         /\ x # r => Times(r, Append(s, x)) = Times(r, s)
<1> DEFINE t == Append(s, x)
<1>1. /\ t \in Seq(Runs) /\ Len(s) \in Nat /\ DOMAIN s = 1 .. Len(s)
      /\ DOMAIN t = 1 .. Len(s) + 1 /\ t[Len(s) + 1] = x
      /\ \A i \in 1 .. Len(s) : t[i] = s[i]
  OBVIOUS
<1> HIDE DEF t
<1>2. /\ Times(r, t) = Cardinality(Places(r, t)) /\ Times(r, s) = Cardinality(Places(r, s))
      /\ IsFiniteSet(Places(r, s)) /\ Len(s) + 1 \notin Places(r, s)
  <2>1. /\ Times(r, s) = Cardinality(Places(r, s)) /\ IsFiniteSet(Places(r, s))
        /\ Places(r, s) \subseteq 1 .. Len(s)
    BY PlacesFinite
  <2>2. Times(r, t) = Cardinality(Places(r, t))
    BY <1>1, PlacesFinite
  <2>3. Len(s) + 1 \notin 1 .. Len(s)
    BY <1>1
  <2>4. QED
    BY <2>1, <2>2, <2>3
<1>3. CASE x = r
  <2>1. Places(r, t) = Places(r, s) \cup {Len(s) + 1}
    BY <1>1, <1>3 DEF Places
  <2>2. Cardinality(Places(r, s) \cup {Len(s) + 1}) = Cardinality(Places(r, s)) + 1
    BY <1>2, FS_AddElement
  <2>3. QED
    BY <1>2, <1>3, <2>1, <2>2 DEF t
<1>4. CASE x # r
  <2>1. Places(r, t) = Places(r, s)
    BY <1>1, <1>4 DEF Places
  <2>2. QED
    BY <1>2, <1>4, <2>1 DEF t
<1>5. QED
  BY <1>3, <1>4

LEMMA TimesTail ==
  ASSUME NEW r, NEW s \in Seq(Runs), s # <<>>
  PROVE  /\ Head(s) = r => Times(r, s) = Times(r, Tail(s)) + 1
         /\ Head(s) # r => Times(r, s) = Times(r, Tail(s))
<1> DEFINE t == Tail(s)
           S == Places(r, t)
           T == Places(r, s) \ {1}
           f == [i \in S |-> i + 1]
<1>1. /\ t \in Seq(Runs) /\ Len(s) \in Nat /\ DOMAIN s = 1 .. Len(s) /\ 1 \in 1 .. Len(s)
      /\ DOMAIN t = 1 .. Len(s) - 1 /\ Head(s) = s[1]
      /\ \A i \in 1 .. Len(s) - 1 : t[i] = s[i + 1]
  OBVIOUS
<1> HIDE DEF t
<1>2. /\ Times(r, t) = Cardinality(S) /\ IsFiniteSet(S)
      /\ Times(r, s) = Cardinality(Places(r, s)) /\ IsFiniteSet(Places(r, s))
      /\ Times(r, s) \in Nat
  BY <1>1, PlacesFinite
<1>3. /\ \A i \in S : i \in Int /\ i + 1 \in T
      /\ \A j \in T : j \in Int /\ j - 1 \in S
  BY <1>1 DEF Places
<1>4. f \in Injection(S, T)
  BY <1>3 DEF Injection, IsInjective
<1>5. f \in Surjection(S, T)
  <2>1. ASSUME NEW j \in T
        PROVE  \E i \in S : f[i] = j
    <3>1. j - 1 \in S /\ j \in Int
      BY <1>3
    <3>2. f[j - 1] = j
      BY <3>1
    <3>3. QED
      BY <3>1, <3>2
  <2>2. f \in [S -> T]
    BY <1>3
  <2>3. QED
    BY <2>1, <2>2 DEF Surjection
<1>6. ExistsBijection(S, T)
  BY <1>4, <1>5 DEF ExistsBijection, Bijection
<1> HIDE DEF S, T, f
<1>7. Cardinality(T) = Cardinality(S)
  BY <1>2, <1>6, FS_Bijection
<1>8. Cardinality(T) = IF 1 \in Places(r, s) THEN Cardinality(Places(r, s)) - 1
                       ELSE Cardinality(Places(r, s))
  BY <1>2, FS_RemoveElement DEF T
<1>9. 1 \in Places(r, s) <=> Head(s) = r
  BY <1>1 DEF Places
<1>10. QED
  BY <1>2, <1>7, <1>8, <1>9 DEF t

\* The rows of the replay, and the messages since the subscription.
InReplay(r, c) ==
  \E i \in DOMAIN logs : logs[i].run = r /\ known[c] - ReplayLimit < i /\ i <= known[c]
Heard(r, c) == \E i \in DOMAIN published : heard[c] < i /\ published[i] = r
One(b) == IF b THEN 1 ELSE 0

\* A run is published once, after it was logged.
ChannelInv ==
  /\ \A i, j \in DOMAIN published : published[i] = published[j] => i = j
  /\ \A i \in DOMAIN published : pc[published[i]] \in {"record", "done", "stopped"}

\* What a reader has is what was replayed and what it heard since.
ReaderInv(c) ==
  /\ heard[c] <= Len(published) /\ known[c] <= Len(logs)
  /\ at[c] # "listen" => inbox[c] = <<>>
  /\ at[c] = "subscribe" => \A r \in Runs : Times(r, view[c]) = One(InReplay(r, c))
  /\ at[c] = "listen" => \A r \in Runs :
       Times(r, view[c]) + Times(r, inbox[c]) = One(InReplay(r, c)) + One(Heard(r, c))

ShownInv == ChannelInv /\ \A c \in Clients : ReaderInv(c)

LEMMA AfterIsHeard ==
  ASSUME Log, NEW c \in Clients, NEW r
  PROVE  r \in After(c) <=> Heard(r, c)
<1> DEFINE later == SubSeq(published, heard[c] + 1, Len(published))
           n == Len(published) - heard[c]
<1>1. published \in Seq(Runs) /\ heard[c] \in Nat /\ Len(published) \in Nat
      /\ DOMAIN published = 1 .. Len(published)
  BY DEF Log
<1>2. /\ DOMAIN later = 1 .. n
      /\ \A i \in 1 .. n : later[i] = published[i + heard[c]]
  BY <1>1
<1> HIDE DEF later
<1>3. r \in After(c) <=> \E i \in 1 .. n : published[i + heard[c]] = r
  BY <1>2 DEF After, ToSet, later
<1>4. ASSUME NEW i \in 1 .. n, published[i + heard[c]] = r
      PROVE  Heard(r, c)
  <2>1. i + heard[c] \in DOMAIN published /\ heard[c] < i + heard[c]
    BY <1>1
  <2>2. QED
    BY <1>4, <2>1 DEF Heard
<1>5. ASSUME Heard(r, c)
      PROVE  \E i \in 1 .. n : published[i + heard[c]] = r
  <2>1. PICK j \in DOMAIN published : heard[c] < j /\ published[j] = r
    BY <1>5 DEF Heard
  <2>2. j - heard[c] \in 1 .. n /\ (j - heard[c]) + heard[c] = j
    BY <1>1, <2>1
  <2>3. QED
    BY <2>1, <2>2
<1>6. QED
  BY <1>3, <1>4, <1>5

LEMMA LatestOf ==
  ASSUME NEW S, NEW s \in Seq(S), NEW m \in Nat, m <= Len(s)
  PROVE  /\ SubSeq(s, m + 1, Len(s)) \in Seq(S)
         /\ Len(SubSeq(s, m + 1, Len(s))) = Len(s) - m
         /\ \A i \in 1 .. Len(s) - m : SubSeq(s, m + 1, Len(s))[i] = s[i + m]
OBVIOUS

\* The rows of the replay are those from beyond the LIMIT on.
LEMMA ReplayShows ==
  ASSUME Inv, NEW r \in Runs
  PROVE  /\ (\E i \in DOMAIN logs : logs[i].run = r /\ Len(logs) - ReplayLimit < i)
              => Times(r, Replayed) = 1
         /\ ~(\E i \in DOMAIN logs : logs[i].run = r /\ Len(logs) - ReplayLimit < i)
              => Times(r, Replayed) = 0
<1> DEFINE rows == SubSeq(logs, Beyond + 1, Len(logs))
           n == Len(logs) - Beyond
<1>1. /\ logs \in Seq(Rows) /\ Len(logs) \in Nat /\ DOMAIN logs = 1 .. Len(logs)
      /\ Beyond \in Nat /\ Beyond <= Len(logs) /\ Replayed \in Seq(Runs)
  BY ReplayedTypes DEF Inv, Typed, Log
<1>2. /\ rows \in Seq(Rows) /\ Len(rows) = n
      /\ \A i \in 1 .. n : rows[i] = logs[i + Beyond]
  BY <1>1, LatestOf
<1>s. Replayed = Shown(rows)
  BY DEF Replayed
<1> HIDE DEF rows
<1>t. /\ Shown(rows) \in Seq(Runs) /\ Len(Shown(rows)) = n
      /\ \A i \in 1 .. n : Shown(rows)[i] = rows[i].run
  BY <1>2, ShownTypes
<1>3. /\ DOMAIN Replayed = 1 .. n
      /\ \A i \in 1 .. n : Replayed[i] = logs[i + Beyond].run
  BY <1>2, <1>s, <1>t
<1>4. \A i, j \in DOMAIN logs : logs[i].run = r /\ logs[j].run = r => i = j
  BY DEF Inv, RunInv, StoryInv
<1>5. ASSUME NEW i \in DOMAIN Replayed, NEW j \in DOMAIN Replayed,
             Replayed[i] = r, Replayed[j] = r
      PROVE  i = j
  <2>1. i + Beyond \in DOMAIN logs /\ j + Beyond \in DOMAIN logs
    BY <1>1, <1>3
  <2>2. i + Beyond = j + Beyond
    BY <1>3, <1>4, <1>5, <2>1
  <2>3. QED
    BY <1>1, <1>3, <2>2
<1>6. ReplayLimit \in Nat \ {0} /\ \A i \in DOMAIN logs : Len(logs) - ReplayLimit < i <=> Beyond < i
  BY <1>1, EventLogAssumption DEF Beyond
<1>7. (\E i \in DOMAIN Replayed : Replayed[i] = r)
        <=> \E i \in DOMAIN logs : logs[i].run = r /\ Beyond < i
  <2>1. ASSUME NEW i \in DOMAIN Replayed, Replayed[i] = r
        PROVE  \E j \in DOMAIN logs : logs[j].run = r /\ Beyond < j
    <3>1. i + Beyond \in DOMAIN logs /\ Beyond < i + Beyond
      BY <1>1, <1>3
    <3>2. QED
      BY <1>3, <2>1, <3>1
  <2>2. ASSUME NEW j \in DOMAIN logs, logs[j].run = r, Beyond < j
        PROVE  \E i \in DOMAIN Replayed : Replayed[i] = r
    <3>1. j - Beyond \in 1 .. n /\ (j - Beyond) + Beyond = j
      BY <1>1, <2>2
    <3>2. QED
      BY <1>3, <2>2, <3>1
  <2>3. QED
    BY <2>1, <2>2
<1>8. QED
  BY <1>1, <1>5, <1>6, <1>7, TimesOnce

\* Rows that come later are in no replay that was.
LEMMA ReplayKept ==
  ASSUME Log, NEW c \in Clients, known'[c] = known[c], known[c] <= Len(logs), NEW r,
         UNCHANGED logs \/ \E u \in Runs, s \in Status : InsertRow(u, s)
  PROVE  (InReplay(r, c)' <=> InReplay(r, c)) /\ known'[c] <= Len(logs')
<1>1. CASE UNCHANGED logs
  BY <1>1 DEF InReplay
<1>2. ASSUME NEW u \in Runs, NEW s \in Status, InsertRow(u, s)
      PROVE  (InReplay(r, c)' <=> InReplay(r, c)) /\ known'[c] <= Len(logs')
  <2>1. /\ logs \in Seq(Rows) /\ Len(logs) \in Nat /\ known[c] \in Nat
        /\ DOMAIN logs = 1 .. Len(logs)
    BY DEF Log
  <2>2. /\ DOMAIN logs' = 1 .. Len(logs) + 1 /\ Len(logs') = Len(logs) + 1
        /\ \A i \in DOMAIN logs : logs'[i] = logs[i]
    BY <1>2, <2>1, RowAdded
  <2>3. \A i \in DOMAIN logs' : i <= known[c] => i \in DOMAIN logs
    BY <2>1, <2>2
  <2>4. InReplay(r, c)' <=> InReplay(r, c)
    BY <2>1, <2>2, <2>3 DEF InReplay
  <2>5. QED
    BY <2>1, <2>2, <2>4
<1>3. QED
  BY <1>1, <1>2

\* A step of a run that publishes nothing.
LEMMA QuietShown ==
  ASSUME Inv, ShownInv, UNCHANGED <<published, clientVars>>,
         UNCHANGED logs \/ \E u \in Runs, s \in Status : InsertRow(u, s),
         \A u \in Runs : pc[u] \in {"record", "done", "stopped"} =>
                           pc'[u] \in {"record", "done", "stopped"}
  PROVE  ShownInv'
<1>1. ChannelInv'
  <2>1. published \in Seq(Runs) /\ published' = published
    BY DEF Inv, Typed, Log
  <2>2. \A i \in DOMAIN published : published[i] \in Runs
    BY <2>1
  <2>3. QED
    BY <2>1, <2>2 DEF ShownInv, ChannelInv
<1>2. ASSUME NEW c \in Clients
      PROVE  ReaderInv(c)'
  <2>1. /\ Log /\ known'[c] = known[c] /\ heard'[c] = heard[c] /\ at'[c] = at[c]
        /\ view'[c] = view[c] /\ inbox'[c] = inbox[c] /\ published' = published
        /\ ReaderInv(c)
    BY DEF Inv, Typed, clientVars, ShownInv
  <2>2. /\ \A r : InReplay(r, c)' <=> InReplay(r, c)
        /\ known'[c] <= Len(logs')
    BY <2>1, ReplayKept DEF ReaderInv
  <2>3. \A r : Heard(r, c)' <=> Heard(r, c)
    BY <2>1 DEF Heard
  <2>4. QED
    BY <2>1, <2>2, <2>3 DEF ReaderInv, One
<1>3. QED
  BY <1>1, <1>2 DEF ShownInv

LEMMA PublishedShown ==
  ASSUME Inv, ShownInv, NEW r \in Runs, pc[r] = "publish", PublishRow(r), UNCHANGED logs,
         \A u \in Runs : pc[u] \in {"record", "done", "stopped"} =>
                           pc'[u] \in {"record", "done", "stopped"},
         pc'[r] \in {"record", "stopped"}
  PROVE  ShownInv'
<1>1. /\ published \in Seq(Runs) /\ Len(published) \in Nat
      /\ DOMAIN published = 1 .. Len(published)
      /\ \A i \in DOMAIN published : published[i] \in Runs
  BY DEF Inv, Typed, Log
<1>2. /\ Len(published') = Len(published) + 1
      /\ DOMAIN published' = 1 .. Len(published) + 1
      /\ \A i \in DOMAIN published : published'[i] = published[i]
      /\ published'[Len(published) + 1] = r
  BY <1>1 DEF PublishRow
<1>3. \A i \in DOMAIN published : published[i] # r
  BY DEF ShownInv, ChannelInv
<1>4. ChannelInv'
  BY <1>1, <1>2, <1>3 DEF ShownInv, ChannelInv
<1>5. ASSUME NEW c \in Clients
      PROVE  ReaderInv(c)'
  <2>1. /\ heard[c] \in Nat /\ inbox[c] \in Seq(Runs) /\ view[c] \in Seq(Runs)
        /\ ReaderInv(c) /\ heard[c] <= Len(published)
    BY DEF Inv, Typed, Log, ShownInv, ReaderInv
  <2>2. /\ known'[c] = known[c] /\ heard'[c] = heard[c] /\ at'[c] = at[c]
        /\ view'[c] = view[c] /\ logs' = logs
        /\ at[c] = "listen" => inbox'[c] = Append(inbox[c], r)
        /\ at[c] # "listen" => inbox'[c] = inbox[c]
    BY DEF PublishRow, Subscribed
  <2>3. \A u : InReplay(u, c)' <=> InReplay(u, c)
    BY <2>2 DEF InReplay
  <2>4. Heard(r, c)' /\ ~Heard(r, c)
    <3>1. Len(published) + 1 \in DOMAIN published' /\ heard'[c] < Len(published) + 1
      BY <1>1, <1>2, <2>1, <2>2
    <3>2. QED
      BY <1>2, <1>3, <3>1 DEF Heard
  <2>5. \A u : u # r => (Heard(u, c)' <=> Heard(u, c))
    BY <1>1, <1>2, <2>2 DEF Heard
  <2>6. ASSUME at[c] = "listen", NEW u \in Runs
        PROVE  Times(u, view[c]) + Times(u, inbox'[c])
                 = One(InReplay(u, c)') + One(Heard(u, c)')
    <3>1. /\ Times(u, view[c]) + Times(u, inbox[c]) = One(InReplay(u, c)) + One(Heard(u, c))
          /\ Times(u, view[c]) \in Nat /\ Times(u, inbox[c]) \in Nat
      BY <2>1, <2>6, PlacesFinite DEF ReaderInv
    <3>2. One(InReplay(u, c)') = One(InReplay(u, c)) /\ One(InReplay(u, c)) \in Nat
      BY <2>3 DEF One
    <3>3. CASE u = r
      <4>1. Times(u, inbox'[c]) = Times(u, inbox[c]) + 1
        BY <2>1, <2>2, <2>6, <3>3, TimesAppend
      <4>2. One(Heard(u, c)) = 0 /\ One(Heard(u, c)') = 1
        BY <2>4, <3>3 DEF One
      <4>3. QED
        BY <3>1, <3>2, <4>1, <4>2
    <3>4. CASE u # r
      <4>1. Times(u, inbox'[c]) = Times(u, inbox[c])
        BY <2>1, <2>2, <2>6, <3>4, TimesAppend
      <4>2. One(Heard(u, c)') = One(Heard(u, c))
        BY <2>5, <3>4 DEF One
      <4>3. QED
        BY <3>1, <3>2, <4>1, <4>2
    <3>5. QED
      BY <3>3, <3>4
  <2>7. at[c] = "subscribe" => \A u \in Runs : Times(u, view[c]) = One(InReplay(u, c)')
    BY <2>1, <2>3 DEF ReaderInv, One
  <2>8. heard'[c] <= Len(published') /\ known'[c] <= Len(logs')
    BY <1>1, <1>2, <2>1, <2>2 DEF ReaderInv
  <2>9. at'[c] # "listen" => inbox'[c] = <<>>
    BY <2>1, <2>2 DEF ReaderInv
  <2>10. QED
    BY <2>2, <2>6, <2>7, <2>8, <2>9 DEF ReaderInv
<1>6. QED
  BY <1>4, <1>5 DEF ShownInv

LEMMA ReadShown ==
  ASSUME Inv, ShownInv, NEW c \in Clients, Read(c)
  PROVE  ShownInv'
<1>1. Reader(c) /\ UNCHANGED <<pc, logs, published>> /\ ReaderInv(c) /\ Log
  BY DEF Read, Reader, Replay, Subscribe, Deliver, Reconnect, reply, Inv, Typed, ShownInv
<1>2. ChannelInv'
  BY <1>1 DEF ShownInv, ChannelInv
<1>3. ASSUME NEW d \in Clients, d # c
      PROVE  ReaderInv(d)'
  <2>1. /\ at'[d] = at[d] /\ view'[d] = view[d] /\ inbox'[d] = inbox[d]
        /\ known'[d] = known[d] /\ heard'[d] = heard[d] /\ ReaderInv(d)
    BY <1>1, <1>3 DEF Reader, Replay, Subscribe, Deliver, Reconnect, Log, ShownInv
  <2>2. /\ \A r : InReplay(r, d)' <=> InReplay(r, d)
        /\ \A r : Heard(r, d)' <=> Heard(r, d)
    BY <1>1, <2>1 DEF InReplay, Heard
  <2>3. QED
    BY <1>1, <2>1, <2>2 DEF ReaderInv, One
<1>4. /\ at \in [Clients -> {"replay", "subscribe", "listen"}]
      /\ view \in [Clients -> Seq(Runs)] /\ inbox \in [Clients -> Seq(Runs)]
      /\ known \in [Clients -> Nat] /\ heard \in [Clients -> Nat]
      /\ Len(logs) \in Nat /\ Len(published) \in Nat
      /\ DOMAIN logs = 1 .. Len(logs) /\ DOMAIN published = 1 .. Len(published)
  BY <1>1 DEF Log
<1>5. ASSUME Replay(c)
      PROVE  ReaderInv(c)'
  <2>1. /\ at'[c] = "subscribe" /\ view'[c] = Replayed /\ known'[c] = Len(logs)
        /\ heard'[c] = heard[c] /\ inbox'[c] = <<>>
    BY <1>1, <1>4, <1>5 DEF Replay, ReaderInv
  <2>2. ASSUME NEW r \in Runs
        PROVE  Times(r, view'[c]) = One(InReplay(r, c)')
    <3>1. InReplay(r, c)' <=>
            \E i \in DOMAIN logs : logs[i].run = r /\ Len(logs) - ReplayLimit < i
      BY <1>1, <1>4, <2>1 DEF InReplay
    <3>2. QED
      BY <2>1, <3>1, ReplayShows DEF One
  <2>3. QED
    BY <1>1, <1>4, <2>1, <2>2 DEF ReaderInv
<1>6. ASSUME Subscribe(c)
      PROVE  ReaderInv(c)'
  <2>1. /\ at'[c] = "listen" /\ view'[c] = view[c] /\ known'[c] = known[c]
        /\ heard'[c] = Len(published) /\ inbox'[c] = <<>> /\ at[c] = "subscribe"
    BY <1>1, <1>4, <1>6 DEF Subscribe, ReaderInv
  <2>2. ASSUME NEW r \in Runs
        PROVE  Times(r, view'[c]) + Times(r, inbox'[c])
                 = One(InReplay(r, c)') + One(Heard(r, c)')
    <3>1. InReplay(r, c)' <=> InReplay(r, c)
      BY <1>1, <2>1 DEF InReplay
    <3>2. ~Heard(r, c)'
      BY <1>1, <1>4, <2>1 DEF Heard
    <3>3. Times(r, view'[c]) = One(InReplay(r, c)') /\ Times(r, inbox'[c]) = 0
      BY <1>1, <2>1, <3>1, TimesEmpty DEF ReaderInv, One
    <3>4. One(Heard(r, c)') = 0
      BY <3>2 DEF One
    <3>5. QED
      BY <3>3, <3>4 DEF One
  <2>3. QED
    BY <1>1, <1>4, <2>1, <2>2 DEF ReaderInv
<1>7. ASSUME Deliver(c)
      PROVE  ReaderInv(c)'
  <2>1. /\ at[c] = "listen" /\ at'[c] = "listen" /\ known'[c] = known[c]
        /\ heard'[c] = heard[c] /\ inbox[c] # <<>>
        /\ view'[c] = Append(view[c], Head(inbox[c])) /\ inbox'[c] = Tail(inbox[c])
    BY <1>1, <1>4, <1>7 DEF Deliver, Subscribed
  <2>2. /\ view[c] \in Seq(Runs) /\ inbox[c] \in Seq(Runs) /\ Tail(inbox[c]) \in Seq(Runs)
        /\ Head(inbox[c]) \in Runs
    BY <1>4, <2>1
  <2>3. ASSUME NEW r \in Runs
        PROVE  Times(r, view'[c]) + Times(r, inbox'[c])
                 = One(InReplay(r, c)') + One(Heard(r, c)')
    <3>1. (InReplay(r, c)' <=> InReplay(r, c)) /\ (Heard(r, c)' <=> Heard(r, c))
      BY <1>1, <2>1 DEF InReplay, Heard
    <3>2. Times(r, view[c]) + Times(r, inbox[c]) = One(InReplay(r, c)') + One(Heard(r, c)')
      BY <1>1, <2>1, <3>1 DEF ReaderInv, One
    <3>3. /\ Times(r, view[c]) \in Nat /\ Times(r, Tail(inbox[c])) \in Nat
          /\ Times(r, inbox[c]) \in Nat
      BY <2>2, PlacesFinite
    <3>4. CASE Head(inbox[c]) = r
      <4>1. /\ Times(r, view'[c]) = Times(r, view[c]) + 1
            /\ Times(r, inbox[c]) = Times(r, inbox'[c]) + 1
        BY <2>1, <2>2, <3>4, TimesAppend, TimesTail
      <4>2. QED
        BY <2>1, <3>2, <3>3, <4>1
    <3>5. CASE Head(inbox[c]) # r
      <4>1. /\ Times(r, view'[c]) = Times(r, view[c])
            /\ Times(r, inbox[c]) = Times(r, inbox'[c])
        BY <2>1, <2>2, <3>5, TimesAppend, TimesTail
      <4>2. QED
        BY <2>1, <3>2, <3>3, <4>1
    <3>6. QED
      BY <3>4, <3>5
  <2>4. QED
    BY <1>1, <2>1, <2>3 DEF ReaderInv
<1>8. ASSUME Reconnect(c)
      PROVE  ReaderInv(c)'
  <2>1. /\ at'[c] = "replay" /\ known'[c] = known[c] /\ heard'[c] = heard[c]
        /\ inbox'[c] = <<>>
    BY <1>1, <1>4, <1>8 DEF Reconnect
  <2>2. QED
    BY <1>1, <2>1 DEF ReaderInv
<1>9. ReaderInv(c)'
  BY <1>1, <1>5, <1>6, <1>7, <1>8 DEF Reader
<1>10. QED
  BY <1>2, <1>3, <1>9 DEF ShownInv

\* A run that has its answer keeps it: it only comes to its end.
Told == {"record", "done", "stopped"}

LEMMA TellingStays ==
  ASSUME Inv, NEW r \in Runs, Step(r) \/ Cancel(r)
  PROVE  \A u \in Runs : pc[u] \in Told => pc'[u] \in Told
<1>1. pc \in [Runs -> Labels]
  BY DEF Inv, Typed, Replies
<1>2. ASSUME pc[r] \in Told
      PROVE  pc'[r] \in Told
  <2>1. Begin(r) \/ Process(r) => pc[r] \notin Told
    BY DEF Begin, Process, Titan, Echo, Pm, Catch, Mark, Sentinel, Reach, Forge, General,
       Qt, Pulse, Raw, Calendar, Drafting, Deploy, Rollback, Alert, Ollama, Claude,
       Transcribe, FetchPr, Review, Discover, Personalise, Rewrite, Send, Chat, Tools,
       Test, Gather, Scan, Keep, Page, ListEvents, CreateEvent, Mirror, Observe,
       ReadCount, Told
  <2>2. CASE Closing(r)
    BY <1>1, <1>2, <2>2 DEF Closing, Insert, Publish, Record, Go, Told
  <2>3. CASE Cancel(r)
    BY <1>1, <2>3 DEF Cancel, Go, Told
  <2>4. QED
    BY <1>2, <2>1, <2>2, <2>3 DEF Step
<1>3. ASSUME NEW u \in Runs, u # r
      PROVE  pc'[u] = pc[u]
  BY <1>3, StepApart DEF Inv, Apart
<1>4. QED
  BY <1>2, <1>3

LEMMA StepShown ==
  ASSUME Inv, ShownInv, NEW r \in Runs, Step(r) \/ Cancel(r)
  PROVE  ShownInv'
<1>1. \A u \in Runs : pc[u] \in {"record", "done", "stopped"} =>
                        pc'[u] \in {"record", "done", "stopped"}
  BY TellingStays DEF Told
<1>2. row[r] \in Status /\ pc \in [Runs -> Labels]
  BY DEF Inv, Typed, Replies
<1>3. CASE UNCHANGED <<published, clientVars>>
           /\ (UNCHANGED logs \/ \E u \in Runs, s \in Status : InsertRow(u, s))
  BY <1>1, <1>3, QuietShown
<1>4. CASE pc[r] = "publish" /\ PublishRow(r) /\ UNCHANGED logs
           /\ pc'[r] \in {"record", "stopped"}
  BY <1>1, <1>4, PublishedShown
<1>5. CASE Closing(r)
  <2>1. Insert(r) => /\ UNCHANGED <<published, clientVars>>
                     /\ UNCHANGED logs \/ InsertRow(r, row[r])
    BY DEF Insert
  <2>2. Publish(r) => /\ pc[r] = "publish" /\ UNCHANGED logs /\ pc'[r] = "record"
                      /\ PublishRow(r) \/ UNCHANGED <<published, clientVars>>
    BY <1>2 DEF Publish
  <2>3. Record(r) => UNCHANGED <<published, clientVars>> /\ UNCHANGED logs
    BY DEF Record, logVars, clientVars
  <2>4. QED
    BY <1>2, <1>3, <1>4, <1>5, <2>1, <2>2, <2>3 DEF Closing
<1>6. CASE Cancel(r)
  <2>1. HalfDone(r) /\ pc'[r] \in {"record", "stopped"}
    BY <1>2, <1>6 DEF Cancel, Go
  <2>2. QED
    BY <1>2, <1>3, <1>4, <2>1, HalfDoneCases
<1>7. Begin(r) \/ Process(r) => UNCHANGED <<published, clientVars>> /\ UNCHANGED logs
  <2>1. Begin(r) \/ Titan(r) \/ Echo(r) \/ Pm(r) \/ Catch(r) \/ Mark(r) \/ Sentinel(r)
          \/ Reach(r) => UNCHANGED logVars
    BY DEF Begin, Titan, Deploy, Rollback, Alert, Echo, Pm, Catch, Mark, Drafting, Ollama,
       Claude, Send, Transcribe, Sentinel, FetchPr, Review, Reach, Discover, Personalise,
       Rewrite
  <2>2. Forge(r) \/ General(r) \/ Qt(r) \/ Pulse(r) \/ Raw(r) \/ Calendar(r)
          => UNCHANGED logVars
    BY DEF Forge, General, Chat, Tools, Qt, Test, Pulse, Gather, Raw, Scan, Keep, Page,
       Drafting, Ollama, Claude, Calendar, ListEvents, CreateEvent, Mirror, Observe,
       ReadCount
  <2>3. QED
    BY <2>1, <2>2 DEF Process, logVars, clientVars
<1>8. QED
  BY <1>3, <1>5, <1>6, <1>7 DEF Step

LEMMA NextShown ==
  ASSUME Inv, ShownInv, [Next]_vars
  PROVE  ShownInv'
<1>1. CASE UNCHANGED vars
  <2>1. UNCHANGED <<published, clientVars>> /\ UNCHANGED logs /\ UNCHANGED pc
    BY <1>1 DEF vars, logVars, clientVars, reply
  <2>2. QED
    BY <2>1, QuietShown
<1>2. QED
  BY <1>1, StepShown, ReadShown DEF Next

LEMMA InitShown ==
  ASSUME Init
  PROVE  ShownInv
<1>1. /\ published = <<>> /\ logs = <<>> /\ at = [c \in Clients |-> "replay"]
      /\ inbox = [c \in Clients |-> <<>>] /\ known = [c \in Clients |-> 0]
      /\ heard = [c \in Clients |-> 0]
  BY DEF Init, InitLog
<1>2. DOMAIN published = {} /\ Len(published) = 0 /\ Len(logs) = 0
  BY <1>1
<1>3. QED
  BY <1>1, <1>2 DEF ShownInv, ChannelInv, ReaderInv

\* A reader that has taken in all there is for it misses no row but those of
\* the gap between its replay and its subscription, and those beyond the LIMIT
\* (GET /events).
THEOREM OnlyTheGapIsMissed == Spec => []MissedOnlyInGap
<1>1. ASSUME Inv, ShownInv, NEW c \in Clients, Subscribed(c), inbox[c] = <<>>,
             NEW i \in DOMAIN logs, NEW r, r = logs[i].run
      PROVE  Times(r, view[c])
               = (IF known[c] - ReplayLimit < i /\ i <= known[c] THEN 1 ELSE 0)
                 + (IF r \in After(c) THEN 1 ELSE 0)
  <2>1. r \in Runs /\ Log
    <3>1. logs[i] \in Rows
      BY <1>1 DEF Inv, Typed, Log
    <3>2. QED
      BY <1>1, <3>1 DEF Rows, Inv, Typed
  <2>2. InReplay(r, c) <=> known[c] - ReplayLimit < i /\ i <= known[c]
    BY <1>1, <2>1 DEF Inv, RunInv, StoryInv, InReplay
  <2>3. Heard(r, c) <=> r \in After(c)
    BY <2>1, AfterIsHeard
  <2>4. Times(r, view[c]) + Times(r, inbox[c]) = One(InReplay(r, c)) + One(Heard(r, c))
        /\ Times(r, inbox[c]) = 0
    BY <1>1, <2>1, TimesEmpty DEF ShownInv, ReaderInv, Subscribed
  <2>5. Times(r, view[c]) \in Nat
    BY <2>1, PlacesFinite DEF Log
  <2>6. Times(r, view[c]) = One(InReplay(r, c)) + One(Heard(r, c))
    BY <2>4, <2>5 DEF One
  <2>7. QED
    BY <2>2, <2>3, <2>6 DEF One
<1>2. Inv /\ ShownInv => MissedOnlyInGap
  BY <1>1 DEF MissedOnlyInGap
<1>3. Init => ShownInv
  BY InitShown
<1>4. Inv /\ ShownInv /\ [Next]_vars => ShownInv'
  BY NextShown
<1>5. QED
  BY <1>2, <1>3, <1>4, Invariance, PTL DEF Spec
====

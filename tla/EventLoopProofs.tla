---- MODULE EventLoopProofs ----
(***************************************************************************)
(* What TLAPS proves of the worker's jobs, for any number of jobs, mails,  *)
(* threads, articles and journals, and with any errors, timeouts, restarts *)
(* and lapsed rows.                                                        *)
(***************************************************************************)
EXTENDS EventLoop, InductionProofs, FiniteSetTheorems

----
\* Sequences and the sets of their elements

LEMMA ToSetType ==
  ASSUME NEW S, NEW s \in Seq(S)
  PROVE  /\ ToSet(s) \subseteq S
         /\ \A x \in ToSet(s) : \E i \in 1 .. Len(s) : s[i] = x
         /\ \A i \in 1 .. Len(s) : s[i] \in ToSet(s)
         /\ s = <<>> <=> ToSet(s) = {}
         /\ s \in Seq(ToSet(s))
<1>1. Len(s) \in Nat /\ DOMAIN s = 1 .. Len(s)
  OBVIOUS
<1>2. /\ ToSet(s) \subseteq S
      /\ \A x \in ToSet(s) : \E i \in 1 .. Len(s) : s[i] = x
      /\ \A i \in 1 .. Len(s) : s[i] \in ToSet(s)
  BY <1>1 DEF ToSet
<1>3. s = <<>> <=> ToSet(s) = {}
  <2>1. CASE s = <<>>
    BY <2>1, <1>1, <1>2
  <2>2. CASE s # <<>>
    <3>1. 1 \in 1 .. Len(s)
      BY <2>2, <1>1
    <3>2. QED
      BY <2>2, <1>2, <3>1
  <2>3. QED
    BY <2>1, <2>2
<1>4. s \in [1 .. Len(s) -> ToSet(s)]
  BY <1>1, <1>2
<1>5. s \in Seq(ToSet(s))
  BY <1>1, <1>4
<1>6. QED
  BY <1>2, <1>3, <1>5

LEMMA ToSetAppend ==
  ASSUME NEW S, NEW s \in Seq(S), NEW x \in S
  PROVE  Append(s, x) \in Seq(S) /\ ToSet(Append(s, x)) = ToSet(s) \cup {x}
<1> DEFINE t == Append(s, x)
<1>1. /\ t \in Seq(S) /\ Len(t) = Len(s) + 1 /\ t[Len(t)] = x
      /\ \A i \in 1 .. Len(s) : t[i] = s[i]
  OBVIOUS
<1> HIDE DEF t
<1>2. Len(s) \in Nat /\ DOMAIN t = 1 .. Len(s) + 1 /\ DOMAIN s = 1 .. Len(s)
  BY <1>1
<1>3. ASSUME NEW y PROVE y \in ToSet(t) <=> y \in ToSet(s) \cup {x}
  <2>1. y \in ToSet(t) => y \in ToSet(s) \cup {x}
    BY <1>1, <1>2 DEF ToSet
  <2>2. y \in ToSet(s) => y \in ToSet(t)
    BY <1>1, <1>2 DEF ToSet
  <2>3. x \in ToSet(t)
    BY <1>1, <1>2 DEF ToSet
  <2>4. QED
    BY <2>1, <2>2, <2>3
<1>4. QED
  BY <1>1, <1>3 DEF t

LEMMA ToSetConcat ==
  ASSUME NEW S, NEW s \in Seq(S), NEW t \in Seq(S)
  PROVE  /\ s \o t \in Seq(S) /\ ToSet(s \o t) = ToSet(s) \cup ToSet(t)
         /\ Len(s \o t) = Len(s) + Len(t)
         /\ \A i \in 1 .. Len(s) : (s \o t)[i] = s[i]
         /\ \A i \in 1 .. Len(t) : (s \o t)[Len(s) + i] = t[i]
<1> DEFINE u == s \o t
<1>1. /\ u \in Seq(S) /\ Len(u) = Len(s) + Len(t)
      /\ \A i \in 1 .. Len(s) : u[i] = s[i]
      /\ \A i \in 1 .. Len(t) : u[Len(s) + i] = t[i]
      /\ Len(s) \in Nat /\ Len(t) \in Nat
  OBVIOUS
<1> HIDE DEF u
<1>2. DOMAIN u = 1 .. Len(u) /\ DOMAIN s = 1 .. Len(s) /\ DOMAIN t = 1 .. Len(t)
  BY <1>1
<1>3. ASSUME NEW i \in 1 .. Len(u) PROVE u[i] \in ToSet(s) \cup ToSet(t)
  <2>1. CASE i <= Len(s)
    <3>1. i \in 1 .. Len(s)
      BY <1>1, <2>1
    <3>2. QED
      BY <1>1, <1>2, <3>1 DEF ToSet
  <2>2. CASE i > Len(s)
    <3>1. i - Len(s) \in 1 .. Len(t) /\ Len(s) + (i - Len(s)) = i
      BY <1>1, <2>2
    <3>2. u[i] = t[i - Len(s)]
      BY <1>1, <3>1
    <3>3. QED
      BY <1>2, <3>1, <3>2 DEF ToSet
  <2>3. QED
    BY <1>1, <2>1, <2>2
<1>4. ASSUME NEW i \in 1 .. Len(s) PROVE s[i] \in ToSet(u)
  <2>1. i \in 1 .. Len(u) /\ u[i] = s[i]
    BY <1>1
  <2>2. QED
    BY <1>2, <2>1 DEF ToSet
<1>5. ASSUME NEW i \in 1 .. Len(t) PROVE t[i] \in ToSet(u)
  <2>1. Len(s) + i \in 1 .. Len(u) /\ u[Len(s) + i] = t[i]
    BY <1>1
  <2>2. QED
    BY <1>2, <2>1 DEF ToSet
<1>6. ToSet(u) = ToSet(s) \cup ToSet(t)
  BY <1>2, <1>3, <1>4, <1>5 DEF ToSet
<1>7. QED
  BY <1>1, <1>6 DEF u

LEMMA ToSetHead ==
  ASSUME NEW S, NEW s \in Seq(S), s # <<>>
  PROVE  /\ Head(s) \in S /\ Tail(s) \in Seq(S)
         /\ ToSet(s) = {Head(s)} \cup ToSet(Tail(s))
         /\ Len(s) > 1 <=> Tail(s) # <<>>
         /\ Len(s) \in Nat /\ Len(s) >= 1 /\ Len(Tail(s)) = Len(s) - 1
         /\ Head(s) = s[1] /\ \A i \in 1 .. Len(s) - 1 : Tail(s)[i] = s[i + 1]
<1> DEFINE t == Tail(s)
<1>1. /\ Head(s) \in S /\ t \in Seq(S) /\ Len(t) = Len(s) - 1 /\ Len(s) \in Nat
      /\ Len(s) >= 1 /\ \A i \in 1 .. Len(s) - 1 : t[i] = s[i + 1]
      /\ Head(s) = s[1]
  OBVIOUS
<1> HIDE DEF t
<1>2. DOMAIN s = 1 .. Len(s) /\ DOMAIN t = 1 .. Len(s) - 1 /\ 1 \in 1 .. Len(s)
  BY <1>1
<1>3. ASSUME NEW i \in 1 .. Len(s), i # 1 PROVE s[i] \in ToSet(t)
  <2>1. i - 1 \in 1 .. Len(s) - 1 /\ (i - 1) + 1 = i
    BY <1>1, <1>3
  <2>2. t[i - 1] = s[i]
    BY <1>1, <2>1
  <2>3. QED
    BY <1>2, <2>1, <2>2 DEF ToSet
<1>4. ASSUME NEW i \in 1 .. Len(s) - 1 PROVE t[i] \in ToSet(s)
  <2>1. i + 1 \in 1 .. Len(s) /\ t[i] = s[i + 1]
    BY <1>1
  <2>2. QED
    BY <1>2, <2>1 DEF ToSet
<1>5. Head(s) \in ToSet(s)
  BY <1>1, <1>2 DEF ToSet
<1>6. ToSet(s) = {Head(s)} \cup ToSet(t)
  BY <1>1, <1>2, <1>3, <1>4, <1>5 DEF ToSet
<1>7. Len(s) > 1 <=> t # <<>>
  BY <1>1
<1>8. QED
  BY <1>1, <1>6, <1>7 DEF t

LEMMA ToSetCut ==
  ASSUME NEW S, NEW s \in Seq(S), NEW m \in 1 .. Len(s) + 1, NEW n \in 0 .. Len(s)
  PROVE  /\ SubSeq(s, m, n) \in Seq(S)
         /\ ToSet(SubSeq(s, m, n)) \subseteq ToSet(s)
         /\ Len(SubSeq(s, m, n)) = IF m <= n THEN n - m + 1 ELSE 0
         /\ \A i \in 1 .. n - m + 1 : SubSeq(s, m, n)[i] = s[m + i - 1]
<1> DEFINE t == SubSeq(s, m, n)
<1>1. /\ Len(s) \in Nat /\ t \in Seq(S)
      /\ Len(t) = IF m <= n THEN n - m + 1 ELSE 0
      /\ \A i \in 1 .. n - m + 1 : t[i] = s[m + i - 1]
  OBVIOUS
<1> HIDE DEF t
<1>2. DOMAIN s = 1 .. Len(s) /\ DOMAIN t = 1 .. Len(t)
  BY <1>1
<1>3. ASSUME NEW i \in 1 .. Len(t) PROVE t[i] \in ToSet(s)
  <2>1. i \in 1 .. n - m + 1 /\ m + i - 1 \in 1 .. Len(s)
    BY <1>1
  <2>2. QED
    BY <1>1, <1>2, <2>1 DEF ToSet
<1>4. ToSet(t) \subseteq ToSet(s)
  BY <1>2, <1>3 DEF ToSet
<1>5. QED
  BY <1>1, <1>4 DEF t

LEMMA ToSetEmpty == ToSet(<<>>) = {} /\ \A S : <<>> \in Seq(S)
<1>1. DOMAIN <<>> = {}
  OBVIOUS
<1>2. ToSet(<<>>) = {}
  BY <1>1 DEF ToSet
<1>3. QED
  BY <1>2

LEMMA ToSetOne == ASSUME NEW x PROVE ToSet(<<x>>) = {x} /\ \A S : x \in S => <<x>> \in Seq(S)
<1>1. DOMAIN <<x>> = {1} /\ <<x>>[1] = x
  OBVIOUS
<1>2. ToSet(<<x>>) = {x}
  BY <1>1 DEF ToSet
<1>3. QED
  BY <1>2

\* Sift keeps what lies in the set, in the order it had.
LEMMA SiftSet ==
  ASSUME NEW S, NEW s \in Seq(S), NEW T
  PROVE  ToSet(Sift(s, T)) = ToSet(s) \cap T
<1>1. PICK f : Sifting(f, S, s, T)
  BY SiftSteps
<1>2. /\ f \in [0 .. Len(s) -> Seq(S \cap T)] /\ f[0] = <<>>
      /\ \A n \in 1 .. Len(s) :
           f[n] = IF s[n] \in T THEN Append(f[n - 1], s[n]) ELSE f[n - 1]
      /\ Sift(s, T) = f[Len(s)]
  BY <1>1 DEF Sifting
<1> DEFINE N == Len(s)
           U == {n \in 0 .. N : \A x : x \in ToSet(f[n]) <=> \E i \in 1 .. n : s[i] = x /\ x \in T}
<1>3. N \in Nat /\ \A i \in 1 .. N : s[i] \in S
  OBVIOUS
<1>4. 0 \in U
  <2>1. ToSet(f[0]) = {}
    BY <1>2, ToSetEmpty
  <2>2. QED
    BY <1>3, <2>1
<1> HIDE DEF N
<1>5. ASSUME NEW n \in 0 .. N, n \in U, n < N
      PROVE  n + 1 \in U
  <2>1. n + 1 \in 1 .. N /\ n + 1 \in 0 .. N /\ (n + 1) - 1 = n
    BY <1>3, <1>5
  <2>2. f[n + 1] = IF s[n + 1] \in T THEN Append(f[n], s[n + 1]) ELSE f[n]
    BY <1>2, <2>1 DEF N
  <2>3. f[n] \in Seq(S \cap T)
    BY <1>2 DEF N
  <2>4. \A x : x \in ToSet(f[n]) <=> \E i \in 1 .. n : s[i] = x /\ x \in T
    BY <1>5
  <2>5. \A i \in 1 .. n + 1 : i \in 1 .. n \/ i = n + 1
    BY <1>3, <1>5
  <2>6. \A i \in 1 .. n : i \in 1 .. n + 1
    BY <1>3, <1>5
  <2>7. CASE s[n + 1] \in T
    <3>1. ToSet(f[n + 1]) = ToSet(f[n]) \cup {s[n + 1]}
      BY <1>3, <2>1, <2>2, <2>3, <2>7, ToSetAppend
    <3>2. n + 1 \in 1 .. n + 1
      BY <1>3, <1>5
    <3>3. \A x : x \in ToSet(f[n + 1]) <=> \E i \in 1 .. n + 1 : s[i] = x /\ x \in T
      BY <2>4, <2>5, <2>6, <2>7, <3>1, <3>2
    <3>4. QED
      BY <2>1, <3>3
  <2>8. CASE s[n + 1] \notin T
    <3>1. \A x : x \in ToSet(f[n + 1]) <=> \E i \in 1 .. n + 1 : s[i] = x /\ x \in T
      BY <2>2, <2>4, <2>5, <2>6, <2>8
    <3>2. QED
      BY <2>1, <3>1
  <2>9. QED
    BY <2>7, <2>8
<1> HIDE DEF U
<1>6. N \in U
  <2>1. 0 .. N \subseteq U
    BY <1>3, <1>4, <1>5, RangeSetInduction
  <2>2. N \in 0 .. N
    BY <1>3
  <2>3. QED
    BY <2>1, <2>2
<1>7. \A x : x \in ToSet(f[N]) <=> \E i \in 1 .. N : s[i] = x /\ x \in T
  BY <1>6 DEF U
<1>8. \A x : x \in ToSet(s) <=> \E i \in 1 .. N : s[i] = x
  <2>1. DOMAIN s = 1 .. N
    BY DEF N
  <2>2. QED
    BY <2>1 DEF ToSet
<1>9. QED
  BY <1>2, <1>7, <1>8 DEF N

\* Nothing is sifted out of a sequence by the set of its elements.
LEMMA SiftAll ==
  ASSUME NEW S, NEW s \in Seq(S)
  PROVE  Sift(s, ToSet(s)) = s
<1>1. PICK f : Sifting(f, S, s, ToSet(s))
  BY SiftSteps
<1>2. /\ f \in [0 .. Len(s) -> Seq(S \cap ToSet(s))] /\ f[0] = <<>>
      /\ \A n \in 1 .. Len(s) :
           f[n] = IF s[n] \in ToSet(s) THEN Append(f[n - 1], s[n]) ELSE f[n - 1]
      /\ Sift(s, ToSet(s)) = f[Len(s)]
  BY <1>1 DEF Sifting
<1> DEFINE N == Len(s)
           U == {n \in 0 .. N : Len(f[n]) = n /\ \A i \in 1 .. n : f[n][i] = s[i]}
<1>3. N \in Nat /\ \A i \in 1 .. N : s[i] \in S /\ s[i] \in ToSet(s)
  BY ToSetType
<1>4. 0 \in U
  BY <1>2, <1>3
<1> HIDE DEF N
<1>5. ASSUME NEW n \in 0 .. N, n \in U, n < N
      PROVE  n + 1 \in U
  <2>1. n + 1 \in 1 .. N /\ n + 1 \in 0 .. N /\ (n + 1) - 1 = n /\ n \in Nat
    BY <1>3, <1>5
  <2>2. f[n + 1] = Append(f[n], s[n + 1]) /\ f[n] \in Seq(S)
    <3>1. \A k \in 1 .. N : f[k] = IF s[k] \in ToSet(s) THEN Append(f[k - 1], s[k]) ELSE f[k - 1]
      BY <1>2 DEF N
    <3>2. s[n + 1] \in ToSet(s)
      BY <1>3, <2>1
    <3>3. f[n + 1] = Append(f[n], s[n + 1])
      BY <2>1, <3>1, <3>2
    <3>4. f[n] \in Seq(S \cap ToSet(s))
      BY <1>2, <1>5 DEF N
    <3>5. QED
      BY <3>3, <3>4
  <2>3. Len(f[n]) = n /\ \A i \in 1 .. n : f[n][i] = s[i]
    BY <1>5
  <2>4. s[n + 1] \in S
    BY <1>3, <2>1
  <2>5. PICK g : g = f[n] /\ g \in Seq(S)
    BY <2>2
  <2>6. PICK x : x = s[n + 1] /\ x \in S
    BY <2>4
  <2>7. /\ Len(Append(g, x)) = Len(g) + 1 /\ Append(g, x)[Len(g) + 1] = x
        /\ \A i \in 1 .. Len(g) : Append(g, x)[i] = g[i]
    BY <2>5, <2>6
  <2>8. ASSUME NEW i \in 1 .. n + 1 PROVE f[n + 1][i] = s[i]
    <3>1. i \in 1 .. n \/ i = n + 1
      BY <2>1
    <3>2. QED
      BY <2>2, <2>3, <2>5, <2>6, <2>7, <3>1
  <2>9. QED
    BY <2>1, <2>2, <2>3, <2>5, <2>6, <2>7, <2>8
<1> HIDE DEF U
<1>6. N \in U
  <2>1. 0 .. N \subseteq U
    BY <1>3, <1>4, <1>5, RangeSetInduction
  <2>2. N \in 0 .. N
    BY <1>3
  <2>3. QED
    BY <2>1, <2>2
<1>7. PICK t : t = f[N] /\ t \in Seq(S)
  BY <1>2, <1>3 DEF N
<1>8. Len(t) = N /\ \A i \in 1 .. N : t[i] = s[i]
  BY <1>6, <1>7 DEF U
<1>9. t = s
  BY <1>7, <1>8 DEF N
<1>10. QED
  BY <1>2, <1>7, <1>9 DEF N

----
\* The inductive invariants

Mailers == {"poll", "gmail"}
Followers == {"outbound", "scan"}
Listers == {"poll", "outbound", "scan", "health", "funded"}

\* Which kinds of job come to a step.
Placed(j) ==
  /\ pc[j] \in Steps
  /\ pc[j] \in {"read", "write"} => Kind(j) \in Listers
  /\ pc[j] = "list" => Kind(j) = "poll"
  /\ pc[j] = "history" => Kind(j) = "gmail"
  /\ pc[j] = "enqueue" => Kind(j) \in Mailers
  /\ pc[j] \in {"cached", "classify", "keep", "triage"} => Kind(j) = "triage"
  /\ pc[j] = "append" => Kind(j) = "outbound"
  /\ pc[j] \in {"check", "chase"} => Kind(j) = "scan"
  /\ pc[j] \in {"journal", "streaks", "intervene", "status"} => Kind(j) = "health"
  /\ pc[j] \in {"article", "offer"} => Kind(j) = "funded"
  /\ pc[j] \in {"gather", "digest", "apology"} => Kind(j) \in Handlers

\* What the lists of a job hold.
Holds(j) ==
  /\ Kind(j) \in Mailers =>
       copy[j] \in Seq(Posts) /\ todo[j] \in Seq(Posts) /\ kept[j] \in Seq(Posts)
  /\ Kind(j) \in Followers =>
       /\ copy[j] \in Seq(Correspondents) /\ todo[j] \in Seq(Correspondents)
       /\ kept[j] \in Seq(Correspondents)
  /\ Kind(j) = "health" =>
       /\ copy[j] \in Seq(Interventions) /\ kept[j] \in Seq(Interventions)
       /\ todo[j] \in Seq(ToSet(Dimensions))
  /\ Kind(j) = "funded" =>
       copy[j] \in Seq(Articles) /\ todo[j] \in Seq(Articles) /\ kept[j] \in Seq(Articles)
  /\ pc[j] \in {"enqueue", "append", "check", "chase", "intervene", "article", "offer"} =>
       todo[j] # <<>>
  /\ Kind(j) = "triage" /\ pc[j] # "idle" => mail[j] \in Posts
  /\ pc[j] \in {"keep", "triage"} => verdict[j] \in Verdicts

\* What the lists of the agents hold.
RowsHold ==
  /\ DOMAIN rows = Lists /\ DOMAIN covers = Lists /\ DOMAIN acted = Lists
  /\ rows.poll \in Seq(Posts) /\ rows.followup \in Seq(Correspondents)
  /\ rows.health \in Seq(Interventions) /\ rows.funded \in Seq(Articles)

\* The mails that arrived are the first of those that will.
Arrived ==
  /\ mailbox \in Seq(Posts) /\ Len(mailbox) <= Len(load.mails)
  /\ \A i \in 1 .. Len(mailbox) : mailbox[i] = load.mails[i]

\* A job dispatches what has arrived.
Bounded(j) == Kind(j) \in Mailers => ToSet(todo[j]) \subseteq ToSet(mailbox)

LocalTypes ==
  /\ DOMAIN mail = Jobs /\ DOMAIN verdict = Jobs /\ DOMAIN copy = Jobs
  /\ DOMAIN todo = Jobs /\ DOMAIN kept = Jobs /\ DOMAIN based = Jobs /\ DOMAIN did = Jobs

TypeInv ==
  /\ StateTypes /\ RowsHold /\ Arrived /\ LocalTypes
  /\ \A j \in Jobs : Placed(j) /\ Holds(j) /\ Bounded(j)

\* What a job has acted on of what it will write.
Earned(j) ==
  /\ Kind(j) \in Listers => ToSet(copy[j]) \subseteq acted[ListOf(j)]
  /\ Kind(j) \in {"outbound", "health", "funded"} => ToSet(kept[j]) \subseteq acted[ListOf(j)]
  /\ Kind(j) = "poll" /\ pc[j] = "enqueue" =>
       ToSet(kept[j]) \subseteq acted.poll \cup ToSet(todo[j])
  /\ Kind(j) = "poll" /\ pc[j] = "write" => ToSet(kept[j]) \subseteq acted.poll
  /\ pc[j] = "append" => Len(todo[j]) = 1
  /\ Kind(j) = "scan" => ToSet(kept[j]) \cup ToSet(todo[j]) \subseteq ToSet(copy[j])
  /\ pc[j] = "offer" => Head(todo[j]) \in acted.funded

RecInv == RecordedIsActed /\ \A j \in Jobs : Earned(j)

\* What stands behind a critical alert that a job is about to send.
Grounds(j) ==
  /\ pc[j] \in {"keep", "triage"} => (verdict[j].client <=> mail[j] \in Clients)
  /\ pc[j] = "chase" => Head(todo[j]) \in old \cap Addressed
  /\ pc[j] = "intervene" =>
       \A d \in ToSet(todo[j]) : Streak(ByDay(load.journal), d) >= Threshold

CritInv ==
  /\ CriticalsEarned
  /\ \A m \in Posts : cache[m] # NoVerdict => (cache[m].client <=> m \in Clients)
  /\ \A j \in Jobs : Grounds(j)

Pos(q, m) == CHOOSE i \in DOMAIN q : q[i] = m

Descends(q, s) == \A i, k \in 1 .. Len(s) : i < k => Pos(q, s[i]) > Pos(q, s[k])

\* Mails of the first n of q, newest first, and none left out of the Limit newest.
Newest(q, n, s) ==
  /\ Descends(q, s)
  /\ s # <<>> =>
       /\ Pos(q, s[1]) <= n
       /\ \A p \in 1 .. Len(q) :
            Pos(q, s[1]) - Limit < p /\ p <= Pos(q, s[1]) => q[p] \in ToSet(s)

\* Nothing that a list builds on is newer than all that it has.
Covered(q, s, items) ==
  items \subseteq ToSet(q) /\ \A m \in items : s # <<>> /\ Pos(q, m) <= Pos(q, s[1])

\* As long as no mail has left the listing, the order of the mails says what a
\* poll knows.
InOrder(j) ==
  /\ Newest(load.mails, Len(mailbox), copy[j]) /\ Covered(load.mails, copy[j], based[j])
  /\ pc[j] \in {"enqueue", "write"} =>
       /\ Newest(load.mails, Len(mailbox), kept[j] \o copy[j])
       /\ ToSet(kept[j]) \cap based[j] = {}
       /\ Covered(load.mails, kept[j], based[j])
  /\ did[j] \cap based[j] = {}

PollKeeps(j) ==
  /\ gone = {} => InOrder(j)
  /\ pc[j] \in {"read", "list"} => did[j] = {}
  /\ pc[j] \in {"enqueue", "write"} =>
       /\ kept[j] # <<>> /\ ToSet(kept[j]) \cap ToSet(copy[j]) = {}
       /\ did[j] \subseteq ToSet(kept[j]) /\ ToSet(todo[j]) \subseteq ToSet(kept[j])
  /\ Len(copy[j]) < Window => based[j] \subseteq ToSet(copy[j]) /\ did[j] \cap based[j] = {}

OutboundKeeps(j) ==
  /\ based[j] \subseteq ToSet(copy[j])
  /\ pc[j] \in {"read", "append"} => did[j] = {}
  /\ pc[j] = "append" => todo[j] = <<load.thread>> /\ load.thread \notin ToSet(copy[j])
  /\ pc[j] = "write" => did[j] \subseteq ToSet(kept[j])
  /\ did[j] \cap based[j] = {}

ScanKeeps(j) ==
  /\ pc[j] \in {"check", "chase"} =>
       based[j] \ replied \subseteq ToSet(kept[j]) \cup ToSet(todo[j])
  /\ pc[j] = "write" => based[j] \ replied \subseteq ToSet(kept[j])

\* The types of its dimension that items had in the days before an intervention.
HadLately(items, e) == TypesOf(e.dim, {f \in items : e.at - f.at <= RecentDays})

HealthKeeps(j) ==
  /\ based[j] = ToSet(copy[j])
  /\ pc[j] \in {"journal", "read", "streaks"} => did[j] = {}
  /\ pc[j] = "streaks" => kept[j] = <<>>
  /\ pc[j] \in {"intervene", "write"} => did[j] = ToSet(kept[j])
  /\ pc[j] = "intervene" =>
       /\ \A i, k \in 1 .. Len(todo[j]) : i < k => todo[j][i] # todo[j][k]
       /\ \A e \in ToSet(kept[j]) : e.dim \notin ToSet(todo[j])
  /\ \A e \in did[j] :
       e.type \in HadLately(based[j], e) => HadLately(based[j], e) = ToSet(Types)

FundedKeeps(j) ==
  /\ Len(copy[j]) < SeenCap => based[j] \subseteq ToSet(copy[j])
  /\ pc[j] = "read" => did[j] = {}
  /\ pc[j] \in {"article", "offer", "write"} =>
       did[j] \subseteq ToSet(kept[j]) \cup (IF pc[j] = "offer" THEN {Head(todo[j])} ELSE {})
  /\ Len(copy[j]) < SeenCap => did[j] \cap based[j] = {}

RowsKeep ==
  /\ gone = {} => /\ Newest(load.mails, Len(mailbox), rows.poll)
                  /\ Covered(load.mails, rows.poll, covers.poll)
  /\ Len(rows.poll) < Window => covers.poll \subseteq ToSet(rows.poll)
  /\ covers.followup \subseteq ToSet(rows.followup)
  /\ covers.health = ToSet(rows.health)
  /\ Len(rows.funded) < SeenCap => covers.funded \subseteq ToSet(rows.funded)

Keeps(j) ==
  /\ Kind(j) = "poll" => PollKeeps(j)
  /\ Kind(j) = "outbound" => OutboundKeeps(j)
  /\ Kind(j) = "scan" => ScanKeeps(j)
  /\ Kind(j) = "health" => HealthKeeps(j)
  /\ Kind(j) = "funded" => FundedKeeps(j)

KeepInv == RowsKeep /\ \A j \in Jobs : Keeps(j)

----
\* What each step leaves alone

Still(i) ==
  /\ pc'[i] = pc[i] /\ mail'[i] = mail[i] /\ verdict'[i] = verdict[i]
  /\ copy'[i] = copy[i] /\ todo'[i] = todo[i] /\ kept'[i] = kept[i]
  /\ based'[i] = based[i] /\ did'[i] = did[i]

Shaped ==
  /\ DOMAIN pc' = Jobs /\ DOMAIN mail' = Jobs /\ DOMAIN verdict' = Jobs
  /\ DOMAIN copy' = Jobs /\ DOMAIN todo' = Jobs /\ DOMAIN kept' = Jobs
  /\ DOMAIN based' = Jobs /\ DOMAIN did' = Jobs

\* A step of one job leaves the others where they are.
Alone(j) == load' = load /\ Shaped /\ \A i \in Jobs \ {j} : Still(i)

LEMMA FireAlone ==
  ASSUME TypeInv, NEW j \in Jobs, Fire(j)
  PROVE  /\ Alone(j)
         /\ UNCHANGED <<load, rows, covers, acted, cache, mailbox, gone, old, replied, today, alerts, trouble>>
<1>1. DOMAIN pc = Jobs /\ LocalTypes
  BY DEF TypeInv, StateTypes
<1>2. Open(j)
  BY DEF Fire, Webhook, FileChange, Cron, Dispatch
<1>3. mail' = mail \/ \E m : mail' = [mail EXCEPT ![j] = m]
  BY DEF Fire, Webhook, FileChange, Cron, Dispatch
<1>4. QED
  BY <1>1, <1>2, <1>3 DEF LocalTypes, Open, Go, Alone, Shaped, Still, state

LEMMA BreakAlone ==
  ASSUME TypeInv, NEW j \in Jobs, Break(j)
  PROVE  Alone(j) /\ UNCHANGED <<local, state, waiting, mailbox, gone, old, replied, today, alerts>>
<1>1. DOMAIN pc = Jobs /\ LocalTypes
  BY DEF TypeInv, StateTypes
<1>2. QED
  BY <1>1 DEF LocalTypes, Break, Go, Alone, Shaped, Still, local

LEMMA StepAlone ==
  ASSUME TypeInv, NEW j \in Jobs, Step(j)
  PROVE  Alone(j) /\ UNCHANGED <<mailbox, gone, old, replied, today, trouble>>
<1>1. DOMAIN pc = Jobs /\ LocalTypes
  BY DEF TypeInv, StateTypes
<1> USE <1>1 DEF LocalTypes, Alone, Shaped, Still, Go, local, state, world
<1>2. CASE Read(j)
  BY <1>2 DEF Read
<1>3. CASE Write(j)
  BY <1>3 DEF Write
<1>4. CASE List(j)
  BY <1>4 DEF List
<1>5. CASE History(j)
  BY <1>5 DEF History
<1>6. CASE Enqueue(j)
  BY <1>6 DEF Enqueue, Acts
<1>7. CASE Cached(j)
  BY <1>7 DEF Cached
<1>8. CASE Classify(j)
  BY <1>8 DEF Classify
<1>9. CASE Keep(j)
  BY <1>9 DEF Keep
<1>10. CASE Triage(j)
  BY <1>10 DEF Triage
<1>11. CASE AppendThread(j)
  BY <1>11 DEF AppendThread, Acts
<1>12. CASE Check(j)
  BY <1>12 DEF Check, Onward
<1>13. CASE Chase(j)
  BY <1>13 DEF Chase, Onward
<1>14. CASE Journal(j)
  BY <1>14 DEF Journal
<1>15. CASE Streaks(j)
  BY <1>15 DEF Streaks
<1>16. CASE Intervene(j)
  BY <1>16 DEF Intervene, Acts
<1>17. CASE Status(j)
  BY <1>17 DEF Status
<1>18. CASE Article(j)
  BY <1>18 DEF Article, Acts, NextArticle
<1>19. CASE Offer(j)
  BY <1>19 DEF Offer, NextArticle
<1>20. CASE Gather(j)
  BY <1>20 DEF Gather, Compose, DailyBriefing, PortfolioWatcher, ExpenseAuditor, TaxHelper,
              RelationshipMaintenance, TravelPlanner
<1>21. CASE Digest(j)
  BY <1>21 DEF Digest
<1>22. QED
  BY <1>2, <1>3, <1>4, <1>5, <1>6, <1>7, <1>8, <1>9, <1>10, <1>11, <1>12, <1>13, <1>14,
     <1>15, <1>16, <1>17, <1>18, <1>19, <1>20, <1>21
     DEF Step, Mailing, Triaging, Following, Guarding, Watching, Handling

\* The shared state that a step may write.
LEMMA StepFrame ==
  ASSUME NEW j, Step(j)
  PROVE  /\ Write(j) \/ UNCHANGED <<rows, covers>>
         /\ Keep(j) \/ UNCHANGED cache
         /\ Enqueue(j) \/ UNCHANGED waiting
         /\ Enqueue(j) \/ AppendThread(j) \/ Intervene(j) \/ Article(j) \/ UNCHANGED acted
         /\ \/ Triage(j) \/ Chase(j) \/ Intervene(j) \/ Status(j) \/ Offer(j) \/ Digest(j)
            \/ UNCHANGED alerts
<1> USE DEF local, state, world
<1>1. CASE Read(j)
  BY <1>1 DEF Read
<1>2. CASE Write(j)
  BY <1>2 DEF Write
<1>3. CASE List(j)
  BY <1>3 DEF List
<1>4. CASE History(j)
  BY <1>4 DEF History
<1>5. CASE Enqueue(j)
  BY <1>5 DEF Enqueue
<1>6. CASE Cached(j)
  BY <1>6 DEF Cached
<1>7. CASE Classify(j)
  BY <1>7 DEF Classify
<1>8. CASE Keep(j)
  BY <1>8 DEF Keep
<1>9. CASE Triage(j)
  BY <1>9 DEF Triage
<1>10. CASE AppendThread(j)
  BY <1>10 DEF AppendThread
<1>11. CASE Check(j)
  BY <1>11 DEF Check
<1>12. CASE Chase(j)
  BY <1>12 DEF Chase
<1>13. CASE Journal(j)
  BY <1>13 DEF Journal
<1>14. CASE Streaks(j)
  BY <1>14 DEF Streaks
<1>15. CASE Intervene(j)
  BY <1>15 DEF Intervene
<1>16. CASE Status(j)
  BY <1>16 DEF Status
<1>17. CASE Article(j)
  BY <1>17 DEF Article
<1>18. CASE Offer(j)
  BY <1>18 DEF Offer
<1>19. CASE Gather(j)
  BY <1>19 DEF Gather
<1>20. CASE Digest(j)
  BY <1>20 DEF Digest
<1>21. QED
  BY <1>1, <1>2, <1>3, <1>4, <1>5, <1>6, <1>7, <1>8, <1>9, <1>10, <1>11, <1>12, <1>13,
     <1>14, <1>15, <1>16, <1>17, <1>18, <1>19, <1>20
     DEF Step, Mailing, Triaging, Following, Guarding, Watching, Handling

\* The constants of the jobs, as the assumptions give them.
LEMMA LoadFacts ==
  ASSUME load \in Loads
  PROVE  /\ load.kind \in [Jobs -> Kinds] /\ load.mails \in Seq(Posts)
         /\ load.queue \in Seq(ToSet(load.queue)) /\ load.articles \in Seq(Articles)
         /\ load.history \in Seq(Interventions) /\ load.journal \in Seq(Lines)
         /\ Posts \subseteq AllMails
         /\ \A i, k \in DOMAIN load.mails : load.mails[i] = load.mails[k] => i = k
  BY LoadAssumption DEF Posts, Articles, AllMails, IsInjective
----
\* Types

LEMMA ListOfIs ==
  ASSUME NEW j
  PROVE  /\ Kind(j) \in Mailers => ListOf(j) = "poll"
         /\ Kind(j) \in Followers => ListOf(j) = "followup"
         /\ Kind(j) = "health" => ListOf(j) = "health"
         /\ Kind(j) = "funded" => ListOf(j) = "funded"
         /\ Kind(j) \in Listers \cup Mailers => ListOf(j) \in Lists
  BY DEF ListOf, Mailers, Followers, Listers, Lists

LEMMA OpeningIs ==
  ASSUME NEW j, Kind(j) \in Kinds \ {"absent"}
  PROVE  /\ Kind(j) = "gmail" => Opening(j) = "history"
         /\ Kind(j) = "triage" => Opening(j) = "cached"
         /\ Kind(j) = "health" => Opening(j) = "journal"
         /\ Kind(j) \in Handlers => Opening(j) = "gather"
         /\ Kind(j) \in {"poll", "outbound", "scan", "funded"} => Opening(j) = "read"
  BY DEF Opening, Kinds, Handlers

LEMMA AgendaIs ==
  ASSUME NEW j, NEW list
  PROVE  /\ Kind(j) = "outbound" =>
              Agenda(j, list) = IF load.thread \in ToSet(list) THEN <<>> ELSE <<load.thread>>
         /\ Kind(j) = "scan" => Agenda(j, list) = list
         /\ Kind(j) = "funded" => Agenda(j, list) = load.articles
         /\ Kind(j) \in {"poll", "health"} => Agenda(j, list) = <<>>
  BY DEF Agenda

LEMMA AfterReadIs ==
  ASSUME NEW j, NEW agenda
  PROVE  /\ Kind(j) = "poll" => AfterRead(j, agenda) = "list"
         /\ Kind(j) = "health" => AfterRead(j, agenda) = "streaks"
         /\ Kind(j) = "outbound" =>
              AfterRead(j, agenda) = IF agenda = <<>> THEN "done" ELSE "append"
         /\ Kind(j) = "scan" => AfterRead(j, agenda) = IF agenda = <<>> THEN "done" ELSE "check"
         /\ Kind(j) = "funded" =>
              AfterRead(j, agenda) = IF agenda = <<>> THEN "done" ELSE "article"
  BY DEF AfterRead

LEMMA AfterStepIs ==
  AfterStep("list") = "enqueue" /\ AfterStep("enqueue") = "write" /\ AfterStep("write") = "done"
  BY DEF AfterStep

LEMMA OneOrMore ==
  ASSUME NEW n \in Nat, n >= 1
  PROVE  (n > 1 /\ ~ (n = 1)) \/ (n = 1 /\ ~ (n > 1))
  OBVIOUS

\* Where a job goes after an entry of the queue, and after an article.
LEMMA OnwardGoes ==
  ASSUME NEW S, NEW j \in Jobs, NEW keep, Onward(j, keep), TypeInv,
         todo[j] \in Seq(S), todo[j] # <<>>, keep \in Seq(S), copy[j] \in Seq(S)
  PROVE  /\ kept'[j] = keep /\ todo'[j] = Tail(todo[j])
         /\ \/ pc'[j] = "check" /\ Len(todo[j]) > 1
            \/ pc'[j] \in {"write", "done"} /\ Len(todo[j]) = 1
<1>1. DOMAIN pc = Jobs /\ LocalTypes
  BY DEF TypeInv, StateTypes
<1>2. \/ Len(todo[j]) > 1 /\ ~ (Len(todo[j]) = 1)
      \/ Len(todo[j]) = 1 /\ ~ (Len(todo[j]) > 1)
  <2>1. Len(todo[j]) \in Nat /\ Len(todo[j]) >= 1
    BY ToSetHead
  <2>2. QED
    BY <2>1, OneOrMore, Zenon
<1>3. kept'[j] = keep /\ todo'[j] = Tail(todo[j])
  BY <1>1 DEF Onward, LocalTypes
<1> DEFINE v == CASE Len(todo[j]) > 1 -> "check"
             [] Len(todo[j]) = 1 /\ Len(keep) # Len(copy[j]) -> "write"
             [] Len(todo[j]) = 1 /\ Len(keep) = Len(copy[j]) -> "done"
<1>4. pc'[j] = v
  BY <1>1 DEF Onward, Go
<1>5. CASE Len(todo[j]) > 1 /\ ~ (Len(todo[j]) = 1)
  <2>1. v = "check"
    BY <1>5
  <2>2. QED
    BY <1>3, <1>4, <1>5, <2>1
<1>6. CASE Len(todo[j]) = 1 /\ ~ (Len(todo[j]) > 1)
  <2>1. v \in {"write", "done"}
    BY <1>6
  <2>2. QED
    BY <1>3, <1>4, <1>6, <2>1
<1>7. QED
  BY <1>2, <1>5, <1>6

LEMMA ArticleGoes ==
  ASSUME NEW S, NEW j \in Jobs, NEW keep, NextArticle(j, keep), TypeInv,
         todo[j] \in Seq(S), todo[j] # <<>>, keep \in Seq(S)
  PROVE  /\ kept'[j] = keep /\ todo'[j] = Tail(todo[j])
         /\ \/ pc'[j] = "article" /\ Len(todo[j]) > 1
            \/ pc'[j] \in {"write", "done"} /\ Len(todo[j]) = 1
<1>1. DOMAIN pc = Jobs /\ LocalTypes
  BY DEF TypeInv, StateTypes
<1>2. \/ Len(todo[j]) > 1 /\ ~ (Len(todo[j]) = 1)
      \/ Len(todo[j]) = 1 /\ ~ (Len(todo[j]) > 1)
  <2>1. Len(todo[j]) \in Nat /\ Len(todo[j]) >= 1
    BY ToSetHead
  <2>2. QED
    BY <2>1, OneOrMore, Zenon
<1>3. kept'[j] = keep /\ todo'[j] = Tail(todo[j])
  BY <1>1 DEF NextArticle, LocalTypes
<1> DEFINE v == CASE Len(todo[j]) > 1 -> "article"
             [] Len(todo[j]) = 1 /\ keep # <<>> -> "write"
             [] Len(todo[j]) = 1 /\ keep = <<>> -> "done"
<1>4. pc'[j] = v
  BY <1>1 DEF NextArticle, Go
<1>5. CASE Len(todo[j]) > 1 /\ ~ (Len(todo[j]) = 1)
  <2>1. v = "article"
    BY <1>5
  <2>2. QED
    BY <1>3, <1>4, <1>5, <2>1
<1>6. CASE Len(todo[j]) = 1 /\ ~ (Len(todo[j]) > 1)
  <2>1. v \in {"write", "done"}
    BY <1>6
  <2>2. QED
    BY <1>3, <1>4, <1>6, <2>1
<1>7. QED
  BY <1>2, <1>5, <1>6

LEMMA KindsApart ==
  /\ Kinds \cap {"read"} = {} /\ "absent" \notin Handlers
  /\ Handlers \cap (Mailers \cup Followers \cup {"triage", "health", "funded", "absent"}) = {}
  /\ Mailers \subseteq Kinds /\ Followers \subseteq Kinds /\ Handlers \subseteq Kinds
  BY DEF Kinds, Handlers, Mailers, Followers

\* What the invariant says of one job, and of the constants of its load.
LEMMA TypeFacts ==
  ASSUME TypeInv, NEW j \in Jobs
  PROVE  /\ Placed(j) /\ Holds(j) /\ Kind(j) \in Kinds
         /\ pc[j] \in Steps /\ DOMAIN pc = Jobs /\ LocalTypes
         /\ load.mails \in Seq(Posts) /\ load.articles \in Seq(Articles)
         /\ load.queue \in Seq(ToSet(load.queue)) /\ load.history \in Seq(Interventions)
         /\ load.journal \in Seq(Lines) /\ today \in 0 .. MaxDay
  BY LoadFacts DEF TypeInv, StateTypes

LEMMA ReadTyped ==
  ASSUME TypeInv, NEW j \in Jobs, Read(j)
  PROVE  Placed(j)' /\ Holds(j)'
<1>1. /\ Placed(j) /\ Holds(j) /\ Kind(j) \in Kinds /\ DOMAIN pc = Jobs /\ LocalTypes
      /\ load.articles \in Seq(Articles)
  BY TypeFacts
<1>2. pc[j] = "read" /\ load' = load /\ mail' = mail /\ verdict' = verdict
  BY DEF Read
<1>3. Kind(j) \in Listers /\ Kind(j)' = Kind(j)
  BY <1>1, <1>2 DEF Placed, Kind
<1>4. PICK list : list = rows[ListOf(j)]
  OBVIOUS
<1>5. /\ copy'[j] = list /\ todo'[j] = Agenda(j, list) /\ kept'[j] = <<>>
      /\ pc'[j] = AfterRead(j, Agenda(j, list))
  BY <1>1, <1>4 DEF Read, LocalTypes, Go
<1>6. RowsHold
  BY DEF TypeInv
<1>7. CASE Kind(j) = "poll"
  <2>1. list \in Seq(Posts)
    BY <1>4, <1>6, <1>7, ListOfIs DEF RowsHold, Mailers
  <2>2. pc'[j] = "list" /\ todo'[j] = <<>>
    BY <1>5, <1>7, AgendaIs, AfterReadIs
  <2>3. QED
    BY <1>1, <1>2, <1>3, <1>5, <1>7, <2>1, <2>2
       DEF Placed, Holds, Steps, Mailers, Followers, Posts, Correspondents, Articles
<1>8. CASE Kind(j) = "health"
  <2>1. list \in Seq(Interventions)
    BY <1>4, <1>6, <1>8, ListOfIs DEF RowsHold
  <2>2. pc'[j] = "streaks" /\ todo'[j] = <<>>
    BY <1>5, <1>8, AgendaIs, AfterReadIs
  <2>3. QED
    BY <1>1, <1>2, <1>3, <1>5, <1>8, <2>1, <2>2
       DEF Placed, Holds, Steps, Mailers, Followers, Posts, Correspondents, Articles
<1>9. CASE Kind(j) = "outbound"
  <2>1. list \in Seq(Correspondents)
    BY <1>4, <1>6, <1>9, ListOfIs DEF RowsHold, Followers
  <2>2. todo'[j] = <<>> \/ todo'[j] = <<load.thread>>
    BY <1>5, <1>9, AgendaIs
  <2>3. pc'[j] = IF todo'[j] = <<>> THEN "done" ELSE "append"
    BY <1>5, <1>9, AfterReadIs
  <2>4. todo'[j] \in Seq(Correspondents)
    <3>1. load.thread \in Correspondents
      BY DEF Correspondents
    <3>2. <<>> \in Seq(Correspondents) /\ <<load.thread>> \in Seq(Correspondents)
      BY <3>1
    <3>3. QED
      BY <2>2, <3>2
  <2>5. QED
    BY <1>1, <1>2, <1>3, <1>5, <1>9, <2>1, <2>3, <2>4
       DEF Placed, Holds, Steps, Mailers, Followers, Ended, Posts, Correspondents, Articles
<1>10. CASE Kind(j) = "scan"
  <2>1. list \in Seq(Correspondents)
    BY <1>4, <1>6, <1>10, ListOfIs DEF RowsHold, Followers
  <2>2. todo'[j] = list /\ pc'[j] = IF list = <<>> THEN "done" ELSE "check"
    BY <1>5, <1>10, AgendaIs, AfterReadIs
  <2>3. QED
    BY <1>1, <1>2, <1>3, <1>5, <1>10, <2>1, <2>2
       DEF Placed, Holds, Steps, Mailers, Followers, Ended, Posts, Correspondents, Articles
<1>11. CASE Kind(j) = "funded"
  <2>1. list \in Seq(Articles)
    BY <1>4, <1>6, <1>11, ListOfIs DEF RowsHold
  <2>2. /\ todo'[j] = load.articles
        /\ pc'[j] = IF load.articles = <<>> THEN "done" ELSE "article"
    BY <1>5, <1>11, AgendaIs, AfterReadIs
  <2>3. QED
    BY <1>1, <1>2, <1>3, <1>5, <1>11, <2>1, <2>2
       DEF Placed, Holds, Steps, Mailers, Followers, Ended, Posts, Correspondents, Articles
<1>12. QED
  BY <1>3, <1>7, <1>8, <1>9, <1>10, <1>11 DEF Listers

LEMMA WriteTyped ==
  ASSUME TypeInv, NEW j \in Jobs, Write(j)
  PROVE  Placed(j)' /\ Holds(j)'
<1>1. /\ Placed(j) /\ Holds(j) /\ Kind(j) \in Kinds /\ DOMAIN pc = Jobs
  BY TypeFacts
<1>2. pc[j] = "write" /\ load' = load /\ UNCHANGED local
  BY DEF Write
<1>3. Kind(j)' = Kind(j) /\ pc'[j] = "done"
  BY <1>1, <1>2, AfterStepIs DEF Write, Go, Kind
<1>4. QED
  BY <1>1, <1>2, <1>3
     DEF Placed, Holds, Steps, Ended, local, Posts, Correspondents, Articles

\* Sifting a sequence leaves one of the same kind.
LEMMA SiftIn ==
  ASSUME NEW S, NEW s \in Seq(S), NEW T
  PROVE  Sift(s, T) \in Seq(S)
<1>1. Sift(s, T) \in Seq(S \cap T)
  BY SiftType
<1>2. QED
  BY <1>1

\* The mails that the poll's query finds.
LEMMA FoundType ==
  ASSUME TypeInv
  PROVE  /\ Found \in Seq(Posts) /\ Len(Found) \in Nat
         /\ ToSet(Found) = ToSet(mailbox) \ gone
         /\ gone = {} => Found = mailbox
<1>1. mailbox \in Seq(Posts)
  BY DEF TypeInv, Arrived
<1>2. Found \in Seq(Posts) /\ ToSet(Found) = ToSet(mailbox) \cap (ToSet(mailbox) \ gone)
  BY <1>1, SiftIn, SiftSet DEF Found
<1>3. gone = {} => Found = mailbox
  <2>1. gone = {} => Found = Sift(mailbox, ToSet(mailbox))
    <3>1. gone = {} => ToSet(mailbox) \ gone = ToSet(mailbox)
      OBVIOUS
    <3>2. QED
      BY <3>1, Zenon DEF Found
  <2>2. QED
    BY <1>1, <2>1, SiftAll
<1>4. QED
  BY <1>2, <1>3

\* The mails that the poll lists, newest first.
LEMMA LatestType ==
  ASSUME TypeInv
  PROVE  /\ Latest \in Seq(Posts) /\ Len(Latest) \in Nat
         /\ Len(Latest) = IF Len(Found) < Limit THEN Len(Found) ELSE Limit
         /\ \A i \in 1 .. Len(Latest) :
              Latest[i] = Found[Len(Found) + 1 - i] /\ Len(Found) + 1 - i \in 1 .. Len(Found)
<1> DEFINE n == IF Len(Found) < Limit THEN Len(Found) ELSE Limit
<1>1. Found \in Seq(Posts) /\ Len(Found) \in Nat /\ Limit \in Nat
  BY LoopAssumption, FoundType
<1>2. n \in Nat /\ n <= Len(Found)
  BY <1>1
<1>3. \A i \in 1 .. n : Len(Found) + 1 - i \in 1 .. Len(Found)
  BY <1>1, <1>2
<1>4. \A i \in 1 .. n : Found[Len(Found) + 1 - i] \in Posts
  BY <1>1, <1>3
<1>5. Latest = [i \in 1 .. n |-> Found[Len(Found) + 1 - i]]
  BY DEF Latest
<1> HIDE DEF n
<1>6. Latest \in [1 .. n -> Posts]
  BY <1>4, <1>5
<1>7. Latest \in Seq(Posts) /\ Len(Latest) = n
  BY <1>2, <1>6
<1>8. QED
  BY <1>2, <1>3, <1>5, <1>7 DEF n

LEMMA MailingTyped ==
  ASSUME TypeInv, NEW j \in Jobs, Mailing(j)
  PROVE  Placed(j)' /\ Holds(j)'
<1>1. /\ Placed(j) /\ Holds(j) /\ Kind(j) \in Kinds /\ DOMAIN pc = Jobs /\ LocalTypes
  BY TypeFacts
<1> USE DEF Steps, Ended, Mailers, Followers, Kind, Posts, Correspondents, Articles
<1>2. CASE List(j)
  <2>1. pc[j] = "list" /\ load' = load /\ mail' = mail /\ verdict' = verdict /\ copy' = copy
    BY <1>2 DEF List
  <2>2. PICK news : news = News(Latest, copy[j])
    OBVIOUS
  <2>3. /\ todo'[j] = news /\ kept'[j] = news
        /\ pc'[j] = IF news = <<>> THEN "done" ELSE "enqueue"
    BY <1>1, <1>2, <2>2, AfterStepIs DEF List, LocalTypes, Go
  <2>4. news \in Seq(Posts)
    BY <2>2, LatestType, SiftIn DEF News
  <2>5. Kind(j) = "poll"
    BY <1>1, <2>1 DEF Placed
  <2>6. QED
    BY <1>1, <2>1, <2>3, <2>4, <2>5 DEF Placed, Holds
<1>3. CASE History(j)
  <2>1. /\ pc[j] = "history" /\ load' = load /\ mail' = mail /\ verdict' = verdict
        /\ copy' = copy /\ kept' = kept
    BY <1>3 DEF History
  <2>2. PICK ms \in SUBSET ToSet(mailbox) :
          /\ todo'[j] = Sift(mailbox, ms)
          /\ pc'[j] = IF ms = {} THEN "done" ELSE "enqueue"
    BY <1>1, <1>3 DEF History, LocalTypes, Go
  <2>3. mailbox \in Seq(Posts)
    BY DEF TypeInv, Arrived
  <2>4. todo'[j] \in Seq(Posts) /\ ToSet(todo'[j]) = ToSet(mailbox) \cap ms
    BY <2>2, <2>3, SiftIn, SiftSet
  <2>5. ms # {} => todo'[j] # <<>>
    BY <2>2, <2>4, ToSetEmpty
  <2>6. Kind(j) = "gmail"
    BY <1>1, <2>1 DEF Placed
  <2>7. QED
    BY <1>1, <2>1, <2>2, <2>4, <2>5, <2>6 DEF Placed, Holds
<1>4. CASE Enqueue(j)
  <2>1. /\ pc[j] = "enqueue" /\ load' = load /\ mail' = mail /\ verdict' = verdict
        /\ copy' = copy /\ kept' = kept
    BY <1>4 DEF Enqueue
  <2>2. /\ todo'[j] = Tail(todo[j])
        /\ pc'[j] = IF Len(todo[j]) > 1 THEN "enqueue"
                    ELSE IF Kind(j) = "poll" THEN "write" ELSE "done"
    BY <1>1, <1>4, AfterStepIs DEF Enqueue, LocalTypes, Go
  <2>3. Kind(j) \in Mailers /\ todo[j] \in Seq(Posts) /\ todo[j] # <<>>
    BY <1>1, <2>1 DEF Placed, Holds
  <2>4. todo'[j] \in Seq(Posts) /\ (Len(todo[j]) > 1 <=> todo'[j] # <<>>)
    BY <2>2, <2>3, ToSetHead
  <2>5. QED
    BY <1>1, <2>1, <2>2, <2>3, <2>4 DEF Placed, Holds, Listers
<1>5. QED
  BY <1>2, <1>3, <1>4 DEF Mailing

\* client_match is what the lookup says.
LEMMA ResolvedType ==
  ASSUME NEW said \in Verdicts, NEW m
  PROVE  Resolved(said, m) \in Verdicts /\ (Resolved(said, m).client <=> m \in Clients)
<1>1. PICK b \in BOOLEAN : b <=> m \in Clients
  OBVIOUS
<1>2. b = (m \in Clients)
  BY <1>1, Zenon
<1>3. Resolved(said, m) = [said EXCEPT !.client = b]
  BY <1>2, Zenon DEF Resolved
<1>4. [said EXCEPT !.client = b] \in Verdicts /\ [said EXCEPT !.client = b].client = b
  BY DEF Verdicts
<1>5. QED
  BY <1>1, <1>3, <1>4

LEMMA TriagingTyped ==
  ASSUME TypeInv, NEW j \in Jobs, Triaging(j)
  PROVE  /\ Placed(j)' /\ Holds(j)'
         /\ verdict'[j] \in Verdicts \cup {NoVerdict}
         /\ cache' \in [Posts -> Verdicts \cup {NoVerdict}]
<1>1. /\ Placed(j) /\ Holds(j) /\ Kind(j) \in Kinds /\ DOMAIN pc = Jobs /\ LocalTypes
      /\ cache \in [Posts -> Verdicts \cup {NoVerdict}]
      /\ verdict[j] \in Verdicts \cup {NoVerdict}
  BY TypeFacts DEF TypeInv, StateTypes, Posts
<1>2. /\ load' = load /\ mail' = mail /\ copy' = copy /\ todo' = todo /\ kept' = kept
      /\ pc[j] \in {"cached", "classify", "keep", "triage"}
      /\ pc'[j] \in {"classify", "keep", "triage", "done"}
  BY <1>1 DEF Triaging, Cached, Classify, Keep, Triage, Go, local
<1>3. Kind(j) = "triage" /\ mail[j] \in Posts /\ Kind(j)' = Kind(j)
  BY <1>1, <1>2 DEF Placed, Holds, Kind
<1>4. /\ verdict'[j] \in Verdicts \cup {NoVerdict}
      /\ pc'[j] \in {"keep", "triage"} => verdict'[j] \in Verdicts
      /\ cache' \in [Posts -> Verdicts \cup {NoVerdict}]
  <2>1. CASE Cached(j)
    BY <1>1, <1>3, <2>1 DEF Cached, Go, LocalTypes, state
  <2>2. CASE Classify(j)
    <3>1. PICK said \in Verdicts : verdict'[j] = Resolved(said, mail[j])
      BY <1>1, <2>2 DEF Classify, LocalTypes
    <3>2. Resolved(said, mail[j]) \in Verdicts
      BY ResolvedType
    <3>3. QED
      BY <1>1, <2>2, <3>1, <3>2 DEF Classify, state
  <2>3. CASE Keep(j)
    <3>1. verdict[j] \in Verdicts
      BY <1>1, <2>3 DEF Keep, Holds
    <3>2. QED
      BY <1>1, <1>3, <2>3, <3>1 DEF Keep, local
  <2>4. CASE Triage(j)
    BY <1>1, <2>4 DEF Triage, Go, local, state
  <2>5. QED
    BY <2>1, <2>2, <2>3, <2>4 DEF Triaging
<1>5. QED
  BY <1>1, <1>2, <1>3, <1>4
     DEF Placed, Holds, Steps, Ended, Mailers, Followers, Posts, Correspondents, Articles

LEMMA FollowingTyped ==
  ASSUME TypeInv, NEW j \in Jobs, Following(j)
  PROVE  Placed(j)' /\ Holds(j)'
<1>1. /\ Placed(j) /\ Holds(j) /\ Kind(j) \in Kinds /\ DOMAIN pc = Jobs /\ LocalTypes
  BY TypeFacts
<1> USE DEF Steps, Ended, Mailers, Followers, Listers, Posts, Correspondents, Articles
<1>2. load' = load /\ mail' = mail /\ verdict' = verdict /\ copy' = copy /\ Kind(j)' = Kind(j)
  BY DEF Following, AppendThread, Check, Chase, Kind
<1>3. CASE AppendThread(j)
  <2>1. pc[j] = "append" /\ pc'[j] = "write" /\ kept'[j] = todo[j] /\ todo' = todo
    BY <1>1, <1>3 DEF AppendThread, Go, LocalTypes
  <2>2. Kind(j) = "outbound"
    BY <1>1, <2>1 DEF Placed
  <2>3. QED
    BY <1>1, <1>2, <2>1, <2>2 DEF Placed, Holds
<1>4. CASE Check(j) \/ Chase(j)
  <2>1. pc[j] \in {"check", "chase"}
    BY <1>4 DEF Check, Chase
  <2>2. /\ Kind(j) = "scan" /\ copy[j] \in Seq(Correspondents)
        /\ todo[j] \in Seq(Correspondents) /\ kept[j] \in Seq(Correspondents) /\ todo[j] # <<>>
    BY <1>1, <2>1 DEF Placed, Holds
  <2>3. PICK t : t = Head(todo[j])
    OBVIOUS
  <2>4. /\ Append(kept[j], t) \in Seq(Correspondents) /\ Tail(todo[j]) \in Seq(Correspondents)
        /\ Len(todo[j]) > 1 <=> Tail(todo[j]) # <<>>
    <3>1. t \in Correspondents /\ Tail(todo[j]) \in Seq(Correspondents)
      BY <2>2, <2>3, ToSetHead
    <3>2. Len(todo[j]) > 1 <=> Tail(todo[j]) # <<>>
      BY <2>2, ToSetHead
    <3>3. QED
      BY <2>2, <3>1, <3>2
  <2>5. \/ \E keep \in {kept[j], Append(kept[j], t)} : Onward(j, keep)
        \/ pc'[j] = "chase" /\ kept' = kept /\ todo' = todo
    BY <1>1, <1>4, <2>3 DEF Check, Chase, KeptBlind, Go
  <2>6. CASE \E keep \in {kept[j], Append(kept[j], t)} : Onward(j, keep)
    <3>1. PICK keep \in {kept[j], Append(kept[j], t)} : Onward(j, keep)
      BY <2>6
    <3>2. keep \in Seq(Correspondents)
      BY <2>2, <2>4, <3>1
    <3>3. /\ kept'[j] = keep /\ todo'[j] = Tail(todo[j])
          /\ \/ pc'[j] = "check" /\ Len(todo[j]) > 1
             \/ pc'[j] \in {"write", "done"} /\ Len(todo[j]) = 1
      BY <2>2, <3>1, <3>2, OnwardGoes
    <3>4. QED
      BY <1>1, <1>2, <2>2, <2>4, <3>2, <3>3 DEF Placed, Holds
  <2>7. CASE pc'[j] = "chase" /\ kept' = kept /\ todo' = todo
    BY <1>1, <1>2, <2>2, <2>7 DEF Placed, Holds
  <2>8. QED
    BY <2>5, <2>6, <2>7
<1>5. QED
  BY <1>3, <1>4 DEF Following

LEMMA WatchingTyped ==
  ASSUME TypeInv, NEW j \in Jobs, Watching(j)
  PROVE  Placed(j)' /\ Holds(j)'
<1>1. /\ Placed(j) /\ Holds(j) /\ Kind(j) \in Kinds /\ DOMAIN pc = Jobs /\ LocalTypes
  BY TypeFacts
<1> USE DEF Steps, Ended, Mailers, Followers, Listers, Posts, Correspondents, Articles
<1>2. load' = load /\ mail' = mail /\ verdict' = verdict /\ copy' = copy /\ Kind(j)' = Kind(j)
  BY DEF Watching, Article, Offer, Kind
<1>3. pc[j] \in {"article", "offer"}
  BY DEF Watching, Article, Offer
<1>4. /\ Kind(j) = "funded" /\ copy[j] \in Seq(Articles)
      /\ todo[j] \in Seq(Articles) /\ kept[j] \in Seq(Articles) /\ todo[j] # <<>>
  BY <1>1, <1>3 DEF Placed, Holds
<1>5. PICK a : a = Head(todo[j])
  OBVIOUS
<1>6. /\ Append(kept[j], a) \in Seq(Articles) /\ Tail(todo[j]) \in Seq(Articles)
      /\ Len(todo[j]) > 1 <=> Tail(todo[j]) # <<>>
  <2>1. a \in Articles /\ Tail(todo[j]) \in Seq(Articles)
    BY <1>4, <1>5, ToSetHead
  <2>2. Len(todo[j]) > 1 <=> Tail(todo[j]) # <<>>
    BY <1>4, ToSetHead
  <2>3. QED
    BY <1>4, <2>1, <2>2
<1>7. \/ \E keep \in {kept[j], Append(kept[j], a)} : NextArticle(j, keep)
      \/ pc'[j] = "offer" /\ kept' = kept /\ todo' = todo
  BY <1>1, <1>5 DEF Watching, Article, Offer, Go
<1>8. CASE \E keep \in {kept[j], Append(kept[j], a)} : NextArticle(j, keep)
  <2>1. PICK keep \in {kept[j], Append(kept[j], a)} : NextArticle(j, keep)
    BY <1>8
  <2>2. keep \in Seq(Articles)
    BY <1>4, <1>6, <2>1
  <2>3. /\ kept'[j] = keep /\ todo'[j] = Tail(todo[j])
        /\ \/ pc'[j] = "article" /\ Len(todo[j]) > 1
           \/ pc'[j] \in {"write", "done"} /\ Len(todo[j]) = 1
    BY <1>4, <2>1, <2>2, ArticleGoes
  <2>4. QED
    BY <1>1, <1>2, <1>4, <1>6, <2>2, <2>3 DEF Placed, Holds
<1>9. CASE pc'[j] = "offer" /\ kept' = kept /\ todo' = todo
  BY <1>1, <1>2, <1>4, <1>9 DEF Placed, Holds
<1>10. QED
  BY <1>7, <1>8, <1>9

\* A type that was used comes back only when all of them were.
LEMMA PickTypeIs ==
  ASSUME NEW d, NEW h \in Seq(Interventions)
  PROVE  /\ PickType(d, h) \in ToSet(Types)
         /\ PickType(d, h) \in Used(d, h) => ToSet(Types) \subseteq Used(d, h)
<1> DEFINE fresh == Sift(Types, ToSet(Types) \ Used(d, h))
           F == {e \in ToSet(h) : e.dim = d}
           mine == Sift(h, F)
<1>1. Types \in Seq(ToSet(Types))
  <2>1. Types \in Seq({"nudge", "reframe", "action"})
    BY DEF Types
  <2>2. QED
    BY <2>1, ToSetType
<1>2. ToSet(h) \subseteq Interventions
  BY ToSetType
<1>3. fresh \in Seq(ToSet(Types)) /\ ToSet(fresh) = ToSet(Types) \ Used(d, h)
  <2>1. fresh \in Seq(ToSet(Types))
    BY <1>1, SiftIn
  <2>2. ToSet(fresh) = ToSet(Types) \cap (ToSet(Types) \ Used(d, h))
    BY <1>1, SiftSet
  <2>3. QED
    BY <2>1, <2>2
<1>4. mine \in Seq(Interventions) /\ ToSet(mine) = F
  <2>1. mine \in Seq(Interventions)
    BY SiftIn
  <2>2. ToSet(mine) = ToSet(h) \cap F
    BY SiftSet
  <2>3. QED
    BY <2>1, <2>2
<1>5. PickType(d, h) = IF fresh # <<>> THEN Head(fresh) ELSE mine[1].type
  BY Zenon DEF PickType
<1>6. Used(d, h) # {} => F # {}
  <2>1. PICK L : L = Lately(ToSet(h), today) /\ L \subseteq ToSet(h)
    BY DEF Lately
  <2>2. Used(d, h) = {e.type : e \in {f \in L : f.dim = d}}
    BY <2>1, Zenon DEF Used, TypesOf
  <2>3. QED
    BY <2>1, <2>2
<1> HIDE DEF fresh, mine, F
<1>7. CASE fresh # <<>>
  <2>1. Head(fresh) \in ToSet(Types) \ Used(d, h)
    BY <1>3, <1>7, ToSetHead
  <2>2. QED
    BY <1>5, <1>7, <2>1
<1>8. CASE fresh = <<>>
  <2>1. ToSet(Types) \subseteq Used(d, h)
    BY <1>3, <1>8, ToSetEmpty
  <2>2. ToSet(Types) # {}
    <3>1. 1 \in DOMAIN Types
      BY DEF Types
    <3>2. QED
      BY <3>1 DEF ToSet
  <2>3. F # {}
    BY <1>6, <2>1, <2>2
  <2>4. mine # <<>>
    BY <1>4, <2>3, ToSetEmpty
  <2>5. mine[1] \in ToSet(mine)
    BY <1>4, <2>4, ToSetHead
  <2>6. mine[1] \in Interventions
    BY <1>4, <2>4, ToSetHead
  <2>7. mine[1].type \in ToSet(Types)
    BY <2>6 DEF Interventions
  <2>8. QED
    BY <1>5, <1>8, <2>1, <2>7
<1>9. QED
  BY <1>7, <1>8

LEMMA GuardingTyped ==
  ASSUME TypeInv, NEW j \in Jobs, Guarding(j)
  PROVE  Placed(j)' /\ Holds(j)'
<1>1. /\ Placed(j) /\ Holds(j) /\ Kind(j) \in Kinds /\ DOMAIN pc = Jobs /\ LocalTypes
      /\ today \in 0 .. MaxDay
  BY TypeFacts
<1> USE DEF Steps, Ended, Mailers, Followers, Listers, Posts, Correspondents, Articles
<1>2. load' = load /\ mail' = mail /\ verdict' = verdict /\ copy' = copy /\ Kind(j)' = Kind(j)
  BY DEF Guarding, Journal, Streaks, Intervene, Status, Kind, local
<1>3. pc[j] \in {"journal", "streaks", "intervene", "status"}
  BY DEF Guarding, Journal, Streaks, Intervene, Status
<1>4. /\ Kind(j) = "health" /\ copy[j] \in Seq(Interventions)
      /\ todo[j] \in Seq(ToSet(Dimensions)) /\ kept[j] \in Seq(Interventions)
  BY <1>1, <1>3 DEF Placed, Holds
<1>5. CASE Journal(j) \/ Status(j)
  <2>1. todo' = todo /\ kept' = kept /\ pc'[j] \in {"done", "read"}
    BY <1>1, <1>5 DEF Journal, Status, Go, local
  <2>2. QED
    BY <1>1, <1>2, <1>4, <2>1 DEF Placed, Holds
<1>6. CASE Streaks(j)
  <2>1. PICK D : D = {d \in ToSet(Dimensions) : Streak(ByDay(load.journal), d) >= Threshold}
    OBVIOUS
  <2>2. PICK dims : dims = Sift(Dimensions, D)
    OBVIOUS
  <2>3. kept' = kept /\ todo'[j] = dims
    BY <1>1, <1>6, <2>1, <2>2, Zenon DEF Streaks, LocalTypes
  <2>4. pc'[j] = IF dims = <<>> THEN "status" ELSE "intervene"
    BY <1>1, <1>6, <2>1, <2>2, Zenon DEF Streaks, Go
  <2>5. dims \in Seq(ToSet(Dimensions))
    <3>1. Dimensions \in Seq(ToSet(Dimensions))
      BY LoopAssumption, ToSetType
    <3>2. QED
      BY <2>2, <3>1, SiftIn
  <2>6. QED
    BY <1>1, <1>2, <1>4, <2>3, <2>4, <2>5 DEF Placed, Holds
<1>7. CASE Intervene(j)
  <2>1. PICK d : d = Head(todo[j])
    OBVIOUS
  <2>2. PICK h : h = copy[j] \o kept[j]
    OBVIOUS
  <2>3. PICK entry : entry = [dim |-> d, type |-> PickType(d, h), at |-> today]
    OBVIOUS
  <2>4. /\ kept'[j] = Append(kept[j], entry) /\ todo'[j] = Tail(todo[j])
        /\ pc'[j] = IF Len(todo[j]) > 1 THEN "intervene" ELSE "write"
    BY <1>1, <1>7, <2>1, <2>2, <2>3 DEF Intervene, Go, LocalTypes
  <2>5. todo[j] # <<>>
    BY <1>1, <1>7 DEF Intervene, Holds
  <2>6. /\ d \in ToSet(Dimensions) /\ todo'[j] \in Seq(ToSet(Dimensions))
        /\ Len(todo[j]) > 1 <=> todo'[j] # <<>>
    BY <1>4, <2>1, <2>4, <2>5, ToSetHead
  <2>7. entry \in Interventions
    <3>1. h \in Seq(Interventions)
      BY <1>4, <2>2
    <3>2. PickType(d, h) \in ToSet(Types)
      BY <3>1, PickTypeIs
    <3>3. QED
      BY <1>1, <2>3, <2>6, <3>2 DEF Interventions
  <2>8. kept'[j] \in Seq(Interventions)
    BY <1>4, <2>4, <2>7
  <2>9. QED
    BY <1>1, <1>2, <1>4, <2>4, <2>6, <2>8 DEF Placed, Holds
<1>8. QED
  BY <1>5, <1>6, <1>7 DEF Guarding

LEMMA HandlingTyped ==
  ASSUME TypeInv, NEW j \in Jobs, Handling(j)
  PROVE  Placed(j)' /\ Holds(j)'
<1>1. /\ Placed(j) /\ Holds(j) /\ Kind(j) \in Kinds /\ DOMAIN pc = Jobs
  BY TypeFacts
<1>2. /\ load' = load /\ UNCHANGED local /\ Kind(j)' = Kind(j)
      /\ pc[j] \in {"gather", "digest", "apology"}
  BY DEF Handling, Gather, Digest, Kind
<1>3. pc'[j] \in {"digest", "apology", "done", "failed"}
  BY <1>1 DEF Handling, Gather, Digest, Go, Compose, DailyBriefing, PortfolioWatcher,
              ExpenseAuditor, TaxHelper, RelationshipMaintenance, TravelPlanner
<1>4. Kind(j) \in Handlers
  BY <1>1, <1>2 DEF Placed
<1>5. QED
  BY <1>1, <1>2, <1>3, <1>4, KindsApart
     DEF Placed, Holds, Steps, Ended, local, Posts, Correspondents, Articles

LEMMA StepTyped ==
  ASSUME TypeInv, NEW j \in Jobs, Step(j)
  PROVE  Placed(j)' /\ Holds(j)'
  BY ReadTyped, WriteTyped, MailingTyped, TriagingTyped, FollowingTyped, GuardingTyped,
     WatchingTyped, HandlingTyped DEF Step

LEMMA RememberedIs ==
  ASSUME NEW S, NEW seen \in Seq(S), NEW new \in Seq(S)
  PROVE  /\ Remembered(seen, new) \in Seq(S)
         /\ ToSet(Remembered(seen, new)) \subseteq ToSet(new) \cup ToSet(seen)
         /\ Len(Remembered(seen, new)) =
              IF Len(new \o seen) < Window THEN Len(new \o seen) ELSE Window
         /\ Len(Remembered(seen, new)) <= Window
         /\ Len(Remembered(seen, new)) < Window =>
              /\ ToSet(Remembered(seen, new)) = ToSet(new) \cup ToSet(seen)
              /\ Len(seen) < Window
         /\ \A i \in 1 .. Len(Remembered(seen, new)) :
              Remembered(seen, new)[i] = (new \o seen)[i]
<1> DEFINE n == IF Len(new \o seen) < Window THEN Len(new \o seen) ELSE Window
<1>1. PICK all : all = new \o seen
  OBVIOUS
<1>2. all \in Seq(S) /\ ToSet(all) = ToSet(new) \cup ToSet(seen) /\ Len(all) \in Nat
  BY <1>1, ToSetConcat
<1>3. /\ n \in 0 .. Len(all) /\ n <= Window /\ 1 \in 1 .. Len(all) + 1
      /\ n = IF Len(all) < Window THEN Len(all) ELSE Window
  BY <1>1, <1>2, LoopAssumption
<1>4. Remembered(seen, new) = SubSeq(all, 1, n)
  BY <1>1, Zenon DEF Remembered
<1> HIDE DEF n
<1>5. /\ SubSeq(all, 1, n) \in Seq(S) /\ ToSet(SubSeq(all, 1, n)) \subseteq ToSet(all)
      /\ Len(SubSeq(all, 1, n)) = IF 1 <= n THEN n - 1 + 1 ELSE 0
      /\ \A i \in 1 .. n - 1 + 1 : SubSeq(all, 1, n)[i] = all[1 + i - 1]
  BY <1>2, <1>3, ToSetCut
<1>6. n \in Nat /\ Len(SubSeq(all, 1, n)) = n
  BY <1>2, <1>3, <1>5
<1>7. \A i \in 1 .. n : SubSeq(all, 1, n)[i] = all[i]
  <2> SUFFICES ASSUME NEW i \in 1 .. n PROVE SubSeq(all, 1, n)[i] = all[i]
    OBVIOUS
  <2>1. i \in 1 .. n - 1 + 1 /\ 1 + i - 1 = i
    BY <1>6
  <2>2. QED
    BY <1>5, <2>1
<1>8. ASSUME n < Window PROVE SubSeq(all, 1, n) = all /\ Len(seen) < Window
  <2>1. Len(all) = Len(new) + Len(seen) /\ Len(new) \in Nat /\ Len(seen) \in Nat
    BY <1>1, ToSetConcat
  <2>2. n = Len(all) /\ Window \in Nat
    BY <1>2, <1>3, <1>8, LoopAssumption
  <2>3. SubSeq(all, 1, n) = all
    BY <1>2, <2>2
  <2>4. QED
    BY <1>8, <2>1, <2>2, <2>3
<1>9. QED
  BY <1>1, <1>2, <1>3, <1>4, <1>5, <1>6, <1>7, <1>8

LEMMA CutLength ==
  ASSUME NEW n \in Nat, NEW c \in Nat \ {0}, NEW m, m = IF n > c THEN n - c + 1 ELSE 1
  PROVE  /\ m \in 1 .. n + 1 /\ n \in 0 .. n
         /\ (IF m <= n THEN n - m + 1 ELSE 0) = IF n > c THEN c ELSE n
  OBVIOUS

\* Articles leave the list only when it is full.
LEMMA CappedIs ==
  ASSUME NEW S, NEW seen \in Seq(S), NEW new \in Seq(S)
  PROVE  /\ Capped(seen, new) \in Seq(S)
         /\ ToSet(Capped(seen, new)) \subseteq ToSet(seen) \cup ToSet(new)
         /\ Len(Capped(seen, new)) \in Nat /\ Len(Capped(seen, new)) <= SeenCap
         /\ Len(Capped(seen, new)) < SeenCap =>
              /\ ToSet(Capped(seen, new)) = ToSet(seen) \cup ToSet(new)
              /\ Len(seen) < SeenCap
<1>1. PICK all : all = seen \o new
  OBVIOUS
<1>2. /\ all \in Seq(S) /\ ToSet(all) = ToSet(seen) \cup ToSet(new) /\ Len(all) \in Nat
      /\ Len(all) = Len(seen) + Len(new) /\ Len(seen) \in Nat /\ Len(new) \in Nat
  BY <1>1, ToSetConcat
<1>3. PICK m : m = IF Len(all) > SeenCap THEN Len(all) - SeenCap + 1 ELSE 1
  OBVIOUS
<1>4. m \in 1 .. Len(all) + 1 /\ Len(all) \in 0 .. Len(all) /\ SeenCap \in Nat \ {0}
  BY <1>2, <1>3, LoopAssumption
<1>5. Capped(seen, new) = SubSeq(all, m, Len(all))
  BY <1>1, <1>3, Zenon DEF Capped
<1>6. PICK cut : cut = SubSeq(all, m, Len(all))
  OBVIOUS
<1>7. /\ cut \in Seq(S) /\ ToSet(cut) \subseteq ToSet(all)
      /\ Len(cut) = IF m <= Len(all) THEN Len(all) - m + 1 ELSE 0
  BY <1>2, <1>4, <1>6, ToSetCut
<1>8. Len(cut) = IF Len(all) > SeenCap THEN SeenCap ELSE Len(all)
  <2>1. (IF m <= Len(all) THEN Len(all) - m + 1 ELSE 0) = IF Len(all) > SeenCap THEN SeenCap ELSE Len(all)
    BY <1>2, <1>3, <1>4, CutLength
  <2>2. QED
    BY <1>7, <2>1
<1>9. ASSUME Len(cut) < SeenCap PROVE ToSet(cut) = ToSet(all) /\ Len(seen) < SeenCap
  <2>1. Len(all) < SeenCap /\ m = 1
    BY <1>2, <1>3, <1>4, <1>8, <1>9
  <2>2. cut = all
    BY <1>2, <1>6, <2>1
  <2>3. QED
    BY <1>2, <1>4, <2>1, <2>2
<1>10. QED
  BY <1>2, <1>4, <1>5, <1>6, <1>7, <1>8, <1>9

LEMMA WriteRows ==
  ASSUME TypeInv, NEW j \in Jobs, Write(j)
  PROVE  /\ RowsHold' /\ Len(rows'.poll) <= Window /\ Len(rows'.funded) <= SeenCap
         /\ rows' = [rows EXCEPT ![ListOf(j)] = Merged(j)] /\ Kind(j) \in Listers
         /\ covers' = [covers EXCEPT ![ListOf(j)] = Expected(j)] /\ ListOf(j) \in Lists
<1>1. /\ Placed(j) /\ Holds(j) /\ Kind(j) \in Kinds
  BY TypeFacts
<1>2. RowsHold /\ Len(rows.poll) <= Window /\ Len(rows.funded) <= SeenCap
  BY DEF TypeInv, StateTypes
<1>3. /\ pc[j] = "write" /\ load' = load /\ acted' = acted
      /\ rows' = [rows EXCEPT ![ListOf(j)] = Merged(j)]
      /\ covers' = [covers EXCEPT ![ListOf(j)] = Expected(j)]
  BY DEF Write, WriteList
<1>4. Kind(j) \in Listers
  BY <1>1, <1>3 DEF Placed
<1>5. PICK new : new = Merged(j)
  OBVIOUS
<1>6. CASE Kind(j) = "poll"
  <2>1. ListOf(j) = "poll" /\ new = Remembered(copy[j], kept[j])
    BY <1>5, <1>6, ListOfIs DEF Mailers, Merged
  <2>2. copy[j] \in Seq(Posts) /\ kept[j] \in Seq(Posts)
    BY <1>1, <1>6 DEF Holds, Mailers
  <2>3. new \in Seq(Posts) /\ Len(new) <= Window
    BY <2>1, <2>2, RememberedIs
  <2>4. QED
    BY <1>2, <1>3, <1>4, <1>5, <2>1, <2>3 DEF RowsHold, Lists, Posts, Correspondents, Articles
<1>7. CASE Kind(j) = "funded"
  <2>1. ListOf(j) = "funded" /\ new = Capped(copy[j], kept[j])
    BY <1>5, <1>7, ListOfIs DEF Merged
  <2>2. copy[j] \in Seq(Articles) /\ kept[j] \in Seq(Articles)
    BY <1>1, <1>7 DEF Holds
  <2>3. new \in Seq(Articles) /\ Len(new) <= SeenCap
    BY <2>1, <2>2, CappedIs
  <2>4. QED
    BY <1>2, <1>3, <1>4, <1>5, <2>1, <2>3 DEF RowsHold, Lists, Posts, Correspondents, Articles
<1>8. CASE Kind(j) = "health"
  <2>1. ListOf(j) = "health" /\ new = copy[j] \o kept[j]
    BY <1>5, <1>8, ListOfIs DEF Merged
  <2>2. copy[j] \in Seq(Interventions) /\ kept[j] \in Seq(Interventions)
    BY <1>1, <1>8 DEF Holds
  <2>3. new \in Seq(Interventions)
    BY <2>1, <2>2
  <2>4. QED
    BY <1>2, <1>3, <1>4, <1>5, <2>1, <2>3 DEF RowsHold, Lists, Posts, Correspondents, Articles
<1>9. CASE Kind(j) \in {"outbound", "scan"}
  <2>1. ListOf(j) = "followup" /\ (new = copy[j] \o kept[j] \/ new = kept[j])
    BY <1>5, <1>9, ListOfIs DEF Merged, Followers
  <2>2. copy[j] \in Seq(Correspondents) /\ kept[j] \in Seq(Correspondents)
    BY <1>1, <1>9 DEF Holds, Followers
  <2>3. new \in Seq(Correspondents)
    BY <2>1, <2>2, ToSetConcat
  <2>4. QED
    BY <1>2, <1>3, <1>4, <1>5, <2>1, <2>3 DEF RowsHold, Lists, Posts, Correspondents, Articles
<1>10. QED
  BY <1>4, <1>6, <1>7, <1>8, <1>9 DEF Listers

LEMMA BagFacts ==
  ASSUME NEW B, NEW x
  PROVE  /\ BagToSet(B (+) SetToBag({x})) \subseteq BagToSet(B) \cup {x}
         /\ BagToSet(B (-) SetToBag({x})) \subseteq BagToSet(B)
  BY DEF BagToSet, SetToBag, (+), (-)

LEMMA NoHigherIs ==
  /\ NoHigher("critical") = {"critical", "warn", "info"}
  /\ NoHigher("warn") = {"warn", "info"} /\ NoHigher("info") = {"info"}
  BY DEF NoHigher

Ranks == {"critical", "warn", "info"}

LEMMA EmitTyped ==
  ASSUME NEW key, NEW severity \in Ranks, Emit(key, severity),
         \A a \in alerts : a.severity \in Ranks
  PROVE  \A a \in alerts' : a.severity \in Ranks
  BY NoHigherIs DEF Emit, Ranks

LEMMA SeverityIs ==
  ASSUME NEW v \in Verdicts, NEW aged
  PROVE  /\ Severity(v, aged) \in Ranks
         /\ Severity(v, aged) = "critical" => v.rank = "urgent" /\ v.client /\ aged
<1>1. v.rank \in {"urgent", "reply", "other"}
  BY DEF Verdicts
<1>2. CASE v.rank = "urgent" /\ v.client /\ aged
  BY <1>1, <1>2 DEF Severity, Ranks
<1>3. CASE v.rank = "other"
  BY <1>1, <1>3 DEF Severity, Ranks
<1>4. CASE v.rank \in {"urgent", "reply"} /\ ~(v.rank = "urgent" /\ v.client /\ aged)
  BY <1>1, <1>4 DEF Severity, Ranks
<1>5. QED
  BY <1>1, <1>2, <1>3, <1>4

LEMMA StepAlerts ==
  ASSUME TypeInv, NEW j \in Jobs, Step(j)
  PROVE  \A a \in alerts' : a.severity \in Ranks
<1>1. \A a \in alerts : a.severity \in Ranks
  BY DEF TypeInv, StateTypes, Ranks
<1>2. CASE Triage(j)
  <2>1. verdict[j] \in Verdicts
    BY <1>2, TypeFacts DEF Triage, Holds
  <2>2. PICK s \in Ranks : Emit(MailKey(mail[j]), s)
    BY <1>2, <2>1, SeverityIs DEF Triage
  <2>3. QED
    BY <1>1, <2>2, EmitTyped
<1>3. CASE Chase(j)
  BY <1>1, <1>3, EmitTyped DEF Chase, Ranks
<1>4. CASE Intervene(j)
  BY <1>1, <1>4, EmitTyped DEF Intervene, Ranks
<1>5. CASE Status(j)
  BY <1>1, <1>5, EmitTyped DEF Status, Ranks
<1>6. CASE Offer(j)
  BY <1>1, <1>6, EmitTyped DEF Offer, Ranks
<1>7. CASE Digest(j)
  BY <1>1, <1>7, EmitTyped DEF Digest, Ranks
<1>8. QED
  BY <1>1, <1>2, <1>3, <1>4, <1>5, <1>6, <1>7, StepFrame

\* What is dispatched is a mail that arrived.
LEMMA ListedArrived ==
  ASSUME TypeInv
  PROVE  ToSet(Latest) \subseteq ToSet(mailbox)
<1>1. DOMAIN Found = 1 .. Len(Found) /\ ToSet(Found) \subseteq ToSet(mailbox)
  BY FoundType
<1>2. DOMAIN Latest = 1 .. Len(Latest)
  BY LatestType
<1>3. ToSet(Latest) \subseteq ToSet(Found)
  <2>1. ASSUME NEW x \in ToSet(Latest) PROVE x \in ToSet(Found)
    <3>1. PICK i \in 1 .. Len(Latest) : Latest[i] = x
      BY LatestType, ToSetType
    <3>2. x = Found[Len(Found) + 1 - i] /\ Len(Found) + 1 - i \in 1 .. Len(Found)
      BY <3>1, LatestType
    <3>3. QED
      BY <3>2, FoundType, ToSetType
  <2>2. QED
    BY <2>1
<1>4. QED
  BY <1>1, <1>3

LEMMA StepBounded ==
  ASSUME TypeInv, NEW j \in Jobs, Step(j)
  PROVE  Bounded(j)'
<1>1. /\ Placed(j) /\ Holds(j) /\ DOMAIN pc = Jobs /\ LocalTypes /\ Bounded(j)
  BY TypeFacts DEF TypeInv
<1>2. load' = load /\ mailbox' = mailbox /\ Kind(j)' = Kind(j)
  BY StepAlone DEF Alone, Kind
<1>3. mailbox \in Seq(Posts)
  BY DEF TypeInv, Arrived
<1>4. CASE Kind(j) \notin Mailers
  BY <1>2, <1>4 DEF Bounded
<1>5. CASE Kind(j) \in Mailers
  <2>1. CASE Read(j)
    <3>1. Kind(j) = "poll"
      BY <1>1, <1>5, <2>1 DEF Read, Placed, Mailers, Listers
    <3>2. todo'[j] = <<>>
      BY <1>1, <2>1, <3>1, AgendaIs DEF Read, LocalTypes
    <3>3. QED
      BY <3>2, ToSetEmpty DEF Bounded
  <2>2. CASE List(j)
    <3>1. PICK T : todo'[j] = Sift(Latest, T)
      BY <1>1, <2>2 DEF List, News, LocalTypes
    <3>2. ToSet(todo'[j]) \subseteq ToSet(Latest)
      BY <3>1, LatestType, SiftSet
    <3>3. QED
      BY <1>2, <3>2, ListedArrived DEF Bounded
  <2>3. CASE History(j)
    <3>1. PICK T : todo'[j] = Sift(mailbox, T)
      BY <1>1, <2>3 DEF History, LocalTypes
    <3>2. ToSet(todo'[j]) \subseteq ToSet(mailbox)
      BY <1>3, <3>1, SiftSet
    <3>3. QED
      BY <1>2, <3>2 DEF Bounded
  <2>4. CASE Enqueue(j)
    <3>1. todo'[j] = Tail(todo[j]) /\ todo[j] # <<>> /\ todo[j] \in Seq(Posts)
      BY <1>1, <1>5, <2>4 DEF Enqueue, LocalTypes, Holds
    <3>2. ToSet(todo'[j]) \subseteq ToSet(todo[j])
      BY <3>1, ToSetHead
    <3>3. QED
      BY <1>1, <1>2, <1>5, <3>2 DEF Bounded
  <2>5. CASE Write(j)
    BY <1>1, <1>2, <1>5, <2>5 DEF Write, Bounded, local
  <2>6. pc[j] \in {"read", "list", "history", "enqueue", "write"}
    <3>1. Step(j) => pc[j] \notin Ended \cup {"idle"}
      BY DEF Step, Read, Write, Mailing, List, History, Enqueue, Triaging, Cached, Classify,
             Keep, Triage, Following, AppendThread, Check, Chase, Guarding, Journal, Streaks,
             Intervene, Status, Watching, Article, Offer, Handling, Gather, Digest, Ended
    <3>2. Kind(j) \notin {"triage", "outbound", "scan", "health", "funded"} \cup Handlers
      BY <1>5, KindsApart DEF Mailers
    <3>3. QED
      BY <1>1, <3>1, <3>2 DEF Placed, Steps, Ended
  <2>7. QED
    BY <2>1, <2>2, <2>3, <2>4, <2>5, <2>6
       DEF Step, Read, Write, Mailing, List, History, Enqueue, Triaging, Cached, Classify,
           Keep, Triage, Following, AppendThread, Check, Chase, Guarding, Journal, Streaks,
           Intervene, Status, Watching, Article, Offer, Handling, Gather, Digest
<1>6. QED
  BY <1>4, <1>5

\* A step of a job keeps the types.
LEMMA StepTypes ==
  ASSUME TypeInv, NEW j \in Jobs, Step(j)
  PROVE  TypeInv'
<1>1. Alone(j) /\ UNCHANGED <<mailbox, gone, old, replied, today, trouble>> /\ Placed(j)' /\ Holds(j)'
  BY StepAlone, StepTyped
<1>2. StateTypes /\ RowsHold /\ Arrived /\ LocalTypes
  BY DEF TypeInv
<1>3. ASSUME NEW i \in Jobs \ {j} PROVE Placed(i)' /\ Holds(i)' /\ Bounded(i)'
  <2>1. Still(i) /\ load' = load /\ mailbox' = mailbox
    BY <1>1 DEF Alone
  <2>2. Placed(i) /\ Holds(i) /\ Bounded(i)
    BY DEF TypeInv
  <2>3. QED
    BY <2>1, <2>2 DEF Still, Placed, Holds, Bounded, Kind, Posts, Correspondents, Articles
<1>4. Arrived' /\ LocalTypes'
  BY <1>1, <1>2 DEF Alone, Shaped, LocalTypes, Arrived, Posts
<1>5. RowsHold' /\ Len(rows'.poll) <= Window /\ Len(rows'.funded) <= SeenCap
  <2>1. CASE Write(j)
    BY <2>1, WriteRows
  <2>2. CASE UNCHANGED <<rows, covers>>
    <3>1. DOMAIN acted' = DOMAIN acted
      <4>1. CASE Enqueue(j) \/ AppendThread(j) \/ Intervene(j) \/ Article(j)
        BY <4>1 DEF Enqueue, AppendThread, Intervene, Article, Acts
      <4>2. CASE UNCHANGED acted
        BY <4>2
      <4>3. QED
        BY <4>1, <4>2, StepFrame
    <3>2. QED
      BY <1>1, <1>2, <2>2, <3>1
         DEF RowsHold, StateTypes, Alone, Posts, Correspondents, Articles
  <2>3. QED
    BY <2>1, <2>2, StepFrame
<1>6. \A a \in alerts' : a.severity \in Ranks
  BY StepAlerts
<1>7. BagToSet(waiting') \subseteq ToSet(mailbox')
  <2>1. CASE Enqueue(j)
    <3>1. waiting' = waiting (+) SetToBag({Head(todo[j])})
      BY <2>1 DEF Enqueue
    <3>2. Kind(j) \in Mailers /\ todo[j] \in Seq(Posts) /\ todo[j] # <<>> /\ Bounded(j)
      BY <2>1, TypeFacts DEF Enqueue, Placed, Holds, TypeInv
    <3>3. Head(todo[j]) \in ToSet(mailbox)
      BY <3>2, ToSetHead DEF Bounded
    <3>4. BagToSet(waiting') \subseteq BagToSet(waiting) \cup {Head(todo[j])}
      BY <3>1, BagFacts
    <3>5. QED
      BY <1>1, <1>2, <3>3, <3>4 DEF StateTypes
  <2>2. CASE UNCHANGED waiting
    BY <1>1, <1>2, <2>2 DEF StateTypes
  <2>3. QED
    BY <2>1, <2>2, StepFrame
<1>8. /\ verdict' \in [Jobs -> Verdicts \cup {NoVerdict}]
      /\ cache' \in [Posts -> Verdicts \cup {NoVerdict}]
  <2>1. CASE Triaging(j)
    <3>1. verdict'[j] \in Verdicts \cup {NoVerdict} /\ cache' \in [Posts -> Verdicts \cup {NoVerdict}]
      BY <2>1, TriagingTyped
    <3>2. verdict' = [verdict EXCEPT ![j] = verdict'[j]]
      BY <1>2, <2>1 DEF Triaging, Cached, Classify, Keep, Triage, local, StateTypes
    <3>3. QED
      BY <1>2, <3>1, <3>2 DEF StateTypes
  <2>2. CASE ~ Triaging(j)
    <3>1. verdict' = verdict
      BY <2>2 DEF Step, Read, Write, Mailing, List, History, Enqueue, Following, AppendThread,
             Check, Chase, Guarding, Journal, Streaks, Intervene, Status, Watching, Article,
             Offer, Handling, Gather, Digest, local
    <3>2. cache' = cache
      BY <2>2, StepFrame DEF Triaging
    <3>3. QED
      BY <1>2, <3>1, <3>2 DEF StateTypes, Posts
  <2>3. QED
    BY <2>1, <2>2
<1>9. mail' = mail /\ \E v \in Steps : pc' = [pc EXCEPT ![j] = v]
  <2>1. mail' = mail
    BY DEF Step, Read, Write, Mailing, List, History, Enqueue, Triaging, Cached, Classify,
           Keep, Triage, Following, AppendThread, Check, Chase, Guarding, Journal, Streaks,
           Intervene, Status, Watching, Article, Offer, Handling, Gather, Digest, local
  <2>2. pc'[j] \in Steps
    BY <1>1 DEF Placed
  <2>3. \E v : pc' = [pc EXCEPT ![j] = v]
    BY DEF Step, Read, Write, Mailing, List, History, Enqueue, Triaging, Cached, Classify,
           Keep, Triage, Following, AppendThread, Check, Chase, Guarding, Journal, Streaks,
           Intervene, Status, Watching, Article, Offer, Handling, Gather, Digest, Go, Onward,
           NextArticle, Compose, DailyBriefing, PortfolioWatcher, ExpenseAuditor, TaxHelper,
           RelationshipMaintenance, TravelPlanner
  <2>4. QED
    BY <1>2, <2>1, <2>2, <2>3 DEF StateTypes
<1>10. StateTypes'
  BY <1>1, <1>2, <1>5, <1>6, <1>7, <1>8, <1>9 DEF StateTypes, Alone, Kind, Ranks, Posts
<1>11. QED
  BY <1>1, <1>3, <1>4, <1>5, <1>10, StepBounded DEF TypeInv

LEMMA InitTypes ==
  ASSUME Init
  PROVE  TypeInv
<1>1. load \in Loads
  BY DEF Init
<1>2. /\ load.kind \in [Jobs -> Kinds] /\ load.queue \in Seq(ToSet(load.queue))
      /\ load.history \in Seq(Interventions)
  BY <1>1, LoadFacts
<1>3. \A S : <<>> \in Seq(S)
  BY ToSetEmpty
<1>4. Len(<<>>) = 0 /\ ToSet(<<>>) = {}
  BY ToSetEmpty
<1>5. rows = [poll |-> <<>>, followup |-> load.queue, health |-> load.history, funded |-> <<>>]
  BY DEF Init
<1>6. DOMAIN rows = Lists
  BY <1>5 DEF Lists
<1>7. rows.poll = <<>> /\ rows.followup = load.queue /\ rows.health = load.history /\ rows.funded = <<>>
  BY <1>5
<1>8. load.queue \in Seq(Correspondents)
  <2>1. ToSet(load.queue) \subseteq Correspondents
    BY DEF Correspondents
  <2>2. QED
    BY <1>2, <2>1
<1>9. RowsHold
  BY <1>2, <1>3, <1>6, <1>7, <1>8 DEF RowsHold, Init
<1>10. StateTypes
  <2>1. BagToSet(waiting) \subseteq ToSet(mailbox)
    BY DEF Init, BagToSet, EmptyBag, SetToBag
  <2>2. Len(rows.poll) <= Window /\ Len(rows.funded) <= SeenCap /\ 0 \in 0 .. MaxTrouble
    BY <1>4, <1>7, LoopAssumption
  <2>3. \A j \in Jobs : Kind(j) \in Kinds
    BY <1>2 DEF Kind
  <2>4. pc \in [Jobs -> Steps] /\ mail \in [Jobs -> AllMails \cup {NoMail}]
    BY DEF Init, Steps
  <2>5. /\ verdict \in [Jobs -> Verdicts \cup {NoVerdict}]
        /\ cache \in [ToSet(load.mails) -> Verdicts \cup {NoVerdict}]
    BY DEF Init
  <2>6. alerts = {} /\ trouble = 0 /\ today \in 0 .. MaxDay
    BY <1>1, LoadAssumption DEF Init
  <2>7. QED
    BY <1>1, <2>1, <2>2, <2>3, <2>4, <2>5, <2>6 DEF StateTypes
<1>11. Arrived
  <2>1. mailbox = <<>>
    BY DEF Init
  <2>2. load.mails \in Seq(Posts) /\ mailbox \in Seq(Posts)
    BY <1>1, <1>3, <2>1, LoadFacts
  <2>3. Len(load.mails) \in Nat
    BY <2>2
  <2>4. QED
    BY <1>4, <2>1, <2>2, <2>3 DEF Arrived
<1>12. LocalTypes
  BY DEF Init, LocalTypes
<1>13. ASSUME NEW j \in Jobs PROVE Placed(j) /\ Holds(j) /\ Bounded(j)
  <2>1. pc[j] = "idle" /\ copy[j] = <<>> /\ todo[j] = <<>> /\ kept[j] = <<>>
    BY DEF Init
  <2>2. QED
    BY <1>3, <1>4, <2>1 DEF Placed, Holds, Bounded, Steps
<1>14. QED
  BY <1>9, <1>10, <1>11, <1>12, <1>13 DEF TypeInv

\* A job starts, or starts again, at its opening.
LEMMA OpeningPlaced ==
  ASSUME NEW j, Kind(j) \in Kinds \ {"absent"}
  PROVE  /\ Opening(j) \in {"history", "cached", "journal", "gather", "read"}
         /\ Opening(j) = "history" => Kind(j) = "gmail"
         /\ Opening(j) = "cached" => Kind(j) = "triage"
         /\ Opening(j) = "journal" => Kind(j) = "health"
         /\ Opening(j) = "gather" => Kind(j) \in Handlers
         /\ Opening(j) = "read" => Kind(j) \in Listers
<1>1. Kind(j) \in {"gmail", "triage", "health"} \cup Handlers \cup {"poll", "outbound", "scan", "funded"}
  BY DEF Kinds
<1>2. QED
  BY <1>1, OpeningIs, KindsApart DEF Listers, Mailers, Followers

LEMMA FireTypes ==
  ASSUME TypeInv, NEW j \in Jobs, Fire(j)
  PROVE  TypeInv'
<1>1. /\ Alone(j)
      /\ UNCHANGED <<load, rows, covers, acted, cache, mailbox, gone, old, replied, today, alerts, trouble>>
  BY FireAlone
<1>2. StateTypes /\ RowsHold /\ Arrived /\ LocalTypes
  BY DEF TypeInv
<1>3. Open(j)
  BY DEF Fire, Webhook, FileChange, Cron, Dispatch
<1>4. Kind(j) \in Kinds \ {"absent"}
  <2>1. Kind(j) # "absent"
    BY KindsApart DEF Fire, Webhook, FileChange, Cron, Dispatch
  <2>2. QED
    BY <1>2, <2>1 DEF StateTypes
<1>5. /\ pc' = [pc EXCEPT ![j] = Opening(j)] /\ Opening(j) \in Steps
      /\ verdict' = verdict /\ copy' = copy /\ todo' = todo /\ kept' = kept
  BY <1>3, <1>4, OpeningPlaced DEF Open, Go, Steps
<1>6. \/ UNCHANGED <<mail, waiting>> /\ Kind(j) # "triage"
      \/ \E m \in BagToSet(waiting) :
           waiting' = waiting (-) SetToBag({m}) /\ mail' = [mail EXCEPT ![j] = m]
  BY KindsApart DEF Fire, Webhook, FileChange, Cron, Dispatch
<1>7. ToSet(mailbox) \subseteq Posts /\ Posts \subseteq AllMails
  <2>1. mailbox \in Seq(Posts)
    BY <1>2 DEF Arrived
  <2>2. QED
    BY <1>2, <2>1, LoadFacts, ToSetType DEF StateTypes
<1>8. /\ BagToSet(waiting') \subseteq ToSet(mailbox)
      /\ mail' \in [Jobs -> AllMails \cup {NoMail}]
      /\ Kind(j) = "triage" => mail'[j] \in Posts
  <2>1. CASE UNCHANGED <<mail, waiting>> /\ Kind(j) # "triage"
    BY <1>2, <2>1 DEF StateTypes
  <2>2. ASSUME NEW m \in BagToSet(waiting), waiting' = waiting (-) SetToBag({m}),
               mail' = [mail EXCEPT ![j] = m]
        PROVE  /\ BagToSet(waiting') \subseteq ToSet(mailbox)
               /\ mail' \in [Jobs -> AllMails \cup {NoMail}]
               /\ mail'[j] \in Posts
    <3>1. BagToSet(waiting) \subseteq ToSet(mailbox) /\ mail \in [Jobs -> AllMails \cup {NoMail}]
      BY <1>2 DEF StateTypes
    <3>2. BagToSet(waiting') \subseteq BagToSet(waiting)
      BY <2>2, BagFacts
    <3>3. m \in Posts /\ m \in AllMails
      BY <1>7, <3>1
    <3>4. QED
      BY <2>2, <3>1, <3>2, <3>3
  <2>3. QED
    BY <1>6, <2>1, <2>2
<1>9. Placed(j)' /\ Holds(j)' /\ Bounded(j)'
  <2>1. Placed(j) /\ Holds(j) /\ Bounded(j) /\ DOMAIN pc = Jobs
    BY TypeFacts DEF TypeInv
  <2>2. pc'[j] = Opening(j) /\ Kind(j)' = Kind(j)
    BY <1>1, <1>5, <2>1 DEF Kind
  <2>3. Placed(j)'
    BY <1>4, <1>5, <2>2, OpeningPlaced DEF Placed, Steps, Ended
  <2>4. Bounded(j)'
    BY <1>1, <1>5, <2>1, <2>2 DEF Bounded
  <2>5. Holds(j)'
    BY <1>1, <1>4, <1>5, <1>8, <2>1, <2>2, OpeningPlaced
       DEF Holds, Posts, Correspondents, Articles
  <2>6. QED
    BY <2>3, <2>4, <2>5
<1>10. ASSUME NEW i \in Jobs \ {j} PROVE Placed(i)' /\ Holds(i)' /\ Bounded(i)'
  <2>1. Still(i) /\ load' = load /\ mailbox' = mailbox
    BY <1>1 DEF Alone
  <2>2. Placed(i) /\ Holds(i) /\ Bounded(i)
    BY DEF TypeInv
  <2>3. QED
    BY <2>1, <2>2 DEF Still, Placed, Holds, Bounded, Kind, Posts, Correspondents, Articles
<1>11. RowsHold' /\ Arrived' /\ LocalTypes'
  BY <1>1, <1>2
     DEF RowsHold, Arrived, LocalTypes, Alone, Shaped, Posts, Correspondents, Articles
<1>12. StateTypes'
  BY <1>1, <1>2, <1>5, <1>8 DEF StateTypes, Kind
<1>13. QED
  BY <1>9, <1>10, <1>11, <1>12 DEF TypeInv

\* Errors, restarts, lapsed rows, and the world outside.
Elsewhere ==
  \/ \E j \in Jobs : Break(j)
  \/ Restart \/ Arrive
  \/ \E l \in Lists : Lapse(l)
  \/ \E x \in Aging : Age(x)
  \/ \E t \in Threads : Reply(t)
  \/ \E m \in ToSet(mailbox) : Vanish(m)
  \/ Midnight

LEMMA NextIs ==
  ASSUME Next
  PROVE  Elsewhere \/ \E j \in Jobs : Fire(j) \/ Step(j)
  BY DEF Next, Elsewhere

LEMMA TroubleTyped ==
  ASSUME TypeInv, Trouble
  PROVE  trouble' \in 0 .. MaxTrouble
  BY LoopAssumption DEF Trouble, TypeInv, StateTypes

\* A restart puts the running jobs back to their opening.
LEMMA RestartMoves ==
  ASSUME TypeInv, Restart
  PROVE  /\ UNCHANGED <<load, mail, verdict, copy, todo, kept, based, state, waiting, mailbox,
                        gone, old, replied, today, alerts>>
         /\ DOMAIN pc' = Jobs /\ DOMAIN did' = Jobs
         /\ \A j \in Jobs :
              \/ pc'[j] = pc[j] /\ did'[j] = did[j] /\ ~ Running(j)
              \/ /\ Running(j) /\ pc'[j] = Opening(j) /\ did'[j] = {}
                 /\ Kind(j) \in Kinds \ {"absent"}
<1>1. \A j \in Jobs : Running(j) => Kind(j) \in Kinds \ {"absent"}
  <2> SUFFICES ASSUME NEW j \in Jobs, Running(j) PROVE Kind(j) \in Kinds \ {"absent"}
    OBVIOUS
  <2>1. Placed(j) /\ Kind(j) \in Kinds
    BY TypeFacts
  <2>2. Kind(j) # "absent"
    BY <2>1, KindsApart DEF Running, Placed, Steps, Ended, Listers, Mailers
  <2>3. QED
    BY <2>1, <2>2
<1>2. QED
  BY <1>1 DEF Restart

LEMMA ElsewhereTypes ==
  ASSUME TypeInv, Elsewhere
  PROVE  TypeInv'
<1>1. StateTypes /\ RowsHold /\ Arrived /\ LocalTypes
  BY DEF TypeInv
<1>2. \A j \in Jobs : Placed(j) /\ Holds(j) /\ Bounded(j)
  BY DEF TypeInv
<1> USE DEF Posts, Correspondents, Articles, Kind
<1>3. ASSUME NEW j \in Jobs, Break(j) PROVE TypeInv'
  <2>1. /\ load' = load /\ UNCHANGED local /\ UNCHANGED state
        /\ UNCHANGED <<waiting, mailbox, gone, old, replied, today, alerts>>
        /\ pc' = [pc EXCEPT ![j] = "failed"] /\ trouble' \in 0 .. MaxTrouble
    BY <1>3, TroubleTyped DEF Break, Go
  <2>2. StateTypes' /\ RowsHold' /\ Arrived' /\ LocalTypes'
    BY <1>1, <2>1 DEF StateTypes, RowsHold, Arrived, LocalTypes, local, state, Steps, Ended
  <2>3. ASSUME NEW i \in Jobs PROVE Placed(i)' /\ Holds(i)' /\ Bounded(i)'
    <3>1. pc'[i] = pc[i] \/ (pc'[i] = "failed" /\ i = j)
      BY <1>1, <2>1 DEF StateTypes
    <3>2. Placed(i) /\ Holds(i) /\ Bounded(i)
      BY <1>2
    <3>3. Running(j)
      BY <1>3 DEF Break
    <3>4. QED
      BY <2>1, <3>1, <3>2, <3>3 DEF Placed, Holds, Bounded, local, Steps, Ended, Running
  <2>4. QED
    BY <2>2, <2>3 DEF TypeInv
<1>4. CASE Restart
  <2>1. /\ load' = load /\ UNCHANGED <<mail, verdict, copy, todo, kept, based>> /\ UNCHANGED state
        /\ UNCHANGED <<waiting, mailbox, gone, old, replied, today, alerts>>
        /\ DOMAIN pc' = Jobs /\ DOMAIN did' = Jobs /\ trouble' \in 0 .. MaxTrouble
    BY <1>4, RestartMoves, TroubleTyped DEF Restart
  <2>2. ASSUME NEW i \in Jobs PROVE Placed(i)' /\ Holds(i)' /\ Bounded(i)' /\ pc'[i] \in Steps
    <3>1. \/ pc'[i] = pc[i]
          \/ pc'[i] = Opening(i) /\ Kind(i) \in Kinds \ {"absent"} /\ pc[i] # "idle"
      BY <1>4, RestartMoves DEF Running
    <3>2. Placed(i) /\ Holds(i) /\ Bounded(i)
      BY <1>2
    <3>3. CASE pc'[i] = pc[i]
      BY <2>1, <3>2, <3>3 DEF Placed, Holds, Bounded
    <3>4. CASE pc'[i] = Opening(i) /\ Kind(i) \in Kinds \ {"absent"} /\ pc[i] # "idle"
      <4>1. Placed(i)'
        BY <2>1, <3>4, OpeningPlaced DEF Placed, Steps, Ended
      <4>2. Holds(i)' /\ Bounded(i)'
        BY <2>1, <3>2, <3>4, OpeningPlaced DEF Holds, Bounded
      <4>3. QED
        BY <4>1, <4>2 DEF Placed
    <3>5. QED
      BY <3>1, <3>3, <3>4
  <2>3. pc' \in [Jobs -> Steps]
    <3>1. pc' = [i \in Jobs |-> pc'[i]]
      BY <1>4 DEF Restart
    <3>2. QED
      BY <2>2, <3>1
  <2>4. StateTypes' /\ RowsHold' /\ Arrived' /\ LocalTypes'
    BY <1>1, <2>1, <2>3 DEF StateTypes, RowsHold, Arrived, LocalTypes, state
  <2>5. QED
    BY <2>2, <2>4 DEF TypeInv
<1>5. CASE Arrive
  <2>1. /\ load' = load /\ UNCHANGED local /\ UNCHANGED state /\ pc' = pc
        /\ UNCHANGED <<waiting, gone, old, replied, today, alerts, trouble>>
        /\ Len(mailbox) < Len(load.mails)
        /\ mailbox' = Append(mailbox, load.mails[Len(mailbox) + 1])
    BY <1>5 DEF Arrive
  <2>2. /\ mailbox \in Seq(Posts) /\ load.mails \in Seq(Posts)
        /\ Len(mailbox) \in Nat /\ Len(load.mails) \in Nat
    BY <1>1, LoadFacts DEF Arrived, StateTypes
  <2>3. load.mails[Len(mailbox) + 1] \in Posts
    <3>1. Len(mailbox) + 1 \in 1 .. Len(load.mails)
      BY <2>1, <2>2
    <3>2. QED
      BY <2>2, <3>1
  <2>4. ToSet(mailbox) \subseteq ToSet(mailbox') /\ mailbox' \in Seq(Posts)
    BY <2>1, <2>2, <2>3, ToSetAppend
  <2>5. Arrived'
    <3>1. Len(mailbox') = Len(mailbox) + 1 /\ Len(mailbox') <= Len(load.mails)
      BY <2>1, <2>2
    <3>2. ASSUME NEW i \in 1 .. Len(mailbox') PROVE mailbox'[i] = load.mails[i]
      <4>1. i \in 1 .. Len(mailbox) \/ i = Len(mailbox) + 1
        BY <2>2, <3>1
      <4>2. QED
        BY <1>1, <2>1, <2>2, <4>1 DEF Arrived
    <3>3. QED
      BY <2>1, <2>4, <3>1, <3>2 DEF Arrived
  <2>6. StateTypes' /\ RowsHold' /\ LocalTypes'
    BY <1>1, <2>1, <2>4 DEF StateTypes, RowsHold, LocalTypes, local, state
  <2>7. ASSUME NEW i \in Jobs PROVE Placed(i)' /\ Holds(i)' /\ Bounded(i)'
    BY <1>2, <2>1, <2>4 DEF Placed, Holds, Bounded, local
  <2>8. QED
    BY <2>5, <2>6, <2>7 DEF TypeInv
<1>6. ASSUME NEW l \in Lists, Lapse(l) PROVE TypeInv'
  <2>1. /\ load' = load /\ UNCHANGED local /\ pc' = pc /\ acted' = acted /\ cache' = cache
        /\ UNCHANGED <<waiting, mailbox, gone, old, replied, today, alerts>>
        /\ l \in {"poll", "funded"} /\ rows' = [rows EXCEPT ![l] = <<>>]
        /\ covers' = [covers EXCEPT ![l] = {}] /\ trouble' \in 0 .. MaxTrouble
    BY <1>6, TroubleTyped DEF Lapse
  <2>2. RowsHold' /\ Len(rows'.poll) <= Window /\ Len(rows'.funded) <= SeenCap
    <3>1. Len(<<>>) = 0 /\ 0 <= Window /\ 0 <= SeenCap /\ \A S : <<>> \in Seq(S)
      BY LoopAssumption
    <3>2. QED
      BY <1>1, <2>1, <3>1 DEF RowsHold, Lists, StateTypes
  <2>3. StateTypes' /\ Arrived' /\ LocalTypes'
    BY <1>1, <2>1, <2>2 DEF StateTypes, Arrived, LocalTypes, local
  <2>4. ASSUME NEW i \in Jobs PROVE Placed(i)' /\ Holds(i)' /\ Bounded(i)'
    BY <1>2, <2>1 DEF Placed, Holds, Bounded, local
  <2>5. QED
    BY <2>2, <2>3, <2>4 DEF TypeInv
<1>7. CASE \/ (\E x \in Aging : Age(x)) \/ (\E t \in Threads : Reply(t))
          \/ (\E m \in ToSet(mailbox) : Vanish(m)) \/ Midnight
  <2>1. /\ load' = load /\ UNCHANGED local /\ UNCHANGED state /\ pc' = pc
        /\ UNCHANGED <<waiting, mailbox, alerts, trouble>> /\ today' \in 0 .. MaxDay
    BY LoopAssumption, <1>1, <1>7 DEF Age, Reply, Vanish, Midnight, StateTypes
  <2>2. StateTypes' /\ RowsHold' /\ Arrived' /\ LocalTypes'
    BY <1>1, <2>1 DEF StateTypes, RowsHold, Arrived, LocalTypes, local, state
  <2>3. ASSUME NEW i \in Jobs PROVE Placed(i)' /\ Holds(i)' /\ Bounded(i)'
    BY <1>2, <2>1 DEF Placed, Holds, Bounded, local
  <2>4. QED
    BY <2>2, <2>3 DEF TypeInv
<1>8. QED
  BY <1>3, <1>4, <1>5, <1>6, <1>7 DEF Elsewhere

LEMMA TypeKept ==
  ASSUME TypeInv, [Next]_vars
  PROVE  TypeInv'
<1>1. CASE Next
  BY <1>1, NextIs, FireTypes, StepTypes, ElsewhereTypes
<1>2. CASE UNCHANGED vars
  <2>1. StateTypes' /\ RowsHold' /\ Arrived' /\ LocalTypes'
    BY <1>2 DEF vars, local, state, world, TypeInv, StateTypes, RowsHold, Arrived, LocalTypes,
                Kind, Posts, Correspondents, Articles
  <2>2. ASSUME NEW i \in Jobs PROVE Placed(i)' /\ Holds(i)' /\ Bounded(i)'
    BY <1>2 DEF vars, local, state, world, TypeInv, Placed, Holds, Bounded, Kind, Posts,
                Correspondents, Articles
  <2>3. QED
    BY <2>1, <2>2 DEF TypeInv
<1>3. QED
  BY <1>1, <1>2

LEMMA TypesHold == Spec => []TypeInv
<1>1. Init => TypeInv
  BY InitTypes
<1>2. TypeInv /\ [Next]_vars => TypeInv'
  BY TypeKept
<1>3. QED
  BY <1>1, <1>2, PTL DEF Spec

\* Every variable keeps its type, whatever fails, restarts or lapses, and no
\* list of the poll or of the funded watcher outgrows its bound.
THEOREM TypeCorrect == Spec => []TypeOK
<1>1. TypeInv => TypeOK
  BY DEF TypeInv, TypeOK, RowsHold, RowTypes, Arrived, Holds, ListTypes, Mailers, Followers
<1>2. QED
  BY <1>1, TypesHold, PTL

----
\* What is recorded was acted on

\* What was acted on stays so, and a job adds to it only the item it acts on.
LEMMA StepActs ==
  ASSUME TypeInv, NEW j \in Jobs, Step(j)
  PROVE  /\ \A l \in Lists : acted[l] \subseteq acted'[l]
         /\ DOMAIN acted' = Lists
         /\ \A x : Acts(j, x) /\ Kind(j) \in Listers \cup Mailers =>
              x \in acted'[ListOf(j)]
<1>1. DOMAIN acted = Lists
  BY DEF TypeInv, RowsHold
<1>2. \/ \E x : Acts(j, x)
      \/ acted' = acted
  BY StepFrame DEF Enqueue, AppendThread, Intervene, Article
<1>3. \A x : Acts(j, x) => acted' = [acted EXCEPT ![ListOf(j)] = @ \cup {x}]
  BY DEF Acts
<1>4. QED
  BY <1>1, <1>2, <1>3, ListOfIs

LEMMA EarnedStep ==
  ASSUME TypeInv, RecInv, NEW j \in Jobs, Step(j)
  PROVE  Earned(j)'
<1>1. /\ Placed(j) /\ Holds(j) /\ DOMAIN pc = Jobs /\ LocalTypes /\ DOMAIN did = Jobs
  BY TypeFacts DEF LocalTypes
<1>2. Earned(j) /\ RecordedIsActed
  BY DEF RecInv
<1>3. load' = load /\ Kind(j)' = Kind(j) /\ ListOf(j)' = ListOf(j)
  BY StepAlone DEF Alone, Kind, ListOf
<1>4. \A l \in Lists : acted[l] \subseteq acted'[l]
  BY StepActs
<1>5. \A x : Acts(j, x) /\ Kind(j) \in Listers \cup Mailers => x \in acted'[ListOf(j)]
  BY StepActs
<1>6. Kind(j) \in Listers \cup Mailers => ListOf(j) \in Lists
  BY ListOfIs
<1>7. CASE Read(j)
  <2>1. Kind(j) \in Listers /\ pc[j] = "read"
    BY <1>1, <1>7 DEF Read, Placed
  <2>2. PICK list : list = rows[ListOf(j)]
    OBVIOUS
  <2>3. /\ copy'[j] = list /\ todo'[j] = Agenda(j, list) /\ kept'[j] = <<>>
        /\ pc'[j] = AfterRead(j, Agenda(j, list))
    BY <1>1, <1>7, <2>2 DEF Read, LocalTypes, Go
  <2>4. ToSet(list) \subseteq acted'[ListOf(j)] /\ ToSet(<<>>) = {}
    BY <1>2, <1>4, <1>6, <2>1, <2>2, ToSetEmpty DEF RecordedIsActed
  <2>5. /\ pc'[j] \notin {"enqueue", "write", "offer"}
        /\ pc'[j] = "append" => todo'[j] = <<load.thread>>
    BY <2>1, <2>3, AfterReadIs, AgendaIs DEF Listers
  <2>6. Kind(j) = "scan" => todo'[j] = list
    BY <2>3, AgendaIs
  <2>7. Len(<<load.thread>>) = 1
    OBVIOUS
  <2>8. QED
    BY <1>3, <2>1, <2>3, <2>4, <2>5, <2>6, <2>7 DEF Earned
<1>8. CASE Write(j)
  <2>1. UNCHANGED local /\ pc'[j] = "done"
    BY <1>1, <1>8, AfterStepIs DEF Write, Go
  <2>2. QED
    BY <1>2, <1>3, <1>4, <1>6, <2>1 DEF Earned, Listers, local
<1>9. CASE List(j)
  <2>1. PICK news : todo'[j] = news /\ kept'[j] = news
    BY <1>1, <1>9 DEF List, LocalTypes
  <2>2. pc'[j] \in {"done", "enqueue"} /\ copy' = copy /\ Kind(j) = "poll"
    BY <1>1, <1>9, AfterStepIs DEF List, Go, Placed
  <2>3. QED
    BY <1>2, <1>3, <1>4, <1>6, <2>1, <2>2 DEF Earned
<1>10. CASE History(j)
  <2>1. pc'[j] \in {"done", "enqueue"} /\ copy' = copy /\ kept' = kept /\ Kind(j) = "gmail"
    BY <1>1, <1>10 DEF History, Go, Placed
  <2>2. QED
    BY <1>2, <1>3, <1>4, <1>6, <2>1 DEF Earned, Listers
<1>11. CASE Enqueue(j)
  <2>1. Kind(j) \in Mailers /\ todo[j] # <<>> /\ todo[j] \in Seq(Posts)
    BY <1>1, <1>11 DEF Enqueue, Placed, Holds
  <2>2. PICK m : m = Head(todo[j])
    OBVIOUS
  <2>3. Acts(j, m) /\ copy' = copy /\ kept' = kept /\ todo'[j] = Tail(todo[j])
    BY <1>1, <1>11, <2>2 DEF Enqueue, LocalTypes
  <2>4. /\ Len(todo[j]) > 1 => pc'[j] = "enqueue"
        /\ ~ (Len(todo[j]) > 1) => pc'[j] \in {"write", "done"}
    BY <1>1, <1>11, AfterStepIs DEF Enqueue, Go
  <2>5. ToSet(todo[j]) = {m} \cup ToSet(todo'[j]) /\ (Len(todo[j]) > 1 <=> todo'[j] # <<>>)
    BY <2>1, <2>2, <2>3, ToSetHead
  <2>6. m \in acted'.poll /\ acted.poll \subseteq acted'.poll /\ ListOf(j) = "poll"
    BY <1>4, <1>5, <2>1, <2>3, ListOfIs DEF Lists
  <2>7. Kind(j) = "poll" => ToSet(kept'[j]) \subseteq acted'.poll \cup ToSet(todo'[j])
    BY <1>2, <1>11, <2>3, <2>5, <2>6 DEF Earned, Enqueue
  <2>8. pc'[j] \in {"write", "done"} => ToSet(todo'[j]) = {}
    BY <2>4, <2>5, ToSetEmpty
  <2>9. QED
    BY <1>2, <1>3, <2>1, <2>3, <2>4, <2>6, <2>7, <2>8 DEF Earned, Mailers, Listers
<1>12. CASE Triaging(j)
  <2>1. Kind(j) = "triage" /\ pc'[j] \in {"classify", "keep", "triage", "done"}
    BY <1>1, <1>12 DEF Triaging, Cached, Classify, Keep, Triage, Placed, Go
  <2>2. QED
    BY <1>3, <2>1 DEF Earned, Listers
<1>13. CASE AppendThread(j)
  <2>1. Kind(j) = "outbound" /\ todo[j] # <<>> /\ todo[j] \in Seq(Correspondents)
    BY <1>1, <1>13 DEF AppendThread, Placed, Holds, Followers
  <2>2. PICK t : t = Head(todo[j])
    OBVIOUS
  <2>3. Acts(j, t) /\ copy' = copy /\ kept'[j] = todo[j] /\ pc'[j] = "write"
    BY <1>1, <1>13, <2>2 DEF AppendThread, LocalTypes, Go
  <2>4. ToSet(todo[j]) = {t}
    <3>1. Len(todo[j]) = 1
      BY <1>2, <1>13 DEF Earned, AppendThread
    <3>2. Tail(todo[j]) = <<>>
      <4>1. ~ (Len(todo[j]) > 1)
        BY <3>1
      <4>2. QED
        BY <2>1, <4>1, ToSetHead
    <3>3. QED
      BY <2>1, <2>2, <3>2, ToSetHead, ToSetEmpty
  <2>5. t \in acted'[ListOf(j)] /\ acted[ListOf(j)] \subseteq acted'[ListOf(j)]
    BY <1>4, <1>5, <1>6, <2>1, <2>3 DEF Listers
  <2>6. QED
    BY <1>2, <1>3, <2>1, <2>3, <2>4, <2>5 DEF Earned, Listers
<1>14. CASE Check(j) \/ Chase(j)
  <2>1. Kind(j) = "scan" /\ todo[j] # <<>>
    BY <1>1, <1>14 DEF Check, Chase, Placed, Holds
  <2>2. /\ todo[j] \in Seq(Correspondents) /\ kept[j] \in Seq(Correspondents)
        /\ copy[j] \in Seq(Correspondents)
    BY <1>1, <2>1 DEF Holds, Followers
  <2>3. PICK t : t = Head(todo[j])
    OBVIOUS
  <2>4. copy' = copy
    BY <1>14 DEF Check, Chase
  <2>5. \/ \E keep \in {kept[j], Append(kept[j], t)} : Onward(j, keep)
        \/ pc'[j] = "chase" /\ kept' = kept /\ todo' = todo
    BY <1>1, <1>14, <2>3 DEF Check, Chase, KeptBlind, Go
  <2>6. t \in Correspondents /\ ToSet(todo[j]) = {t} \cup ToSet(Tail(todo[j]))
    BY <2>1, <2>2, <2>3, ToSetHead
  <2>7. CASE \E keep \in {kept[j], Append(kept[j], t)} : Onward(j, keep)
    <3>1. PICK keep \in {kept[j], Append(kept[j], t)} : Onward(j, keep)
      BY <2>7
    <3>2. /\ Append(kept[j], t) \in Seq(Correspondents)
          /\ ToSet(Append(kept[j], t)) = ToSet(kept[j]) \cup {t}
      BY <2>2, <2>6, ToSetAppend
    <3>3. keep \in Seq(Correspondents) /\ ToSet(keep) \subseteq ToSet(kept[j]) \cup {t}
      BY <2>2, <3>1, <3>2
    <3>4. /\ kept'[j] = keep /\ todo'[j] = Tail(todo[j])
          /\ pc'[j] \in {"check", "write", "done"}
      BY <2>1, <2>2, <3>1, <3>3, OnwardGoes
    <3>5. QED
      BY <1>2, <1>3, <1>4, <1>6, <2>1, <2>4, <2>6, <3>3, <3>4 DEF Earned
  <2>8. CASE pc'[j] = "chase" /\ kept' = kept /\ todo' = todo
    BY <1>2, <1>3, <1>4, <1>6, <2>1, <2>4, <2>8 DEF Earned
  <2>9. QED
    BY <2>5, <2>7, <2>8
<1>15. CASE Journal(j) \/ Streaks(j) \/ Status(j)
  <2>1. /\ copy' = copy /\ kept' = kept /\ Kind(j) = "health"
        /\ pc'[j] \notin {"enqueue", "write", "append", "offer"}
    BY <1>1, <1>15 DEF Journal, Streaks, Status, local, Placed, Go
  <2>2. QED
    BY <1>2, <1>3, <1>4, <1>6, <2>1 DEF Earned, Listers
<1>16. CASE Intervene(j)
  <2>1. Kind(j) = "health" /\ kept[j] \in Seq(Interventions)
    BY <1>1, <1>16 DEF Intervene, Placed, Holds
  <2>2. PICK e : kept'[j] = Append(kept[j], e) /\ Acts(j, e)
    BY <1>1, <1>16 DEF Intervene, LocalTypes
  <2>3. copy' = copy /\ pc'[j] \in {"intervene", "write"}
    BY <1>1, <1>16 DEF Intervene, Go
  <2>4. ToSet(kept'[j]) = ToSet(kept[j]) \cup {e}
    <3>1. kept[j] \in Seq(Interventions \cup {e}) /\ e \in Interventions \cup {e}
      BY <2>1
    <3>2. QED
      BY <2>2, <3>1, ToSetAppend
  <2>5. e \in acted'[ListOf(j)] /\ acted[ListOf(j)] \subseteq acted'[ListOf(j)]
    BY <1>4, <1>5, <1>6, <2>1, <2>2 DEF Listers
  <2>6. QED
    BY <1>2, <1>3, <2>1, <2>3, <2>4, <2>5 DEF Earned, Listers
<1>17. CASE Article(j) \/ Offer(j)
  <2>1. Kind(j) = "funded" /\ todo[j] # <<>> /\ pc[j] \in {"article", "offer"}
    BY <1>1, <1>17 DEF Article, Offer, Placed, Holds
  <2>2. todo[j] \in Seq(Articles) /\ kept[j] \in Seq(Articles)
    BY <1>1, <2>1 DEF Holds
  <2>3. PICK a : a = Head(todo[j])
    OBVIOUS
  <2>4. copy' = copy
    BY <1>17 DEF Article, Offer
  <2>5. a \in Articles
    BY <2>1, <2>2, <2>3, ToSetHead
  <2>6. ListOf(j) = "funded" /\ acted.funded \subseteq acted'.funded
    BY <1>4, <2>1, ListOfIs DEF Lists
  <2>7. \/ NextArticle(j, kept[j])
        \/ a \in acted'.funded /\ NextArticle(j, Append(kept[j], a))
        \/ a \in acted'.funded /\ pc'[j] = "offer" /\ kept' = kept /\ todo' = todo
    BY <1>1, <1>2, <1>5, <1>17, <2>1, <2>3, <2>6 DEF Article, Offer, Go, Earned, Listers
  <2>8. ASSUME NEW keep \in {kept[j], Append(kept[j], a)}, NextArticle(j, keep),
               keep = kept[j] \/ a \in acted'.funded
        PROVE  Earned(j)'
    <3>1. Append(kept[j], a) \in Seq(Articles) /\ ToSet(Append(kept[j], a)) = ToSet(kept[j]) \cup {a}
      BY <2>2, <2>5, ToSetAppend
    <3>2. kept'[j] = keep /\ pc'[j] \in {"article", "write", "done"}
      BY <2>1, <2>2, <2>8, <3>1, ArticleGoes
    <3>3. ToSet(kept[j]) \subseteq acted.funded /\ ToSet(copy[j]) \subseteq acted.funded
      BY <1>2, <2>1, <2>6 DEF Earned, Listers
    <3>4. ToSet(kept'[j]) \subseteq acted'.funded
      BY <2>6, <2>8, <3>1, <3>2, <3>3
    <3>5. QED
      BY <1>3, <2>1, <2>4, <2>6, <3>2, <3>3, <3>4 DEF Earned
  <2>9. CASE a \in acted'.funded /\ pc'[j] = "offer" /\ kept' = kept /\ todo' = todo
    BY <1>2, <1>3, <2>1, <2>3, <2>4, <2>6, <2>9 DEF Earned, Listers
  <2>10. QED
    BY <2>7, <2>8, <2>9
<1>18. CASE Handling(j)
  <2>1. UNCHANGED local /\ pc'[j] \in {"digest", "apology", "done", "failed"}
    BY <1>1, <1>18 DEF Handling, Gather, Digest, Go, Compose, DailyBriefing, PortfolioWatcher,
             ExpenseAuditor, TaxHelper, RelationshipMaintenance, TravelPlanner
  <2>2. QED
    BY <1>2, <1>3, <1>4, <1>6, <2>1 DEF Earned, Listers, local
<1>19. QED
  BY <1>7, <1>8, <1>9, <1>10, <1>11, <1>12, <1>13, <1>14, <1>15, <1>16, <1>17, <1>18
     DEF Step, Mailing, Following, Guarding, Watching

\* What a job writes was acted on.
LEMMA WrittenIsActed ==
  ASSUME TypeInv, RecInv, NEW j \in Jobs, Write(j)
  PROVE  ToSet(Merged(j)) \subseteq acted[ListOf(j)]
<1>1. /\ Placed(j) /\ Holds(j) /\ Earned(j) /\ pc[j] = "write" /\ Kind(j) \in Listers
  BY TypeFacts, WriteRows DEF RecInv, Write
<1>2. ToSet(copy[j]) \subseteq acted[ListOf(j)]
  BY <1>1 DEF Earned
<1>3. ToSet(kept[j]) \subseteq acted[ListOf(j)]
  <2>1. Kind(j) = "poll" => ListOf(j) = "poll"
    BY ListOfIs DEF Mailers
  <2>2. QED
    BY <1>1, <1>2, <2>1 DEF Earned, Listers
<1>4. CASE Kind(j) = "poll"
  <2>1. copy[j] \in Seq(Posts) /\ kept[j] \in Seq(Posts)
    BY <1>1, <1>4 DEF Holds, Mailers
  <2>2. Merged(j) = Remembered(copy[j], kept[j])
    BY <1>4 DEF Merged
  <2>3. QED
    BY <1>2, <1>3, <2>1, <2>2, RememberedIs
<1>5. CASE Kind(j) = "funded"
  <2>1. copy[j] \in Seq(Articles) /\ kept[j] \in Seq(Articles)
    BY <1>1, <1>5 DEF Holds
  <2>2. Merged(j) = Capped(copy[j], kept[j])
    BY <1>5 DEF Merged
  <2>3. QED
    BY <1>2, <1>3, <2>1, <2>2, CappedIs
<1>6. CASE Kind(j) = "health"
  <2>1. copy[j] \in Seq(Interventions) /\ kept[j] \in Seq(Interventions)
    BY <1>1, <1>6 DEF Holds
  <2>2. Merged(j) = copy[j] \o kept[j]
    BY <1>6 DEF Merged
  <2>3. QED
    BY <1>2, <1>3, <2>1, <2>2, ToSetConcat
<1>7. CASE Kind(j) \in {"outbound", "scan"}
  <2>1. copy[j] \in Seq(Correspondents) /\ kept[j] \in Seq(Correspondents)
    BY <1>1, <1>7 DEF Holds, Followers
  <2>2. Merged(j) = copy[j] \o kept[j] \/ Merged(j) = kept[j]
    BY <1>7 DEF Merged
  <2>3. ToSet(copy[j] \o kept[j]) = ToSet(copy[j]) \cup ToSet(kept[j])
    BY <2>1, ToSetConcat
  <2>4. QED
    BY <1>2, <1>3, <2>2, <2>3
<1>8. QED
  BY <1>1, <1>4, <1>5, <1>6, <1>7 DEF Listers

LEMMA RecKept ==
  ASSUME TypeInv, RecInv, [Next]_vars
  PROVE  RecInv'
<1>1. RecordedIsActed /\ (\A i \in Jobs : Earned(i)) /\ LocalTypes /\ DOMAIN pc = Jobs
      /\ DOMAIN rows = Lists
  BY DEF RecInv, TypeInv, StateTypes, RowsHold
<1>2. ASSUME NEW j \in Jobs, Step(j) PROVE RecInv'
  <2>1. \A l \in Lists : acted[l] \subseteq acted'[l]
    BY <1>2, StepActs
  <2>2. ASSUME NEW i \in Jobs \ {j} PROVE Earned(i)'
    <3>1. Still(i) /\ load' = load
      BY <1>2, StepAlone DEF Alone
    <3>2. Kind(i)' = Kind(i) /\ ListOf(i)' = ListOf(i)
      BY <3>1 DEF Kind, ListOf
    <3>3. Kind(i) \in Listers => ListOf(i) \in Lists
      BY ListOfIs
    <3>4. Earned(i)
      BY <1>1
    <3>5. "poll" \in Lists /\ "funded" \in Lists /\ {"outbound", "health", "funded"} \subseteq Listers
      BY DEF Lists, Listers
    <3>6. QED
      BY <2>1, <3>1, <3>2, <3>3, <3>4, <3>5 DEF Earned, Still
  <2>3. RecordedIsActed'
    <3>1. CASE Write(j)
      <4>1. /\ rows' = [rows EXCEPT ![ListOf(j)] = Merged(j)]
            /\ ToSet(Merged(j)) \subseteq acted[ListOf(j)]
        BY <3>1, WriteRows, WrittenIsActed
      <4>2. QED
        BY <1>1, <2>1, <4>1 DEF RecordedIsActed
    <3>2. CASE UNCHANGED <<rows, covers>>
      BY <1>1, <2>1, <3>2 DEF RecordedIsActed
    <3>3. QED
      BY <1>2, <3>1, <3>2, StepFrame
  <2>4. QED
    BY <1>2, <2>2, <2>3, EarnedStep DEF RecInv
<1>3. ASSUME NEW j \in Jobs, Fire(j) PROVE RecInv'
  <2>1. /\ load' = load /\ rows' = rows /\ acted' = acted /\ copy' = copy /\ todo' = todo
        /\ kept' = kept /\ \A i \in Jobs \ {j} : pc'[i] = pc[i]
    BY <1>3, FireAlone DEF Alone, Still, Fire, Webhook, FileChange, Cron, Dispatch, Open
  <2>2. pc'[j] \notin {"enqueue", "write", "append", "offer"}
    <3>1. Kind(j) \in Kinds \ {"absent"} /\ pc'[j] = Opening(j)
      BY <1>1, <1>3, KindsApart, TypeFacts
         DEF Fire, Webhook, FileChange, Cron, Dispatch, Open, Go
    <3>2. QED
      BY <3>1, OpeningPlaced
  <2>3. QED
    BY <1>1, <2>1, <2>2 DEF RecInv, RecordedIsActed, Earned, Kind, ListOf
<1>4. CASE Elsewhere
  <2>1. /\ load' = load /\ acted' = acted /\ copy' = copy /\ todo' = todo /\ kept' = kept
        /\ (rows' = rows \/ \E l \in Lists : rows' = [rows EXCEPT ![l] = <<>>])
    BY <1>4 DEF Elsewhere, Break, Restart, Arrive, Lapse, Age, Reply, Vanish, Midnight, local, state
  <2>2. RecordedIsActed'
    BY <1>1, <2>1, ToSetEmpty DEF RecordedIsActed
  <2>3. ASSUME NEW i \in Jobs
        PROVE  pc'[i] = pc[i] \/ pc'[i] \notin {"enqueue", "write", "append", "offer"}
    <3>1. CASE Restart
      BY <3>1, RestartMoves, OpeningPlaced
    <3>2. CASE ~ Restart
      BY <1>1, <1>4, <3>2 DEF Elsewhere, Break, Arrive, Lapse, Age, Reply, Vanish, Midnight, Go
    <3>3. QED
      BY <3>1, <3>2
  <2>4. QED
    BY <1>1, <2>1, <2>2, <2>3 DEF RecInv, Earned, Kind, ListOf
<1>5. CASE UNCHANGED vars
  BY <1>5 DEF vars, local, state, RecInv, RecordedIsActed, Earned, Kind, ListOf
<1>6. QED
  BY <1>2, <1>3, <1>4, <1>5, NextIs

LEMMA InitRec ==
  ASSUME Init
  PROVE  RecInv
<1>1. TypeInv
  BY InitTypes
<1>2. RecordedIsActed
  BY DEF Init, RecordedIsActed
<1>3. ASSUME NEW j \in Jobs PROVE Earned(j)
  BY ToSetEmpty DEF Init, Earned
<1>4. QED
  BY <1>2, <1>3 DEF RecInv

\* What a list remembers as handled was handled, whatever failed, timed out
\* or restarted between the act and the write.
THEOREM ListsAreTrue == Spec => []RecordedIsActed
<1>1. Init => RecInv
  BY InitRec
<1>2. TypeInv /\ RecInv /\ [Next]_vars => RecInv'
  BY RecKept
<1>3. RecInv => RecordedIsActed
  BY DEF RecInv
<1>4. QED
  BY <1>1, <1>2, <1>3, TypesHold, PTL DEF Spec

----
\* The journal: its lines in order, and the streaks

\* Any two lines are in order, one way round, and the order is transitive.
LEMMA NewerOrders ==
  ASSUME NEW J \in Seq(Lines)
  PROVE  /\ \A i, k \in 1 .. Len(J) : i = k \/ Newer(J, i, k) \/ Newer(J, k, i)
         /\ \A i \in 1 .. Len(J) : ~ Newer(J, i, i)
         /\ \A i, k, l \in 1 .. Len(J) : Newer(J, i, k) /\ Newer(J, k, l) => Newer(J, i, l)
<1>1. \A i \in 1 .. Len(J) : J[i].day \in Nat
  <2> SUFFICES ASSUME NEW i \in 1 .. Len(J) PROVE J[i].day \in Nat
    OBVIOUS
  <2>1. J[i] \in Lines
    OBVIOUS
  <2>2. QED
    BY <2>1 DEF Lines
<1>2. Len(J) \in Nat
  OBVIOUS
<1>3. QED
  BY <1>1, <1>2 DEF Newer

Sorted(J, n, o) == \A i, k \in 1 .. n : i < k => Newer(J, o[i], o[k])

\* One line more is put in before the first that is older.
LEMMA SortedInsert ==
  ASSUME NEW J \in Seq(Lines), NEW n \in 0 .. Len(J), n < Len(J),
         NEW o \in [1 .. n -> 1 .. n], Sorted(J, n, o)
  PROVE  \E q \in [1 .. n + 1 -> 1 .. n + 1] : Sorted(J, n + 1, q)
<1> DEFINE T == {p \in 1 .. n + 1 : p = n + 1 \/ Newer(J, n + 1, o[p])}
<1>1. n \in Nat /\ Len(J) \in Nat /\ n + 1 \in 1 .. Len(J)
  OBVIOUS
<1>2. T \subseteq Nat /\ n + 1 \in T
  BY <1>1
<1> HIDE DEF T
<1>3. PICK p \in T : \A y \in T : p <= y
  BY <1>2, LeastNumber
<1>4. p \in 1 .. n + 1 /\ (p = n + 1 \/ Newer(J, n + 1, o[p]))
  BY <1>3 DEF T
<1>5. \A i \in 1 .. n : i < p => Newer(J, o[i], n + 1)
  <2> SUFFICES ASSUME NEW i \in 1 .. n, i < p PROVE Newer(J, o[i], n + 1)
    OBVIOUS
  <2>1. i \notin T
    <3>1. i \in Nat /\ p \in Nat /\ ~ (p <= i)
      BY <1>4
    <3>2. QED
      BY <1>3, <3>1
  <2>2. i \in 1 .. n + 1 /\ i # n + 1
    BY <1>1
  <2>3. ~ Newer(J, n + 1, o[i])
    BY <2>1, <2>2 DEF T
  <2>4. o[i] \in 1 .. Len(J) /\ o[i] # n + 1
    BY <1>1
  <2>5. QED
    BY <1>1, <2>3, <2>4, NewerOrders
<1>6. \A i \in 1 .. n : p <= i => Newer(J, n + 1, o[i])
  <2> SUFFICES ASSUME NEW i \in 1 .. n, p <= i PROVE Newer(J, n + 1, o[i])
    OBVIOUS
  <2>1. p \in 1 .. n /\ p # n + 1
    BY <1>1, <1>4
  <2>2. Newer(J, n + 1, o[p])
    BY <1>4, <2>1
  <2>3. p = i \/ Newer(J, o[p], o[i])
    BY <1>1, <2>1 DEF Sorted
  <2>4. o[p] \in 1 .. Len(J) /\ o[i] \in 1 .. Len(J)
    BY <1>1, <2>1
  <2>5. QED
    BY <1>1, <2>2, <2>3, <2>4, NewerOrders
<1> DEFINE q == [i \in 1 .. n + 1 |-> IF i < p THEN o[i] ELSE IF i = p THEN n + 1 ELSE o[i - 1]]
<1>7. q \in [1 .. n + 1 -> 1 .. n + 1]
  <2>1. ASSUME NEW i \in 1 .. n + 1 PROVE q[i] \in 1 .. n + 1
    <3>1. CASE i < p
      <4>1. i \in 1 .. n
        BY <1>1, <1>4, <3>1
      <4>2. QED
        BY <1>1, <3>1, <4>1
    <3>2. CASE i = p
      BY <1>1, <1>4, <3>2
    <3>3. CASE i > p
      <4>1. i - 1 \in 1 .. n /\ ~ (i < p) /\ i # p
        BY <1>1, <1>4, <3>3
      <4>2. QED
        BY <1>1, <4>1
    <3>4. QED
      BY <1>1, <1>4, <3>1, <3>2, <3>3
  <2>2. QED
    BY <2>1
<1>8. ASSUME NEW i \in 1 .. n + 1, NEW k \in 1 .. n + 1, i < k
      PROVE  Newer(J, q[i], q[k])
  <2>1. CASE k < p
    <3>1. i \in 1 .. n /\ k \in 1 .. n /\ i < p /\ q[i] = o[i] /\ q[k] = o[k]
      BY <1>1, <1>4, <1>8, <2>1
    <3>2. QED
      BY <1>8, <3>1 DEF Sorted
  <2>2. CASE k = p
    <3>1. i \in 1 .. n /\ i < p /\ q[i] = o[i] /\ q[k] = n + 1
      BY <1>1, <1>4, <1>8, <2>2
    <3>2. QED
      BY <1>5, <3>1
  <2>3. CASE k > p /\ i < p
    <3>1. i \in 1 .. n /\ k - 1 \in 1 .. n /\ i < k - 1 /\ q[i] = o[i] /\ q[k] = o[k - 1]
      BY <1>1, <1>4, <1>8, <2>3
    <3>2. QED
      BY <3>1 DEF Sorted
  <2>4. CASE k > p /\ i = p
    <3>1. k - 1 \in 1 .. n /\ p <= k - 1 /\ q[i] = n + 1 /\ q[k] = o[k - 1]
      BY <1>1, <1>4, <1>8, <2>4
    <3>2. QED
      BY <1>6, <3>1
  <2>5. CASE k > p /\ i > p
    <3>1. /\ i - 1 \in 1 .. n /\ k - 1 \in 1 .. n /\ i - 1 < k - 1
          /\ q[i] = o[i - 1] /\ q[k] = o[k - 1]
      BY <1>1, <1>4, <1>8, <2>5
    <3>2. QED
      BY <3>1 DEF Sorted
  <2>6. QED
    BY <1>1, <1>4, <2>1, <2>2, <2>3, <2>4, <2>5
<1> HIDE DEF q
<1>9. QED
  BY <1>7, <1>8 DEF Sorted

LEMMA OrderExists ==
  ASSUME NEW J \in Seq(Lines)
  PROVE  \E o \in [DOMAIN J -> DOMAIN J] :
           \A i, k \in DOMAIN J : i < k => Newer(J, o[i], o[k])
<1> DEFINE N == Len(J)
           U == {n \in 0 .. N : \E o \in [1 .. n -> 1 .. n] : Sorted(J, n, o)}
<1>1. N \in Nat /\ DOMAIN J = 1 .. N
  OBVIOUS
<1>2. 0 \in U
  <2>1. [i \in 1 .. 0 |-> 1] \in [1 .. 0 -> 1 .. 0]
    OBVIOUS
  <2>2. Sorted(J, 0, [i \in 1 .. 0 |-> 1])
    BY DEF Sorted
  <2>3. 0 \in 0 .. N
    BY <1>1
  <2>4. QED
    BY <2>1, <2>2, <2>3
<1>3. ASSUME NEW n \in 0 .. N, n \in U, n < N PROVE n + 1 \in U
  <2>1. PICK o \in [1 .. n -> 1 .. n] : Sorted(J, n, o)
    BY <1>3
  <2>2. \E q \in [1 .. n + 1 -> 1 .. n + 1] : Sorted(J, n + 1, q)
    BY <1>3, <2>1, SortedInsert
  <2>3. n + 1 \in 0 .. N
    BY <1>1, <1>3
  <2>4. QED
    BY <2>2, <2>3
<1> HIDE DEF U
<1>4. 0 .. N \subseteq U
  <2> HIDE DEF N
  <2>1. QED
    BY <1>1, <1>2, <1>3, RangeSetInduction
<1>5. N \in U
  BY <1>1, <1>4
<1>6. QED
  BY <1>1, <1>5 DEF U, Sorted

\* The entries that are looked at are lines of the journal, in an order of all
\* its lines, newest first.
LEMMA ByDayIs ==
  ASSUME NEW J \in Seq(Lines)
  PROVE  \E o \in [1 .. Len(J) -> 1 .. Len(J)] :
           /\ Sorted(J, Len(J), o)
           /\ ByDay(J) \in Seq(Lines) /\ Len(ByDay(J)) <= Len(J) /\ Len(ByDay(J)) \in Nat
           /\ \A i \in 1 .. Len(ByDay(J)) : ByDay(J)[i] = J[o[i]]
<1> DEFINE order == CHOOSE o \in [DOMAIN J -> DOMAIN J] :
                      \A i, k \in DOMAIN J : i < k => Newer(J, o[i], o[k])
           m == IF Len(J) < Recent THEN Len(J) ELSE Recent
<1>1. DOMAIN J = 1 .. Len(J) /\ Len(J) \in Nat /\ m \in Nat /\ m <= Len(J)
  BY LoopAssumption
<1>2. /\ order \in [DOMAIN J -> DOMAIN J]
      /\ \A i, k \in DOMAIN J : i < k => Newer(J, order[i], order[k])
  BY OrderExists
<1>3. ByDay(J) = [i \in 1 .. m |-> J[order[i]]]
  BY Zenon DEF ByDay
<1> HIDE DEF order, m
<1>4. \A i \in 1 .. m : order[i] \in 1 .. Len(J) /\ J[order[i]] \in Lines
  <2> SUFFICES ASSUME NEW i \in 1 .. m PROVE order[i] \in 1 .. Len(J) /\ J[order[i]] \in Lines
    OBVIOUS
  <2>1. i \in 1 .. Len(J)
    BY <1>1
  <2>2. order[i] \in 1 .. Len(J)
    BY <1>1, <1>2, <2>1
  <2>3. QED
    BY <2>2
<1>5. ByDay(J) \in [1 .. m -> Lines]
  BY <1>3, <1>4
<1>6. ByDay(J) \in Seq(Lines) /\ Len(ByDay(J)) = m
  BY <1>1, <1>5
<1>7. \A i \in 1 .. m : ByDay(J)[i] = J[order[i]]
  BY <1>3
<1>8. Sorted(J, Len(J), order) /\ order \in [1 .. Len(J) -> 1 .. Len(J)]
  BY <1>1, <1>2 DEF Sorted
<1>9. QED
  BY <1>1, <1>6, <1>7, <1>8

\* A streak is there, and all of its entries have the dimension.
LEMMA StreakIs ==
  ASSUME NEW e \in Seq(Lines), NEW d
  PROVE  Streak(e, d) \in 0 .. Len(e) /\ \A i \in 1 .. Streak(e, d) : d \in e[i].n
<1> DEFINE T == {k \in 0 .. Len(e) : k < Len(e) => d \notin e[k + 1].n}
<1>1. Len(e) \in Nat
  OBVIOUS
<1>2. T \subseteq Nat /\ Len(e) \in T
  BY <1>1
<1> HIDE DEF T
<1>3. PICK k \in T : \A y \in T : k <= y
  BY <1>2, LeastNumber
<1>4. k \in 0 .. Len(e) /\ (k < Len(e) => d \notin e[k + 1].n)
  BY <1>3 DEF T
<1>5. ASSUME NEW i \in 1 .. k PROVE d \in e[i].n
  <2>1. i - 1 \notin T
    <3>1. i - 1 \in Nat /\ ~ (k <= i - 1)
      BY <1>4
    <3>2. QED
      BY <1>3, <3>1
  <2>2. i - 1 \in 0 .. Len(e) /\ i - 1 < Len(e) /\ (i - 1) + 1 = i
    BY <1>1, <1>4
  <2>3. QED
    BY <2>1, <2>2 DEF T
<1>6. \E s \in 0 .. Len(e) : /\ \A i \in 1 .. s : d \in e[i].n
                             /\ s < Len(e) => d \notin e[s + 1].n
  BY <1>4, <1>5
<1>7. QED
  BY <1>6, Zenon DEF Streak

\* A streak of Threshold is of as many lines, newer than all without the
\* dimension, in whatever order the journal has them.
LEMMA StreakCounts ==
  ASSUME TypeInv, NEW d, Streak(ByDay(load.journal), d) >= Threshold
  PROVE  Cardinality(NewestNs(d)) >= Threshold
<1>1. PICK J : J = load.journal
  OBVIOUS
<1>2. J \in Seq(Lines) /\ Len(J) \in Nat /\ DOMAIN J = 1 .. Len(J)
  BY <1>1, LoadFacts DEF TypeInv, StateTypes
<1>3. PICK o \in [1 .. Len(J) -> 1 .. Len(J)] :
        /\ Sorted(J, Len(J), o)
        /\ ByDay(J) \in Seq(Lines) /\ Len(ByDay(J)) <= Len(J) /\ Len(ByDay(J)) \in Nat
        /\ \A i \in 1 .. Len(ByDay(J)) : ByDay(J)[i] = J[o[i]]
  BY <1>2, ByDayIs
<1>4. PICK e : e = ByDay(J)
  OBVIOUS
<1>5. PICK s : s = Streak(e, d)
  OBVIOUS
<1>6. s \in 0 .. Len(e) /\ s >= Threshold /\ \A i \in 1 .. s : d \in e[i].n
  BY <1>1, <1>3, <1>4, <1>5, StreakIs
<1>7. Threshold \in Nat /\ s \in Nat /\ 1 .. Threshold \subseteq 1 .. Len(J)
  BY <1>2, <1>3, <1>4, <1>6, LoopAssumption
<1>8. \A i, k \in 1 .. Len(J) : i # k => o[i] # o[k]
  <2> SUFFICES ASSUME NEW i \in 1 .. Len(J), NEW k \in 1 .. Len(J), i # k PROVE o[i] # o[k]
    OBVIOUS
  <2>1. Newer(J, o[i], o[k]) \/ Newer(J, o[k], o[i])
    BY <1>2, <1>3 DEF Sorted
  <2>2. QED
    BY <1>2, <1>3, <2>1, NewerOrders
<1>9. \A k \in 1 .. Len(J) : \E i \in 1 .. Len(J) : o[i] = k
  <2>1. o \in Injection(1 .. Len(J), 1 .. Len(J))
    BY <1>3, <1>8 DEF Injection, IsInjective
  <2>2. IsFiniteSet(1 .. Len(J))
    BY <1>2, FS_Interval
  <2>3. o \in Surjection(1 .. Len(J), 1 .. Len(J))
    BY <2>1, <2>2, FS_Injection
  <2>4. QED
    BY <2>3 DEF Surjection
<1> DEFINE Ns == NewestNs(d)
<1>10. ASSUME NEW i \in 1 .. Threshold PROVE o[i] \in Ns
  <2>1. i \in 1 .. Len(J) /\ i \in 1 .. s /\ i \in 1 .. Len(e)
    BY <1>2, <1>3, <1>4, <1>6, <1>7
  <2>2. o[i] \in 1 .. Len(J) /\ d \in J[o[i]].n
    BY <1>3, <1>4, <1>6, <2>1
  <2>3. ASSUME NEW k \in 1 .. Len(J), d \notin J[k].n PROVE Newer(J, o[i], k)
    <3>1. PICK l \in 1 .. Len(J) : o[l] = k
      BY <1>9
    <3>2. ~ (l <= s)
      <4>1. l <= s => l \in 1 .. s /\ l \in 1 .. Len(e)
        BY <1>2, <1>3, <1>4, <1>6
      <4>2. QED
        BY <1>3, <1>4, <1>6, <2>3, <3>1, <4>1
    <3>3. i < l
      BY <1>6, <1>7, <2>1, <3>2
    <3>4. QED
      BY <1>2, <2>1, <3>1, <3>3, <1>3 DEF Sorted
  <2>4. QED
    BY <1>1, <1>2, <2>2, <2>3 DEF NewestNs
<1>11. IsFiniteSet(Ns) /\ Cardinality(Ns) \in Nat
  <2>1. Ns \in SUBSET (1 .. Len(J)) /\ IsFiniteSet(1 .. Len(J))
    <3>1. IsFiniteSet(1 .. Len(J))
      BY <1>2, FS_Interval
    <3>2. Ns \in SUBSET (1 .. Len(J))
      BY <1>1 DEF NewestNs
    <3>3. QED
      BY <3>1, <3>2
  <2>2. IsFiniteSet(Ns)
    BY <2>1, FS_Subset
  <2>3. QED
    BY <2>2, FS_CardinalityType
<1> HIDE DEF Ns
<1> DEFINE f == [i \in 1 .. Threshold |-> o[i]]
<1>12. f \in Injection(1 .. Threshold, Ns)
  <2>1. f \in [1 .. Threshold -> Ns]
    BY <1>10
  <2>2. \A i, k \in 1 .. Threshold : f[i] = f[k] => i = k
    BY <1>7, <1>8
  <2>3. QED
    BY <2>1, <2>2 DEF Injection, IsInjective
<1>13. Cardinality(1 .. Threshold) = Threshold
  BY <1>7, FS_Interval
<1>14. Cardinality(1 .. Threshold) <= Cardinality(Ns)
  BY <1>11, <1>12, FS_Injection
<1>15. QED
  BY <1>7, <1>11, <1>13, <1>14 DEF Ns

----
\* Critical alerts are earned

EarnedAlert(a) ==
  \/ a.key[1] = "email" /\ a.key[2] \in Clients \cap old
  \/ a.key[1] = "thread" /\ a.key[2] \in Addressed \cap old
  \/ a.key[1] = "streak" /\ Cardinality(NewestNs(a.key[2])) >= Threshold

\* The gate lowers an alert, and never raises it.
LEMMA EmitCritical ==
  ASSUME NEW key, NEW severity \in Ranks, Emit(key, severity)
  PROVE  \A a \in alerts' : a.severity = "critical" =>
           a \in alerts \/ (a.key = key /\ severity = "critical")
  BY NoHigherIs DEF Emit, Ranks

LEMMA StepCriticals ==
  ASSUME TypeInv, CritInv, NEW j \in Jobs, Step(j)
  PROVE  \A a \in alerts' : a.severity = "critical" => a \in alerts \/ EarnedAlert(a)
<1>1. /\ Placed(j) /\ Holds(j) /\ Grounds(j)
  BY TypeFacts DEF CritInv
<1>2. CASE Triage(j)
  <2>1. verdict[j] \in Verdicts /\ (verdict[j].client <=> mail[j] \in Clients)
    BY <1>1, <1>2 DEF Triage, Holds, Grounds
  <2>2. PICK s : s = Severity(verdict[j], mail[j] \in old)
    OBVIOUS
  <2>3. s \in Ranks /\ (s = "critical" => verdict[j].client /\ mail[j] \in old)
    <3>1. PICK b \in BOOLEAN : b <=> mail[j] \in old
      OBVIOUS
    <3>2. b = (mail[j] \in old)
      BY <3>1, Zenon
    <3>3. s = Severity(verdict[j], b)
      BY <2>2, <3>2, Zenon
    <3>4. QED
      BY <2>1, <3>1, <3>3, SeverityIs
  <2>4. Emit(<<"email", mail[j]>>, s)
    BY <1>2, <2>2 DEF Triage, MailKey
  <2>5. ASSUME NEW a, a.key = <<"email", mail[j]>>, s = "critical" PROVE EarnedAlert(a)
    <3>1. a.key[1] = "email" /\ a.key[2] = mail[j]
      BY <2>5
    <3>2. QED
      BY <2>1, <2>3, <2>5, <3>1 DEF EarnedAlert
  <2>6. QED
    BY <2>3, <2>4, <2>5, EmitCritical
<1>3. CASE Chase(j)
  <2>1. PICK t : t = Head(todo[j])
    OBVIOUS
  <2>2. t \in old \cap Addressed
    BY <1>1, <1>3, <2>1 DEF Chase, Grounds
  <2>3. Emit(<<"thread", t>>, "critical") /\ "critical" \in Ranks
    BY <1>3, <2>1 DEF Chase, ThreadKey, Ranks
  <2>4. ASSUME NEW a, a.key = <<"thread", t>> PROVE EarnedAlert(a)
    <3>1. a.key[1] = "thread" /\ a.key[2] = t
      BY <2>4
    <3>2. QED
      BY <2>2, <3>1 DEF EarnedAlert
  <2>5. QED
    BY <2>3, <2>4, EmitCritical
<1>4. CASE Intervene(j)
  <2>1. PICK d : d = Head(todo[j])
    OBVIOUS
  <2>2. pc[j] = "intervene" /\ todo[j] \in Seq(ToSet(Dimensions)) /\ todo[j] # <<>>
    BY <1>1, <1>4 DEF Intervene, Placed, Holds
  <2>3. d \in ToSet(todo[j])
    BY <2>1, <2>2, ToSetHead
  <2>4. Cardinality(NewestNs(d)) >= Threshold
    BY <1>1, <2>2, <2>3, StreakCounts DEF Grounds
  <2>5. Emit(<<"streak", d>>, "critical") /\ "critical" \in Ranks
    BY <1>4, <2>1 DEF Intervene, Ranks
  <2>6. ASSUME NEW a, a.key = <<"streak", d>> PROVE EarnedAlert(a)
    <3>1. a.key[1] = "streak" /\ a.key[2] = d
      BY <2>6
    <3>2. QED
      BY <2>4, <3>1 DEF EarnedAlert
  <2>7. QED
    BY <2>5, <2>6, EmitCritical
<1>5. CASE Status(j) \/ Offer(j) \/ Digest(j)
  <2>1. \E key : \E s \in {"warn", "info"} : Emit(key, s)
    BY <1>5 DEF Status, Offer, Digest
  <2>2. QED
    BY <2>1, EmitCritical DEF Ranks
<1>6. CASE UNCHANGED alerts
  BY <1>6
<1>7. QED
  BY <1>2, <1>3, <1>4, <1>5, <1>6, StepFrame

\* What was earned stays earned.
LEMMA EarnedStays ==
  ASSUME load' = load, old \subseteq old', NEW a, EarnedAlert(a)
  PROVE  EarnedAlert(a)'
<1>1. CASE \/ a.key[1] = "email" /\ a.key[2] \in Clients \cap old
           \/ a.key[1] = "thread" /\ a.key[2] \in Addressed \cap old
  BY <1>1 DEF EarnedAlert
<1>2. CASE a.key[1] = "streak" /\ Cardinality(NewestNs(a.key[2])) >= Threshold
  BY <1>2 DEF EarnedAlert, NewestNs
<1>3. QED
  BY <1>1, <1>2 DEF EarnedAlert

LEMMA CriticalsAre ==
  CriticalsEarned <=> \A a \in alerts : a.severity = "critical" => EarnedAlert(a)
  BY DEF CriticalsEarned, EarnedAlert

LEMMA GroundsStep ==
  ASSUME TypeInv, CritInv, NEW j \in Jobs, Step(j)
  PROVE  /\ Grounds(j)'
         /\ \A m \in Posts : cache'[m] # NoVerdict => (cache'[m].client <=> m \in Clients)
<1>1. /\ Placed(j) /\ Holds(j) /\ Grounds(j) /\ DOMAIN pc = Jobs /\ LocalTypes
      /\ cache \in [Posts -> Verdicts \cup {NoVerdict}]
  BY TypeFacts DEF CritInv, TypeInv, StateTypes, Posts
<1>2. load' = load /\ old' = old
  BY StepAlone DEF Alone
<1>3. \A m \in Posts : cache[m] # NoVerdict => (cache[m].client <=> m \in Clients)
  BY DEF CritInv
<1>4. cache' = cache \/ Keep(j)
  BY StepFrame
<1>5. CASE Triaging(j)
  <2>1. mail' = mail /\ pc'[j] \in {"classify", "keep", "triage", "done"}
    BY <1>1, <1>5 DEF Triaging, Cached, Classify, Keep, Triage, Go, local
  <2>2. mail[j] \in Posts
    BY <1>1, <1>5 DEF Triaging, Cached, Classify, Keep, Triage, Placed, Holds
  <2>3. CASE Cached(j)
    <3>1. verdict'[j] = cache[mail[j]] /\ cache' = cache
      BY <1>1, <2>3 DEF Cached, LocalTypes, state
    <3>2. pc'[j] = IF cache[mail[j]] = NoVerdict THEN "classify" ELSE "triage"
      BY <1>1, <2>3 DEF Cached, Go
    <3>3. QED
      BY <1>3, <2>1, <2>2, <3>1, <3>2 DEF Grounds
  <2>4. CASE Classify(j)
    <3>1. PICK said \in Verdicts : verdict'[j] = Resolved(said, mail[j])
      BY <1>1, <2>4 DEF Classify, LocalTypes
    <3>2. cache' = cache /\ pc'[j] = "keep"
      BY <1>1, <2>4 DEF Classify, state, Go
    <3>3. verdict'[j].client <=> mail'[j] \in Clients
      BY <2>1, <3>1, ResolvedType
    <3>4. QED
      BY <1>3, <3>2, <3>3 DEF Grounds
  <2>5. CASE Keep(j)
    <3>1. cache' = [cache EXCEPT ![mail[j]] = verdict[j]] /\ verdict' = verdict
      BY <2>5 DEF Keep, local
    <3>2. verdict[j].client <=> mail[j] \in Clients
      BY <1>1, <2>5 DEF Keep, Grounds
    <3>3. \A m \in Posts : cache'[m] # NoVerdict => (cache'[m].client <=> m \in Clients)
      <4> SUFFICES ASSUME NEW m \in Posts, cache'[m] # NoVerdict
                   PROVE  cache'[m].client <=> m \in Clients
        OBVIOUS
      <4>1. CASE m = mail[j]
        <5>1. cache'[m] = verdict[j]
          BY <1>1, <2>2, <3>1, <4>1
        <5>2. QED
          BY <3>2, <4>1, <5>1
      <4>2. CASE m # mail[j]
        <5>1. cache'[m] = cache[m]
          BY <1>1, <3>1, <4>2
        <5>2. QED
          BY <1>3, <5>1
      <4>3. QED
        BY <4>1, <4>2
    <3>4. QED
      BY <2>1, <3>1, <3>2, <3>3 DEF Grounds
  <2>6. CASE Triage(j)
    BY <1>1, <1>3, <2>1, <2>6 DEF Triage, Go, state, Grounds
  <2>7. QED
    BY <1>5, <2>3, <2>4, <2>5, <2>6 DEF Triaging
<1>6. CASE Check(j)
  <2>1. CASE pc'[j] = "chase" /\ Due(Head(todo[j])) /\ todo' = todo
    BY <1>2, <1>3, <1>4, <1>6, <2>1 DEF Grounds, Due, Check, Keep
  <2>2. CASE pc'[j] \notin {"keep", "triage", "chase", "intervene"}
    BY <1>3, <1>4, <1>6, <2>2 DEF Grounds, Check, Keep
  <2>3. Kind(j) = "scan" /\ todo[j] # <<>>
    BY <1>1, <1>6 DEF Check, Placed, Holds
  <2>4. /\ todo[j] \in Seq(Correspondents) /\ kept[j] \in Seq(Correspondents)
        /\ copy[j] \in Seq(Correspondents)
    BY <1>1, <2>3 DEF Holds, Followers
  <2>5. PICK t : t = Head(todo[j])
    OBVIOUS
  <2>6. t \in Correspondents /\ Append(kept[j], t) \in Seq(Correspondents)
    BY <2>3, <2>4, <2>5, ToSetHead
  <2>7. \/ \E keep \in {kept[j], Append(kept[j], t)} : Onward(j, keep)
        \/ pc'[j] = "chase" /\ Due(t) /\ todo' = todo
    BY <1>1, <1>6, <2>5 DEF Check, KeptBlind, Go
  <2>8. (\E keep \in {kept[j], Append(kept[j], t)} : Onward(j, keep))
          => pc'[j] \in {"check", "write", "done"}
    BY <2>3, <2>4, <2>6, OnwardGoes
  <2>9. QED
    BY <2>1, <2>2, <2>5, <2>7, <2>8
<1>7. CASE Chase(j)
  <2>1. Kind(j) = "scan" /\ todo[j] # <<>>
    BY <1>1, <1>7 DEF Chase, Placed, Holds
  <2>2. /\ todo[j] \in Seq(Correspondents) /\ kept[j] \in Seq(Correspondents)
        /\ copy[j] \in Seq(Correspondents)
    BY <1>1, <2>1 DEF Holds, Followers
  <2>3. Onward(j, Append(kept[j], Head(todo[j])))
    BY <1>7 DEF Chase
  <2>4. Append(kept[j], Head(todo[j])) \in Seq(Correspondents)
    BY <2>1, <2>2, ToSetHead
  <2>5. pc'[j] \in {"check", "write", "done"}
    BY <2>1, <2>2, <2>3, <2>4, OnwardGoes
  <2>6. QED
    BY <1>3, <1>4, <1>7, <2>5 DEF Grounds, Chase, Keep
<1>8. CASE Streaks(j)
  <2>1. PICK D : D = {d \in ToSet(Dimensions) : Streak(ByDay(load.journal), d) >= Threshold}
    OBVIOUS
  <2>2. todo'[j] = Sift(Dimensions, D)
    BY <1>1, <1>8, <2>1, Zenon DEF Streaks, LocalTypes
  <2>3. Dimensions \in Seq(ToSet(Dimensions))
    BY LoopAssumption, ToSetType
  <2>4. ToSet(todo'[j]) \subseteq D
    BY <2>2, <2>3, SiftSet
  <2>5. pc'[j] \in {"status", "intervene"} /\ cache' = cache
    BY <1>1, <1>8 DEF Streaks, Go, state
  <2>6. \A d \in ToSet(todo'[j]) : Streak(ByDay(load'.journal), d) >= Threshold
    BY <1>2, <2>1, <2>4
  <2>7. QED
    BY <1>3, <2>5, <2>6 DEF Grounds
<1>9. CASE Intervene(j)
  <2>1. todo'[j] = Tail(todo[j]) /\ pc'[j] \in {"intervene", "write"} /\ cache' = cache
    BY <1>1, <1>9 DEF Intervene, LocalTypes, Go
  <2>2. todo[j] \in Seq(ToSet(Dimensions)) /\ todo[j] # <<>>
    BY <1>1, <1>9 DEF Intervene, Placed, Holds
  <2>3. ToSet(todo'[j]) \subseteq ToSet(todo[j])
    BY <2>1, <2>2, ToSetHead
  <2>4. QED
    BY <1>1, <1>2, <1>3, <1>9, <2>1, <2>3 DEF Grounds, Intervene
<1>10. CASE Read(j) \/ Write(j) \/ Mailing(j) \/ AppendThread(j) \/ Journal(j) \/ Status(j) \/ Handling(j)
  <2>1. pc'[j] \notin {"keep", "triage", "chase", "intervene"}
    <3>1. CASE Read(j)
      <4>1. pc'[j] = AfterRead(j, Agenda(j, rows[ListOf(j)])) /\ Kind(j) \in Listers
        BY <1>1, <3>1 DEF Read, Go, Placed
      <4>2. QED
        BY <4>1, AfterReadIs DEF Listers
    <3>2. CASE ~ Read(j)
      BY <1>1, <1>10, <3>2, AfterStepIs
         DEF Write, Mailing, List, History, Enqueue, AppendThread, Journal, Status, Handling,
             Gather, Digest, Go, Compose, DailyBriefing, PortfolioWatcher, ExpenseAuditor,
             TaxHelper, RelationshipMaintenance, TravelPlanner
    <3>3. QED
      BY <3>1, <3>2
  <2>2. cache' = cache
    BY <1>10 DEF Read, Write, Mailing, List, History, Enqueue, AppendThread, Journal, Status,
                 Handling, Gather, Digest, state
  <2>3. QED
    BY <1>3, <2>1, <2>2 DEF Grounds
<1>11. CASE Watching(j)
  <2>1. pc'[j] \notin {"keep", "triage", "chase", "intervene"}
    <3>1. Placed(j)' /\ Kind(j)' = Kind(j)
      BY <1>2, StepTyped DEF Kind
    <3>2. Kind(j) = "funded"
      BY <1>1, <1>11 DEF Watching, Article, Offer, Placed
    <3>3. QED
      BY <3>1, <3>2 DEF Placed
  <2>2. cache' = cache
    BY <1>11 DEF Watching, Article, Offer, state
  <2>3. QED
    BY <1>3, <2>1, <2>2 DEF Grounds
<1>12. QED
  BY <1>5, <1>6, <1>7, <1>8, <1>9, <1>10, <1>11 DEF Step, Following, Guarding

LEMMA CritKept ==
  ASSUME TypeInv, CritInv, [Next]_vars
  PROVE  CritInv'
<1>1. /\ \A a \in alerts : a.severity = "critical" => EarnedAlert(a)
      /\ \A m \in Posts : cache[m] # NoVerdict => (cache[m].client <=> m \in Clients)
      /\ \A i \in Jobs : Grounds(i)
  BY CriticalsAre DEF CritInv
<1>2. SUFFICES /\ \A a \in alerts' : a.severity = "critical" => EarnedAlert(a)'
               /\ \A m \in Posts' : cache'[m] # NoVerdict => (cache'[m].client <=> m \in Clients)
               /\ \A i \in Jobs : Grounds(i)'
  BY DEF CritInv, CriticalsEarned, EarnedAlert
<1>3. CASE alerts' = alerts /\ load' = load /\ cache' = cache /\ old \subseteq old'
           /\ \A i \in Jobs : Grounds(i)'
  BY <1>1, <1>3, EarnedStays DEF Posts
<1>4. ASSUME NEW j \in Jobs, Step(j)
      PROVE  /\ \A a \in alerts' : a.severity = "critical" => EarnedAlert(a)'
             /\ \A m \in Posts' : cache'[m] # NoVerdict => (cache'[m].client <=> m \in Clients)
             /\ \A i \in Jobs : Grounds(i)'
  <2>1. load' = load /\ old' = old /\ \A i \in Jobs \ {j} : Still(i)
    BY <1>4, StepAlone DEF Alone
  <2>2. \A a \in alerts' : a.severity = "critical" => EarnedAlert(a)'
    BY <1>1, <1>4, <2>1, StepCriticals, EarnedStays
  <2>3. ASSUME NEW i \in Jobs \ {j} PROVE Grounds(i)'
    BY <1>1, <2>1 DEF Grounds, Still
  <2>4. QED
    BY <1>4, <2>1, <2>2, <2>3, GroundsStep DEF Posts
<1>5. ASSUME NEW j \in Jobs, Fire(j) PROVE \A i \in Jobs : Grounds(i)'
  <2>1. /\ load' = load /\ old' = old /\ verdict' = verdict /\ todo' = todo
        /\ \A i \in Jobs \ {j} : Still(i)
    BY <1>5, FireAlone DEF Alone, Fire, Webhook, FileChange, Cron, Dispatch, Open
  <2>2. pc'[j] \notin {"keep", "triage", "chase", "intervene"}
    <3>1. Kind(j) \in Kinds \ {"absent"} /\ pc'[j] = Opening(j)
      BY <1>5, KindsApart, TypeFacts
         DEF Fire, Webhook, FileChange, Cron, Dispatch, Open, Go
    <3>2. QED
      BY <3>1, OpeningPlaced
  <2>3. QED
    BY <1>1, <2>1, <2>2 DEF Grounds, Still
<1>6. ASSUME Elsewhere PROVE \A i \in Jobs : Grounds(i)'
  <2>1. /\ load' = load /\ old \subseteq old' /\ verdict' = verdict /\ todo' = todo /\ mail' = mail
    BY <1>6 DEF Elsewhere, Break, Restart, Arrive, Lapse, Age, Reply, Vanish, Midnight, local
  <2>2. ASSUME NEW i \in Jobs
        PROVE  pc'[i] = pc[i] \/ pc'[i] \notin {"keep", "triage", "chase", "intervene"}
    <3>1. CASE Restart
      BY <3>1, RestartMoves, OpeningPlaced
    <3>2. CASE ~ Restart
      <4>1. DOMAIN pc = Jobs
        BY TypeFacts DEF TypeInv, StateTypes
      <4>2. QED
        BY <1>6, <3>2, <4>1 DEF Elsewhere, Break, Arrive, Lapse, Age, Reply, Vanish, Midnight, Go
    <3>3. QED
      BY <3>1, <3>2
  <2>3. QED
    BY <1>1, <2>1, <2>2 DEF Grounds
<1>7. CASE \E j \in Jobs : Fire(j)
  <2>1. alerts' = alerts /\ load' = load /\ cache' = cache /\ old' = old
    BY <1>7, FireAlone
  <2>2. QED
    BY <1>3, <1>5, <1>7, <2>1
<1>8. CASE Elsewhere
  <2>1. alerts' = alerts /\ load' = load /\ cache' = cache /\ old \subseteq old'
    BY <1>8 DEF Elsewhere, Break, Restart, Arrive, Lapse, Age, Reply, Vanish, Midnight, state
  <2>2. QED
    BY <1>3, <1>6, <1>8, <2>1
<1>9. CASE UNCHANGED vars
  <2>1. \A i \in Jobs : Grounds(i)'
    BY <1>1, <1>9 DEF vars, local, world, Grounds
  <2>2. alerts' = alerts /\ load' = load /\ cache' = cache /\ old' = old
    BY <1>9 DEF vars, state, world
  <2>3. QED
    BY <1>3, <2>1, <2>2
<1>10. QED
  BY <1>4, <1>7, <1>8, <1>9, NextIs

LEMMA InitCrit ==
  ASSUME Init
  PROVE  CritInv
<1>1. load \in Loads
  BY DEF Init
<1>2. CriticalsEarned
  BY DEF Init, CriticalsEarned
<1>3. \A m \in Posts : cache[m] = NoVerdict
  BY DEF Init, Posts
<1>4. \A j \in Jobs : Grounds(j)
  BY DEF Init, Grounds
<1>5. QED
  BY <1>2, <1>3, <1>4 DEF CritInv

\* No critical alert without its reason: an old mail of a client, a thread of
\* five days that was sent to somebody, or a full streak up to the newest day of
\* the journal.
THEOREM CriticalsAreEarned == Spec => []CriticalsEarned
<1>1. Init => CritInv
  BY InitCrit
<1>2. TypeInv /\ CritInv /\ [Next]_vars => CritInv'
  BY CritKept
<1>3. CritInv => CriticalsEarned
  BY DEF CritInv
<1>4. QED
  BY <1>1, <1>2, <1>3, TypesHold, PTL DEF Spec

----
\* The lists of mails: positions, order, and the newest

\* Mails that arrive once have one position each.
LEMMA PosIs ==
  ASSUME NEW M, NEW q \in Seq(M), \A i, k \in DOMAIN q : q[i] = q[k] => i = k
  PROVE  /\ \A i \in 1 .. Len(q) : Pos(q, q[i]) = i
         /\ \A m \in ToSet(q) : Pos(q, m) \in 1 .. Len(q) /\ q[Pos(q, m)] = m
<1>1. DOMAIN q = 1 .. Len(q)
  OBVIOUS
<1>2. ASSUME NEW m \in ToSet(q) PROVE Pos(q, m) \in 1 .. Len(q) /\ q[Pos(q, m)] = m
  <2>1. \E i \in DOMAIN q : q[i] = m
    BY DEF ToSet
  <2>2. QED
    BY <1>1, <2>1, Zenon DEF Pos
<1>3. ASSUME NEW i \in 1 .. Len(q) PROVE Pos(q, q[i]) = i
  <2>1. q[i] \in ToSet(q)
    BY <1>1 DEF ToSet
  <2>2. QED
    BY <1>1, <1>2, <2>1
<1>4. QED
  BY <1>2, <1>3

\* Sifting keeps whatever holds between every element and the later ones.
LEMMA SiftOrder ==
  ASSUME NEW S, NEW s \in Seq(S), NEW T, NEW R,
         \A i, k \in 1 .. Len(s) : i < k => <<s[i], s[k]>> \in R
  PROVE  \A i, k \in 1 .. Len(Sift(s, T)) :
           i < k => <<Sift(s, T)[i], Sift(s, T)[k]>> \in R
<1>1. PICK f : Sifting(f, S, s, T)
  BY SiftSteps
<1>2. /\ f \in [0 .. Len(s) -> Seq(S \cap T)] /\ f[0] = <<>>
      /\ \A n \in 1 .. Len(s) :
           f[n] = IF s[n] \in T THEN Append(f[n - 1], s[n]) ELSE f[n - 1]
      /\ Sift(s, T) = f[Len(s)]
  BY <1>1 DEF Sifting
<1> DEFINE N == Len(s)
           Good(n) == /\ \A i, k \in 1 .. Len(f[n]) : i < k => <<f[n][i], f[n][k]>> \in R
                      /\ \A i \in 1 .. Len(f[n]) : \E a \in 1 .. n : f[n][i] = s[a]
           U == {n \in 0 .. N : Good(n)}
<1>3. N \in Nat
  OBVIOUS
<1>4. 0 \in U
  <2>1. Len(f[0]) = 0
    BY <1>2
  <2>2. QED
    BY <1>3, <2>1
<1>5. ASSUME NEW n \in 0 .. N, n \in U, n < N
      PROVE  n + 1 \in U
  <2>1. n + 1 \in 1 .. N /\ n + 1 \in 0 .. N /\ (n + 1) - 1 = n
    BY <1>3, <1>5
  <2>2. f[n + 1] = IF s[n + 1] \in T THEN Append(f[n], s[n + 1]) ELSE f[n]
    BY <1>2, <2>1
  <2>3. PICK g : g = f[n]
    OBVIOUS
  <2>4. g \in Seq(S \cap T) /\ Len(g) \in Nat
    BY <1>2, <2>3
  <2>5. /\ \A i, k \in 1 .. Len(g) : i < k => <<g[i], g[k]>> \in R
        /\ \A i \in 1 .. Len(g) : \E a \in 1 .. n : g[i] = s[a]
    BY <1>5, <2>3
  <2>6. PICK h : h = f[n + 1]
    OBVIOUS
  <2>7. CASE s[n + 1] \in T
    <3>1. h = Append(g, s[n + 1])
      BY <2>2, <2>3, <2>6, <2>7
    <3>2. /\ Len(h) = Len(g) + 1 /\ h[Len(g) + 1] = s[n + 1]
          /\ \A i \in 1 .. Len(g) : h[i] = g[i]
      BY <2>4, <3>1
    <3>3. ASSUME NEW i \in 1 .. Len(h), NEW k \in 1 .. Len(h), i < k
          PROVE  <<h[i], h[k]>> \in R
      <4>1. i \in 1 .. Len(g)
        BY <2>4, <3>2, <3>3
      <4>2. CASE k \in 1 .. Len(g)
        BY <2>5, <3>2, <3>3, <4>1, <4>2
      <4>3. CASE k = Len(g) + 1
        <5>1. PICK a \in 1 .. n : g[i] = s[a]
          BY <2>5, <4>1
        <5>2. a \in 1 .. N /\ a < n + 1
          BY <1>3, <1>5
        <5>3. <<s[a], s[n + 1]>> \in R
          BY <2>1, <5>2
        <5>4. h[i] = s[a] /\ h[k] = s[n + 1]
          BY <3>2, <4>1, <4>3, <5>1
        <5>5. QED
          BY <5>3, <5>4
      <4>4. QED
        BY <2>4, <3>2, <4>2, <4>3
    <3>4. ASSUME NEW i \in 1 .. Len(h) PROVE \E a \in 1 .. n + 1 : h[i] = s[a]
      <4>1. CASE i \in 1 .. Len(g)
        <5>1. PICK a \in 1 .. n : g[i] = s[a]
          BY <2>5, <4>1
        <5>2. a \in 1 .. n + 1
          BY <1>3, <1>5
        <5>3. QED
          BY <3>2, <4>1, <5>1, <5>2
      <4>2. CASE i = Len(g) + 1
        <5>1. n + 1 \in 1 .. n + 1
          BY <1>3, <1>5
        <5>2. QED
          BY <3>2, <4>2, <5>1
      <4>3. QED
        BY <2>4, <3>2, <4>1, <4>2
    <3>5. QED
      BY <2>1, <2>6, <3>3, <3>4
  <2>8. CASE s[n + 1] \notin T
    <3>1. h = g
      BY <2>2, <2>3, <2>6, <2>8
    <3>2. \A i \in 1 .. Len(h) : \E a \in 1 .. n + 1 : h[i] = s[a]
      <4>1. \A a \in 1 .. n : a \in 1 .. n + 1
        BY <1>3, <1>5
      <4>2. QED
        BY <2>5, <3>1, <4>1
    <3>3. QED
      BY <2>1, <2>5, <2>6, <3>1, <3>2
  <2>9. QED
    BY <2>7, <2>8
<1> HIDE DEF U, N
<1>6. 0 .. N \subseteq U
  BY <1>3, <1>4, <1>5, RangeSetInduction
<1>7. N \in U
  BY <1>3, <1>6
<1>8. QED
  BY <1>2, <1>7 DEF U, N

\* Each of a descending list is older by one at least than the one before.
LEMMA DescendsBy ==
  ASSUME NEW M, NEW q \in Seq(M), \A i, k \in DOMAIN q : q[i] = q[k] => i = k,
         NEW s \in Seq(ToSet(q)), Descends(q, s)
  PROVE  \A i \in 1 .. Len(s) :
           Pos(q, s[i]) \in 1 .. Len(q) /\ Pos(q, s[i]) <= Pos(q, s[1]) - (i - 1)
<1> DEFINE N == Len(s)
           P(i) == Pos(q, s[i])
           U == {n \in 0 .. N : n = 0 \/ P(n) <= P(1) - (n - 1)}
<1>1. N \in Nat /\ Len(q) \in Nat
  OBVIOUS
<1>2. \A i \in 1 .. N : P(i) \in 1 .. Len(q)
  BY PosIs
<1>3. 0 \in U
  BY <1>1
<1>4. ASSUME NEW n \in 0 .. N, n \in U, n < N PROVE n + 1 \in U
  <2>1. n + 1 \in 1 .. N /\ n + 1 \in 0 .. N /\ 1 \in 1 .. N
    BY <1>1, <1>4
  <2>2. CASE n = 0
    <3>1. P(n + 1) = P(1) /\ P(1) \in Int
      BY <1>1, <1>2, <2>1, <2>2
    <3>2. P(n + 1) <= P(1) - ((n + 1) - 1)
      BY <2>2, <3>1
    <3>3. QED
      BY <2>1, <3>2
  <2>3. CASE n # 0
    <3>1. n \in 1 .. N /\ n < n + 1
      BY <1>1, <1>4, <2>3
    <3>2. P(n) > P(n + 1)
      BY <2>1, <3>1 DEF Descends
    <3>3. P(n) <= P(1) - (n - 1)
      BY <1>4, <2>3
    <3>4. P(n) \in Int /\ P(n + 1) \in Int /\ P(1) \in Int
      BY <1>1, <1>2, <2>1, <3>1
    <3> HIDE DEF P
    <3>5. P(n + 1) <= P(1) - ((n + 1) - 1)
      BY <3>2, <3>3, <3>4
    <3>6. QED
      BY <2>1, <3>5
  <2>4. QED
    BY <2>2, <2>3
<1> HIDE DEF U, N
<1>5. 0 .. N \subseteq U
  BY <1>1, <1>3, <1>4, RangeSetInduction
<1>6. ASSUME NEW i \in 1 .. N PROVE P(i) <= P(1) - (i - 1)
  <2>1. i \in 0 .. N /\ i # 0
    BY <1>1
  <2>2. QED
    BY <1>5, <2>1 DEF U
<1>7. QED
  BY <1>2, <1>6 DEF N

\* The poll's window is not shorter than what Gmail lists: what is cut off has
\* left the newest Limit.
LEMMA NewestCut ==
  ASSUME NEW M, NEW q \in Seq(M), \A i, k \in DOMAIN q : q[i] = q[k] => i = k,
         NEW n, NEW u \in Seq(ToSet(q)), Newest(q, n, u),
         NEW r \in Seq(ToSet(q)), Len(r) = IF Len(u) < Window THEN Len(u) ELSE Window,
         \A i \in 1 .. Len(r) : r[i] = u[i]
  PROVE  /\ Newest(q, n, r)
         /\ u # <<>> => r # <<>> /\ r[1] = u[1]
         /\ r # <<>> => u # <<>>
<1>1. /\ Len(u) \in Nat /\ Len(r) \in Nat /\ Len(r) <= Len(u)
      /\ Limit \in Nat /\ Limit >= 1 /\ Window \in Nat /\ Window >= Limit
  BY LoopAssumption
<1>2. (u = <<>> <=> Len(u) = 0) /\ (r = <<>> <=> Len(r) = 0)
  OBVIOUS
<1>3. (u # <<>> => r # <<>> /\ r[1] = u[1]) /\ (r # <<>> => u # <<>>)
  BY <1>1, <1>2
<1>4. Descends(q, u) /\ Descends(q, r)
  BY <1>1 DEF Newest, Descends
<1>5. ASSUME r # <<>>, NEW p \in 1 .. Len(q), Pos(q, r[1]) - Limit < p, p <= Pos(q, r[1])
      PROVE  q[p] \in ToSet(r)
  <2>1. u # <<>> /\ r[1] = u[1] /\ 1 \in 1 .. Len(u)
    BY <1>1, <1>2, <1>3, <1>5
  <2>2. q[p] \in ToSet(u)
    BY <1>5, <2>1 DEF Newest
  <2>3. PICK i \in 1 .. Len(u) : u[i] = q[p]
    BY <2>2, ToSetType
  <2>4. Pos(q, u[i]) = p
    BY <2>3, PosIs
  <2>5. /\ Pos(q, u[i]) \in 1 .. Len(q) /\ Pos(q, u[i]) <= Pos(q, u[1]) - (i - 1)
        /\ Pos(q, u[1]) \in 1 .. Len(q)
    BY <1>4, <2>1, DescendsBy
  <2>6. Len(q) \in Nat
    OBVIOUS
  <2>7. i <= Limit
    BY <1>1, <1>5, <2>1, <2>4, <2>5, <2>6
  <2>8. i \in 1 .. Len(r)
    BY <1>1, <2>7
  <2>9. r[i] = q[p]
    BY <2>3, <2>8
  <2>10. QED
    BY <2>8, <2>9, ToSetType
<1>6. r # <<>> => Pos(q, r[1]) <= n
  BY <1>3 DEF Newest
<1>7. QED
  BY <1>3, <1>4, <1>5, <1>6 DEF Newest

\* The Limit newest of the first n of q, newest first.
Listed(q, n, lst) ==
  /\ q \in Seq(ToSet(q)) /\ \A i, k \in DOMAIN q : q[i] = q[k] => i = k
  /\ n \in Nat /\ n <= Len(q)
  /\ lst \in Seq(ToSet(q)) /\ Len(lst) = IF n < Limit THEN n ELSE Limit
  /\ \A i \in 1 .. Len(lst) : lst[i] = q[n + 1 - i]

\* What is sifted from the list is in its order.
LEMMA ListDescends ==
  ASSUME NEW q, NEW n, NEW lst, Listed(q, n, lst), NEW T
  PROVE  Descends(q, Sift(lst, T))
<1> DEFINE R == {x \in ToSet(q) \X ToSet(q) : Pos(q, x[1]) > Pos(q, x[2])}
<1>1. /\ q \in Seq(ToSet(q)) /\ \A i, k \in DOMAIN q : q[i] = q[k] => i = k
      /\ n \in Nat /\ n <= Len(q) /\ Len(q) \in Nat
      /\ lst \in Seq(ToSet(q)) /\ Len(lst) \in Nat /\ Len(lst) <= n
      /\ \A i \in 1 .. Len(lst) : lst[i] = q[n + 1 - i]
  BY LoopAssumption DEF Listed
<1>2. ASSUME NEW i \in 1 .. Len(lst) PROVE Pos(q, lst[i]) = n + 1 - i
  <2>1. n + 1 - i \in 1 .. Len(q)
    BY <1>1
  <2>2. QED
    BY <1>1, <2>1, PosIs
<1>3. \A i, k \in 1 .. Len(lst) : i < k => <<lst[i], lst[k]>> \in R
  <2> SUFFICES ASSUME NEW i \in 1 .. Len(lst), NEW k \in 1 .. Len(lst), i < k
               PROVE <<lst[i], lst[k]>> \in R
    OBVIOUS
  <2>1. lst[i] \in ToSet(q) /\ lst[k] \in ToSet(q)
    BY <1>1
  <2>2. Pos(q, lst[i]) > Pos(q, lst[k])
    BY <1>1, <1>2
  <2>3. QED
    BY <2>1, <2>2
<1>4. \A x, y : <<x, y>> \in R => Pos(q, x) > Pos(q, y)
  OBVIOUS
<1> HIDE DEF R
<1>5. PICK u : u = Sift(lst, T)
  OBVIOUS
<1>6. \A i, k \in 1 .. Len(u) : i < k => <<u[i], u[k]>> \in R
  BY <1>1, <1>3, <1>5, SiftOrder
<1>7. Descends(q, u)
  BY <1>4, <1>6 DEF Descends
<1>8. QED
  BY <1>5, <1>7

\* What is listed and not remembered is newer than all that is, and nothing of
\* the newest Limit is left out.
LEMMA NewsNewest ==
  ASSUME NEW q, NEW n, NEW lst, Listed(q, n, lst), NEW s \in Seq(ToSet(q)), Newest(q, n, s),
         NEW news \in Seq(ToSet(q)), news # <<>>,
         ToSet(news) = ToSet(lst) \ ToSet(s), Descends(q, news)
  PROVE  /\ Newest(q, n, news \o s)
         /\ \A B : Covered(q, s, B) => ToSet(news) \cap B = {} /\ Covered(q, news, B)
<1>1. /\ q \in Seq(ToSet(q)) /\ \A i, k \in DOMAIN q : q[i] = q[k] => i = k
      /\ n \in Nat /\ n <= Len(q)
      /\ lst \in Seq(ToSet(q)) /\ Len(lst) = IF n < Limit THEN n ELSE Limit
      /\ \A i \in 1 .. Len(lst) : lst[i] = q[n + 1 - i]
  BY DEF Listed
<1> SUFFICES ASSUME q \in Seq(ToSet(q)), \A i, k \in DOMAIN q : q[i] = q[k] => i = k,
                    n \in Nat, n <= Len(q),
                    lst \in Seq(ToSet(q)), Len(lst) = IF n < Limit THEN n ELSE Limit,
                    \A i \in 1 .. Len(lst) : lst[i] = q[n + 1 - i]
             PROVE  /\ Newest(q, n, news \o s)
                    /\ \A B : Covered(q, s, B) => ToSet(news) \cap B = {} /\ Covered(q, news, B)
  BY <1>1
<1>2. /\ Limit \in Nat /\ Limit >= 1 /\ Len(q) \in Nat /\ Len(lst) \in Nat /\ Len(s) \in Nat
  BY LoopAssumption
<1>3. ToSet(news) = ToSet(lst) \ ToSet(s)
  OBVIOUS
<1>4. news \in Seq(ToSet(q))
  OBVIOUS
<1>5. /\ \A x \in ToSet(news) : \E i \in 1 .. Len(news) : news[i] = x
      /\ \A i \in 1 .. Len(news) : news[i] \in ToSet(news)
      /\ ToSet(news) \subseteq ToSet(q)
  BY <1>4, ToSetType
<1>6. 1 \in 1 .. Len(news) /\ news[1] \in ToSet(news) /\ Len(news) \in Nat
  <2>1. 1 \in 1 .. Len(news) /\ Len(news) \in Nat
    BY <1>4
  <2>2. QED
    BY <2>1, <1>5
<1>7. ASSUME NEW i \in 1 .. Len(lst)
      PROVE  n + 1 - i \in 1 .. Len(q) /\ Pos(q, lst[i]) = n + 1 - i
  <2>1. n + 1 - i \in 1 .. Len(q)
    BY <1>2
  <2>2. QED
    BY <2>1, PosIs
<1>8. \A m \in ToSet(lst) : Pos(q, m) \in 1 .. n /\ Pos(q, m) > n - Limit
  <2> SUFFICES ASSUME NEW m \in ToSet(lst) PROVE Pos(q, m) \in 1 .. n /\ Pos(q, m) > n - Limit
    OBVIOUS
  <2>1. PICK i \in 1 .. Len(lst) : lst[i] = m
    BY ToSetType
  <2>2. Pos(q, m) = n + 1 - i
    BY <1>7, <2>1
  <2>3. QED
    BY <1>2, <2>2
<1>9. ASSUME NEW p \in 1 .. n, p > n - Limit PROVE q[p] \in ToSet(lst)
  <2>1. PICK i \in 1 .. Len(lst) : n + 1 - i = p
    <3>1. n + 1 - p \in 1 .. Len(lst) /\ n + 1 - (n + 1 - p) = p
      BY <1>2, <1>9
    <3>2. QED
      BY <3>1
  <2>2. lst[i] = q[p]
    BY <2>1
  <2>3. QED
    BY <2>1, <2>2, ToSetType
<1>10. Descends(q, s) /\ Descends(q, news)
  BY DEF Newest
<1>11. \A i \in 1 .. Len(s) : Pos(q, s[i]) \in 1 .. Len(q) /\ Pos(q, s[i]) <= Pos(q, s[1])
  <2> SUFFICES ASSUME NEW i \in 1 .. Len(s)
               PROVE  Pos(q, s[i]) \in 1 .. Len(q) /\ Pos(q, s[i]) <= Pos(q, s[1])
    OBVIOUS
  <2>1. 1 \in 1 .. Len(s)
    BY <1>2
  <2>2. Pos(q, s[1]) \in 1 .. Len(q)
    BY <1>10, <2>1, DescendsBy
  <2>3. Pos(q, s[i]) \in 1 .. Len(q) /\ Pos(q, s[i]) <= Pos(q, s[1]) - (i - 1)
    BY <1>10, DescendsBy
  <2>4. QED
    BY <1>2, <2>2, <2>3
<1>12. \A i \in 1 .. Len(news) : Pos(q, news[i]) \in 1 .. n /\ Pos(q, news[i]) <= Pos(q, news[1])
  <2> SUFFICES ASSUME NEW i \in 1 .. Len(news)
               PROVE  Pos(q, news[i]) \in 1 .. n /\ Pos(q, news[i]) <= Pos(q, news[1])
    OBVIOUS
  <2>1. 1 \in 1 .. Len(news) /\ Len(news) \in Nat
    BY <1>6
  <2>2. news[i] \in ToSet(lst) /\ news[1] \in ToSet(lst)
    BY <1>3, <1>6, <1>5
  <2>3. Pos(q, news[i]) \in 1 .. n /\ Pos(q, news[1]) \in 1 .. n
    BY <1>8, <2>2
  <2>4. Pos(q, news[i]) <= Pos(q, news[1]) - (i - 1)
    BY <1>10, <1>4, DescendsBy
  <2>5. QED
    BY <1>2, <2>1, <2>3, <2>4
<1>13. ASSUME s # <<>>, NEW m \in ToSet(news) PROVE Pos(q, m) > Pos(q, s[1])
  <2>1. m \in ToSet(lst) /\ m \notin ToSet(s) /\ m \in ToSet(q)
    BY <1>3, <1>13, <1>5
  <2>2. Pos(q, m) \in 1 .. n /\ Pos(q, m) > n - Limit /\ q[Pos(q, m)] = m
    BY <1>8, <2>1, PosIs
  <2>3. 1 \in 1 .. Len(s)
    BY <1>2, <1>13
  <2>4. Pos(q, s[1]) <= n /\ Pos(q, s[1]) \in 1 .. Len(q)
    BY <1>11, <1>13, <2>3 DEF Newest
  <2>5. SUFFICES ASSUME Pos(q, m) <= Pos(q, s[1]) PROVE FALSE
    BY <2>2, <2>4
  <2>6. Pos(q, m) \in 1 .. Len(q) /\ Pos(q, s[1]) - Limit < Pos(q, m)
    BY <1>2, <2>2, <2>4
  <2>7. q[Pos(q, m)] \in ToSet(s)
    BY <1>13, <2>5, <2>6 DEF Newest
  <2>8. QED
    BY <2>1, <2>2, <2>7
<1>14. Pos(q, news[1]) = n
  <2>1. n \in 1 .. n /\ n > n - Limit
    <3>1. Pos(q, news[1]) \in 1 .. n
      BY <1>12, <1>6
    <3>2. QED
      BY <1>2, <3>1
  <2>2. q[n] \in ToSet(lst) /\ Pos(q, q[n]) = n
    BY <1>2, <1>9, <2>1, PosIs
  <2>3. q[n] \notin ToSet(s)
    <3> SUFFICES ASSUME q[n] \in ToSet(s) PROVE FALSE
      OBVIOUS
    <3>1. PICK i \in 1 .. Len(s) : s[i] = q[n]
      BY ToSetType
    <3>2. s # <<>> /\ 1 \in 1 .. Len(s)
      BY <1>2, <3>1
    <3>3. n <= Pos(q, s[1]) /\ Pos(q, s[1]) \in 1 .. Len(q)
      BY <1>11, <2>2, <3>1, <3>2
    <3>4. Pos(q, news[1]) > Pos(q, s[1]) /\ Pos(q, news[1]) \in 1 .. n
      BY <1>12, <1>13, <1>6, <3>2
    <3>5. QED
      BY <1>2, <3>3, <3>4
  <2>4. PICK i \in 1 .. Len(news) : news[i] = q[n]
    BY <1>3, <1>5, <2>2, <2>3
  <2>5. n <= Pos(q, news[1]) /\ Pos(q, news[1]) \in 1 .. n
    BY <1>12, <1>6, <2>2, <2>4
  <2>6. QED
    BY <2>5
<1>15. /\ ToSet(news \o s) = ToSet(news) \cup ToSet(s)
       /\ Len(news \o s) = Len(news) + Len(s)
       /\ \A i \in 1 .. Len(news) : (news \o s)[i] = news[i]
       /\ \A i \in 1 .. Len(s) : (news \o s)[Len(news) + i] = s[i]
  BY <1>4, ToSetConcat
<1>16. Descends(q, news \o s)
  <2> SUFFICES ASSUME NEW i \in 1 .. Len(news \o s), NEW k \in 1 .. Len(news \o s), i < k
               PROVE  Pos(q, (news \o s)[i]) > Pos(q, (news \o s)[k])
    BY DEF Descends
  <2>1. CASE k <= Len(news)
    <3>1. i \in 1 .. Len(news) /\ k \in 1 .. Len(news)
      BY <1>6, <1>15, <2>1
    <3>2. QED
      BY <1>10, <1>15, <3>1 DEF Descends
  <2>2. CASE i <= Len(news) /\ k > Len(news)
    <3>1. i \in 1 .. Len(news) /\ k - Len(news) \in 1 .. Len(s)
          /\ Len(news) + (k - Len(news)) = k
      BY <1>2, <1>6, <1>15, <2>2
    <3>2. (news \o s)[i] = news[i] /\ (news \o s)[k] = s[k - Len(news)]
      BY <1>15, <3>1
    <3>3. news[i] \in ToSet(news)
      BY <1>5, <3>1
    <3>4. s # <<>> /\ 1 \in 1 .. Len(s)
      BY <1>2, <3>1
    <3>5. /\ Pos(q, news[i]) > Pos(q, s[1]) /\ Pos(q, news[i]) \in 1 .. n
          /\ Pos(q, s[k - Len(news)]) <= Pos(q, s[1]) /\ Pos(q, s[k - Len(news)]) \in 1 .. Len(q)
          /\ Pos(q, s[1]) \in 1 .. Len(q)
      BY <1>11, <1>12, <1>13, <3>1, <3>3, <3>4
    <3>6. Pos(q, news[i]) > Pos(q, s[k - Len(news)])
      BY <1>2, <3>5
    <3>7. QED
      BY <3>2, <3>6
  <2>3. CASE i > Len(news)
    <3>1. /\ i - Len(news) \in 1 .. Len(s) /\ k - Len(news) \in 1 .. Len(s)
          /\ i - Len(news) < k - Len(news)
          /\ Len(news) + (k - Len(news)) = k /\ Len(news) + (i - Len(news)) = i
      BY <1>2, <1>6, <1>15, <2>3
    <3>2. (news \o s)[i] = s[i - Len(news)] /\ (news \o s)[k] = s[k - Len(news)]
      BY <1>15, <3>1
    <3>3. QED
      BY <1>10, <3>1, <3>2 DEF Descends
  <2>4. QED
    BY <1>6, <1>15, <2>1, <2>2, <2>3
<1>17. (news \o s)[1] = news[1]
  BY <1>6, <1>15
<1>18. Newest(q, n, news \o s)
  <2>1. ASSUME NEW p \in 1 .. Len(q), n - Limit < p, p <= n PROVE q[p] \in ToSet(news \o s)
    <3>1. q[p] \in ToSet(lst)
      BY <1>9, <2>1
    <3>2. QED
      BY <1>3, <1>15, <3>1
  <2>2. n <= n
    OBVIOUS
  <2>3. QED
    BY <1>14, <1>16, <1>17, <2>1, <2>2 DEF Newest
<1>19. ASSUME NEW B, Covered(q, s, B) PROVE ToSet(news) \cap B = {} /\ Covered(q, news, B)
  <2>1. ASSUME NEW m \in B
        PROVE  /\ m \in ToSet(q) /\ Pos(q, m) \in 1 .. Len(q) /\ s # <<>>
               /\ Pos(q, m) <= Pos(q, s[1]) /\ Pos(q, s[1]) \in 1 .. Len(q)
    <3>1. m \in ToSet(q) /\ s # <<>> /\ Pos(q, m) <= Pos(q, s[1])
      BY <1>19, <2>1 DEF Covered
    <3>2. 1 \in 1 .. Len(s)
      BY <1>2, <3>1
    <3>3. QED
      BY <1>11, <3>1, <3>2, PosIs
  <2>2. ASSUME NEW m \in B, m \in ToSet(news) PROVE FALSE
    <3>1. Pos(q, m) > Pos(q, s[1])
      BY <1>13, <2>1, <2>2
    <3>2. QED
      BY <1>2, <2>1, <2>2, <3>1
  <2>3. ASSUME NEW m \in B PROVE Pos(q, m) <= Pos(q, news[1])
    <3>1. Pos(q, news[1]) > Pos(q, s[1])
      BY <1>13, <1>6, <2>1, <2>3
    <3>2. /\ Pos(q, news[1]) \in 1 .. n /\ Pos(q, m) \in 1 .. Len(q)
          /\ Pos(q, m) <= Pos(q, s[1]) /\ Pos(q, s[1]) \in 1 .. Len(q)
      BY <1>12, <1>6, <2>1, <2>3
    <3>3. QED
      BY <1>2, <3>1, <3>2
  <2>4. QED
    BY <1>19, <2>2, <2>3 DEF Covered
<1>20. QED
  BY <1>18, <1>19

----
\* Nothing is forgotten, and nothing done twice

LEMMA MailFacts ==
  ASSUME TypeInv
  PROVE  /\ load.mails \in Seq(Posts) /\ Posts = ToSet(load.mails)
         /\ \A i, k \in DOMAIN load.mails : load.mails[i] = load.mails[k] => i = k
         /\ Len(mailbox) \in Nat /\ Len(mailbox) <= Len(load.mails)
         /\ gone = {} =>
              /\ Len(Latest) = IF Len(mailbox) < Limit THEN Len(mailbox) ELSE Limit
              /\ \A i \in 1 .. Len(Latest) : Latest[i] = load.mails[Len(mailbox) + 1 - i]
<1>1. load \in Loads /\ Arrived
  BY DEF TypeInv, StateTypes
<1>2. Len(mailbox) \in Nat
  BY <1>1 DEF Arrived
<1>3. ASSUME gone = {}
      PROVE  /\ Len(Latest) = IF Len(mailbox) < Limit THEN Len(mailbox) ELSE Limit
             /\ \A i \in 1 .. Len(Latest) : Latest[i] = load.mails[Len(mailbox) + 1 - i]
  <2>1. PICK box : box = mailbox /\ box = Found
    BY <1>3, FoundType
  <2>2. /\ Len(Latest) = IF Len(box) < Limit THEN Len(box) ELSE Limit
        /\ \A i \in 1 .. Len(Latest) :
             Latest[i] = box[Len(box) + 1 - i] /\ Len(box) + 1 - i \in 1 .. Len(box)
    BY <2>1, LatestType
  <2>3. QED
    BY <1>1, <2>1, <2>2 DEF Arrived
<1>4. QED
  BY <1>1, <1>2, <1>3, LoadFacts DEF Arrived, Posts

\* The steps of each kind of job that keeps a list.
LEMMA StepOf ==
  ASSUME TypeInv, NEW j \in Jobs, Step(j)
  PROVE  /\ Kind(j) = "poll" => Read(j) \/ List(j) \/ Enqueue(j) \/ Write(j)
         /\ Kind(j) = "outbound" => Read(j) \/ AppendThread(j) \/ Write(j)
         /\ Kind(j) = "scan" => Read(j) \/ Check(j) \/ Chase(j) \/ Write(j)
         /\ Kind(j) = "health" =>
              \/ Journal(j) \/ Read(j) \/ Streaks(j) \/ Intervene(j) \/ Status(j) \/ Write(j)
         /\ Kind(j) = "funded" => Read(j) \/ Article(j) \/ Offer(j) \/ Write(j)
<1>1. Placed(j)
  BY TypeFacts
<1>2. {"poll", "outbound", "scan", "health", "funded"} \cap Handlers = {}
  BY KindsApart DEF Mailers, Followers
<1>3. /\ List(j) => Kind(j) = "poll"
      /\ History(j) => Kind(j) = "gmail"
      /\ Enqueue(j) => Kind(j) \in Mailers
      /\ Triaging(j) => Kind(j) = "triage"
      /\ AppendThread(j) => Kind(j) = "outbound"
      /\ Check(j) \/ Chase(j) => Kind(j) = "scan"
      /\ Guarding(j) => Kind(j) = "health"
      /\ Watching(j) => Kind(j) = "funded"
      /\ Handling(j) => Kind(j) \in Handlers
  BY <1>1 DEF Placed, List, History, Enqueue, Triaging, Cached, Classify, Keep, Triage,
       AppendThread, Check, Chase, Guarding, Journal, Streaks, Intervene, Status, Watching,
       Article, Offer, Handling, Gather, Digest
<1>4. QED
  BY <1>2, <1>3 DEF Step, Mailing, Following, Guarding, Watching, Mailers

LEMMA PollStep ==
  ASSUME TypeInv, KeepInv, NEW j \in Jobs, Step(j), Kind(j) = "poll"
  PROVE  PollKeeps(j)'
<1> DEFINE q == load.mails
           n == Len(mailbox)
<1>1. /\ Holds(j) /\ LocalTypes /\ DOMAIN pc = Jobs /\ PollKeeps(j) /\ RowsKeep
  BY TypeFacts DEF KeepInv, Keeps
<1>2. load' = load /\ mailbox' = mailbox /\ gone' = gone
  BY StepAlone DEF Alone
<1>3. /\ q \in Seq(Posts) /\ Posts = ToSet(q)
      /\ \A i, k \in DOMAIN q : q[i] = q[k] => i = k
      /\ n \in Nat /\ n <= Len(q)
      /\ gone = {} => /\ Len(Latest) = IF n < Limit THEN n ELSE Limit
                      /\ \A i \in 1 .. Len(Latest) : Latest[i] = q[n + 1 - i]
  BY MailFacts
<1>4. copy[j] \in Seq(Posts) /\ todo[j] \in Seq(Posts) /\ kept[j] \in Seq(Posts)
  BY <1>1 DEF Holds, Mailers
<1>5. ListOf(j) = "poll"
  BY ListOfIs DEF Mailers
<1>6. CASE Read(j)
  <2>1. /\ copy'[j] = rows.poll /\ based'[j] = covers.poll /\ did'[j] = did[j]
        /\ pc'[j] = "list"
    BY <1>1, <1>5, <1>6, AfterReadIs DEF Read, LocalTypes, Go
  <2>2. did[j] = {}
    BY <1>1, <1>6 DEF PollKeeps, Read
  <2>3. (gone = {} => InOrder(j))'
    BY <1>1, <1>2, <2>1, <2>2 DEF InOrder, RowsKeep
  <2>4. QED
    BY <1>1, <1>2, <2>1, <2>2, <2>3 DEF PollKeeps, RowsKeep
<1>7. CASE List(j)
  <2>1. PICK news : news = News(Latest, copy[j])
    OBVIOUS
  <2>2. /\ todo'[j] = news /\ kept'[j] = news
        /\ copy' = copy /\ based' = based /\ did' = did
        /\ news = <<>> => pc'[j] = "done"
        /\ news # <<>> => pc'[j] = "enqueue"
    BY <1>1, <1>7, <2>1, AfterStepIs DEF List, LocalTypes, Go
  <2>3. did[j] = {}
    BY <1>1, <1>7 DEF PollKeeps, List
  <2>4. Latest \in Seq(Posts) /\ news = Sift(Latest, ToSet(Latest) \ ToSet(copy[j]))
    BY <2>1, LatestType DEF News
  <2>5. ToSet(news) = ToSet(Latest) \ ToSet(copy[j])
    <3>1. \A T : ToSet(Sift(Latest, T)) = ToSet(Latest) \cap T
      BY <2>4, SiftSet
    <3>2. QED
      BY <2>4, <3>1
  <2>6. CASE news = <<>>
    <3>1. (gone = {} => InOrder(j))'
      BY <1>1, <1>2, <2>2, <2>3, <2>6 DEF PollKeeps, InOrder
    <3>2. QED
      BY <1>1, <1>2, <2>2, <2>3, <2>6, <3>1 DEF PollKeeps
  <2>7. ASSUME news # <<>>, gone = {} PROVE InOrder(j)'
    <3>1. Latest \in Seq(Posts) /\ Len(Latest) = IF n < Limit THEN n ELSE Limit
      BY <1>3, <2>4, <2>7
    <3>2. Newest(q, n, copy[j]) /\ Covered(q, copy[j], based[j])
      BY <1>1, <2>7 DEF PollKeeps, InOrder
    <3>3. copy[j] \in Seq(ToSet(q)) /\ Latest \in Seq(ToSet(q))
      BY <1>3, <1>4, <3>1
    <3>4. Listed(q, n, Latest)
      BY <1>3, <2>7, <3>1, <3>3 DEF Listed
    <3> HIDE DEF q, n
    <3>5. news \in Seq(ToSet(q)) /\ Descends(q, news)
      BY <2>4, <3>3, <3>4, SiftIn, ListDescends
    <3>6. /\ Newest(q, n, news \o copy[j])
          /\ \A B : Covered(q, copy[j], B) => ToSet(news) \cap B = {} /\ Covered(q, news, B)
      BY <2>5, <2>7, <3>2, <3>3, <3>4, <3>5, NewsNewest
    <3>7. ToSet(news) \cap based[j] = {} /\ Covered(q, news, based[j])
      BY <3>2, <3>6
    <3> USE DEF q, n
    <3>8. QED
      BY <1>2, <2>2, <2>3, <2>7, <3>2, <3>6, <3>7 DEF InOrder
  <2>8. CASE news # <<>>
    BY <1>1, <1>2, <2>2, <2>3, <2>5, <2>7, <2>8 DEF PollKeeps
  <2>9. QED
    BY <2>6, <2>8
<1>8. CASE Enqueue(j)
  <2>1. todo[j] # <<>>
    BY <1>1, <1>8 DEF Holds, Enqueue
  <2>2. PICK m : m = Head(todo[j])
    OBVIOUS
  <2>3. /\ did'[j] = did[j] \cup {m} /\ todo'[j] = Tail(todo[j])
        /\ copy' = copy /\ kept' = kept /\ based' = based
    BY <1>1, <1>8, <2>2 DEF Enqueue, Acts, LocalTypes
  <2>4. pc'[j] \in {"enqueue", "write"}
    BY <1>1, <1>8, AfterStepIs DEF Enqueue, Go
  <2>5. ToSet(todo[j]) = {m} \cup ToSet(todo'[j])
    BY <1>4, <2>1, <2>2, <2>3, ToSetHead
  <2>6. pc[j] = "enqueue"
    BY <1>8 DEF Enqueue
  <2>7. (gone = {} => InOrder(j))'
    BY <1>1, <1>2, <2>3, <2>4, <2>5, <2>6 DEF PollKeeps, InOrder
  <2>8. QED
    BY <1>1, <1>2, <2>3, <2>4, <2>5, <2>6, <2>7 DEF PollKeeps
<1>9. CASE Write(j)
  <2>1. UNCHANGED local /\ pc'[j] = "done"
    BY <1>1, <1>9, AfterStepIs DEF Write, Go
  <2>2. QED
    BY <1>1, <1>2, <2>1 DEF PollKeeps, InOrder, local
<1>10. QED
  BY <1>6, <1>7, <1>8, <1>9, StepOf

LEMMA OutboundStep ==
  ASSUME TypeInv, KeepInv, NEW j \in Jobs, Step(j), Kind(j) = "outbound"
  PROVE  OutboundKeeps(j)'
<1>1. /\ Holds(j) /\ LocalTypes /\ DOMAIN pc = Jobs /\ OutboundKeeps(j) /\ RowsKeep
  BY TypeFacts DEF KeepInv, Keeps
<1>2. load' = load
  BY StepAlone DEF Alone
<1>3. ListOf(j) = "followup"
  BY ListOfIs DEF Followers
<1>4. CASE Read(j)
  <2>1. /\ copy'[j] = rows.followup /\ based'[j] = covers.followup /\ did'[j] = did[j]
        /\ todo'[j] = Agenda(j, rows.followup) /\ pc'[j] = AfterRead(j, todo'[j])
    BY <1>1, <1>3, <1>4 DEF Read, LocalTypes, Go
  <2>2. did[j] = {}
    BY <1>1, <1>4 DEF OutboundKeeps, Read
  <2>3. CASE load.thread \in ToSet(rows.followup)
    <3>1. pc'[j] = "done"
      BY <2>1, <2>3, AgendaIs, AfterReadIs
    <3>2. QED
      BY <1>1, <2>1, <2>2, <3>1 DEF OutboundKeeps, RowsKeep
  <2>4. CASE load.thread \notin ToSet(rows.followup)
    <3>1. todo'[j] = <<load.thread>>
      BY <2>1, <2>4, AgendaIs
    <3>2. pc'[j] = "append"
      <4>1. <<load.thread>> # <<>>
        OBVIOUS
      <4>2. QED
        BY <2>1, <3>1, <4>1, AfterReadIs
    <3>3. QED
      BY <1>1, <1>2, <2>1, <2>2, <2>4, <3>1, <3>2 DEF OutboundKeeps, RowsKeep
  <2>5. QED
    BY <2>3, <2>4
<1>5. CASE AppendThread(j)
  <2>1. /\ todo[j] = <<load.thread>> /\ load.thread \notin ToSet(copy[j]) /\ did[j] = {}
    BY <1>1, <1>5 DEF OutboundKeeps, AppendThread
  <2>2. Head(<<load.thread>>) = load.thread
    OBVIOUS
  <2>3. /\ kept'[j] = todo[j] /\ did'[j] = {load.thread} /\ pc'[j] = "write"
        /\ copy' = copy /\ based' = based
    BY <1>1, <1>5, <2>1, <2>2 DEF AppendThread, Acts, LocalTypes, Go
  <2>4. ToSet(kept'[j]) = {load.thread}
    BY <2>1, <2>3, ToSetOne
  <2>5. QED
    BY <1>1, <2>1, <2>3, <2>4 DEF OutboundKeeps
<1>6. CASE Write(j)
  <2>1. UNCHANGED local /\ pc'[j] = "done"
    BY <1>1, <1>6 DEF Write, Go
  <2>2. QED
    BY <1>1, <2>1 DEF OutboundKeeps, local
<1>7. QED
  BY <1>4, <1>5, <1>6, StepOf

LEMMA ScanStep ==
  ASSUME TypeInv, KeepInv, NEW j \in Jobs, Step(j), Kind(j) = "scan"
  PROVE  ScanKeeps(j)'
<1>1. /\ Holds(j) /\ LocalTypes /\ DOMAIN pc = Jobs /\ ScanKeeps(j) /\ RowsKeep
  BY TypeFacts DEF KeepInv, Keeps
<1>2. load' = load /\ replied' = replied
  BY StepAlone DEF Alone
<1>3. ListOf(j) = "followup"
  BY ListOfIs DEF Followers
<1>4. CASE Read(j)
  <2>1. /\ based'[j] = covers.followup /\ kept'[j] = <<>> /\ todo'[j] = Agenda(j, rows.followup)
        /\ pc'[j] = AfterRead(j, Agenda(j, rows.followup))
    BY <1>1, <1>3, <1>4 DEF Read, LocalTypes, Go
  <2>2. todo'[j] = rows.followup /\ pc'[j] \in {"done", "check"}
    BY <2>1, AgendaIs, AfterReadIs
  <2>3. QED
    BY <1>1, <2>1, <2>2 DEF ScanKeeps, RowsKeep
<1>5. CASE Check(j) \/ Chase(j)
  <2>1. /\ todo[j] # <<>> /\ todo[j] \in Seq(Correspondents) /\ kept[j] \in Seq(Correspondents)
        /\ copy[j] \in Seq(Correspondents)
    BY <1>1, <1>5 DEF Holds, Check, Chase, Followers
  <2>2. PICK t : t = Head(todo[j])
    OBVIOUS
  <2>3. based' = based
    BY <1>5 DEF Check, Chase
  <2>4. based[j] \ replied \subseteq ToSet(kept[j]) \cup ToSet(todo[j])
    BY <1>1, <1>5 DEF ScanKeeps, Check, Chase
  <2>5. \/ t \in replied /\ Onward(j, kept[j])
        \/ Onward(j, Append(kept[j], t))
        \/ pc'[j] = "chase" /\ kept' = kept /\ todo' = todo
    BY <1>1, <1>5, <2>2 DEF Check, Chase, KeptBlind, Go
  <2>6. /\ t \in Correspondents /\ ToSet(todo[j]) = {t} \cup ToSet(Tail(todo[j]))
        /\ Len(todo[j]) > 1 <=> Tail(todo[j]) # <<>>
    BY <2>1, <2>2, ToSetHead
  <2>7. ASSUME NEW keep \in Seq(Correspondents), Onward(j, keep),
               based[j] \ replied \subseteq ToSet(keep) \cup ToSet(Tail(todo[j]))
        PROVE  ScanKeeps(j)'
    <3>1. /\ kept'[j] = keep /\ todo'[j] = Tail(todo[j])
          /\ \/ pc'[j] = "check" /\ Len(todo[j]) > 1
             \/ pc'[j] \in {"write", "done"} /\ Len(todo[j]) = 1
      BY <2>1, <2>7, OnwardGoes
    <3>2. pc'[j] \in {"write", "done"} => ToSet(Tail(todo[j])) = {}
      <4>1. SUFFICES ASSUME Len(todo[j]) = 1 PROVE ToSet(Tail(todo[j])) = {}
        BY <3>1
      <4>2. ~ (Len(todo[j]) > 1)
        BY <4>1
      <4>3. Tail(todo[j]) = <<>>
        BY <2>6, <4>2
      <4>4. QED
        BY <4>3, ToSetEmpty
    <3>3. QED
      BY <1>2, <2>3, <2>7, <3>1, <3>2 DEF ScanKeeps
  <2>8. CASE t \in replied /\ Onward(j, kept[j])
    <3>1. based[j] \ replied \subseteq ToSet(kept[j]) \cup ToSet(Tail(todo[j]))
      BY <2>4, <2>6, <2>8
    <3>2. QED
      BY <2>1, <2>7, <2>8, <3>1
  <2>9. CASE Onward(j, Append(kept[j], t))
    <3>1. /\ Append(kept[j], t) \in Seq(Correspondents)
          /\ ToSet(Append(kept[j], t)) = ToSet(kept[j]) \cup {t}
      BY <2>1, <2>6, ToSetAppend
    <3>2. based[j] \ replied \subseteq ToSet(Append(kept[j], t)) \cup ToSet(Tail(todo[j]))
      BY <2>4, <2>6, <3>1
    <3>3. QED
      BY <2>7, <2>9, <3>1, <3>2
  <2>10. CASE pc'[j] = "chase" /\ kept' = kept /\ todo' = todo
    BY <1>2, <2>3, <2>4, <2>10 DEF ScanKeeps
  <2>11. QED
    BY <2>5, <2>8, <2>9, <2>10
<1>6. CASE Write(j)
  <2>1. pc'[j] = "done"
    BY <1>1, <1>6 DEF Write, Go
  <2>2. QED
    BY <2>1 DEF ScanKeeps
<1>7. QED
  BY <1>4, <1>5, <1>6, StepOf

LEMMA HealthStep ==
  ASSUME TypeInv, KeepInv, NEW j \in Jobs, Step(j), Kind(j) = "health"
  PROVE  HealthKeeps(j)'
<1>1. /\ Holds(j) /\ LocalTypes /\ DOMAIN pc = Jobs /\ HealthKeeps(j) /\ RowsKeep
  BY TypeFacts DEF KeepInv, Keeps
<1>2. load' = load
  BY StepAlone DEF Alone
<1>3. /\ copy[j] \in Seq(Interventions) /\ kept[j] \in Seq(Interventions)
      /\ todo[j] \in Seq(ToSet(Dimensions))
  BY <1>1 DEF Holds
<1>4. ListOf(j) = "health"
  BY ListOfIs
<1>5. CASE Journal(j) \/ Status(j)
  <2>1. UNCHANGED local /\ ((pc'[j] = "read" /\ Journal(j)) \/ pc'[j] = "done")
    BY <1>1, <1>5 DEF Journal, Status, Go
  <2>2. pc'[j] \in {"read", "done"} /\ (pc'[j] = "read" => did[j] = {})
    BY <1>1, <2>1 DEF HealthKeeps, Journal
  <2>3. QED
    BY <1>1, <2>1, <2>2 DEF HealthKeeps, local
<1>6. CASE Read(j)
  <2>1. /\ copy'[j] = rows.health /\ based'[j] = covers.health /\ did'[j] = did[j]
        /\ kept'[j] = <<>> /\ pc'[j] = "streaks"
    BY <1>1, <1>4, <1>6, AfterReadIs DEF Read, LocalTypes, Go
  <2>2. did[j] = {}
    BY <1>1, <1>6 DEF HealthKeeps, Read
  <2>3. QED
    BY <1>1, <2>1, <2>2 DEF HealthKeeps, RowsKeep
<1>7. CASE Streaks(j)
  <2>1. PICK T : todo'[j] = Sift(Dimensions, T)
    BY <1>1, <1>7 DEF Streaks, LocalTypes
  <2>2. /\ copy' = copy /\ kept' = kept /\ based' = based /\ did' = did
        /\ pc'[j] \in {"status", "intervene"}
    BY <1>1, <1>7 DEF Streaks, Go
  <2>3. kept[j] = <<>> /\ did[j] = {}
    BY <1>1, <1>7 DEF HealthKeeps, Streaks
  <2>4. \A i, k \in 1 .. Len(todo'[j]) : i < k => todo'[j][i] # todo'[j][k]
    <3> DEFINE R == {x \in ToSet(Dimensions) \X ToSet(Dimensions) : x[1] # x[2]}
    <3>1. Dimensions \in Seq(STRING) /\ IsInjective(Dimensions)
      BY LoopAssumption
    <3>2. \A i, k \in 1 .. Len(Dimensions) : i < k => <<Dimensions[i], Dimensions[k]>> \in R
      <4> SUFFICES ASSUME NEW i \in 1 .. Len(Dimensions), NEW k \in 1 .. Len(Dimensions), i < k
                   PROVE  <<Dimensions[i], Dimensions[k]>> \in R
        OBVIOUS
      <4>1. Dimensions[i] \in ToSet(Dimensions) /\ Dimensions[k] \in ToSet(Dimensions)
        BY <3>1, ToSetType
      <4>2. Dimensions[i] # Dimensions[k]
        <5>1. i # k /\ i \in DOMAIN Dimensions /\ k \in DOMAIN Dimensions
          BY <3>1
        <5>2. QED
          BY <3>1, <5>1 DEF IsInjective
      <4>3. QED
        BY <4>1, <4>2
    <3>3. \A x, y : <<x, y>> \in R => x # y
      OBVIOUS
    <3> HIDE DEF R
    <3>4. PICK u : u = Sift(Dimensions, T)
      OBVIOUS
    <3>5. \A i, k \in 1 .. Len(u) : i < k => <<u[i], u[k]>> \in R
      BY <3>1, <3>2, <3>4, SiftOrder
    <3>6. \A i, k \in 1 .. Len(u) : i < k => u[i] # u[k]
      BY <3>3, <3>5
    <3>7. QED
      BY <2>1, <3>4, <3>6
  <2>5. ToSet(kept[j]) = {}
    BY <2>3, ToSetEmpty
  <2>6. QED
    BY <1>1, <2>2, <2>3, <2>4, <2>5 DEF HealthKeeps
<1>8. CASE Intervene(j)
  <2>1. /\ todo[j] # <<>>
        /\ did[j] = ToSet(kept[j]) /\ based[j] = ToSet(copy[j])
        /\ \A i, k \in 1 .. Len(todo[j]) : i < k => todo[j][i] # todo[j][k]
        /\ \A e \in ToSet(kept[j]) : e.dim \notin ToSet(todo[j])
        /\ \A e \in did[j] :
             e.type \in HadLately(based[j], e) => HadLately(based[j], e) = ToSet(Types)
    BY <1>1, <1>8 DEF Holds, HealthKeeps, Intervene
  <2>2. PICK d : d = Head(todo[j])
    OBVIOUS
  <2>3. PICK e : e = [dim |-> d, type |-> PickType(d, copy[j] \o kept[j]), at |-> today]
    OBVIOUS
  <2>4. /\ kept'[j] = Append(kept[j], e) /\ did'[j] = did[j] \cup {e}
        /\ todo'[j] = Tail(todo[j]) /\ copy' = copy /\ based' = based
        /\ pc'[j] \in {"intervene", "write"}
    BY <1>1, <1>8, <2>2, <2>3 DEF Intervene, Acts, LocalTypes, Go
  <2>5. PICK rest : rest = Tail(todo[j])
    OBVIOUS
  <2>6. /\ d \in ToSet(Dimensions) /\ ToSet(todo[j]) = {d} \cup ToSet(rest)
        /\ rest \in Seq(ToSet(Dimensions)) /\ Len(rest) = Len(todo[j]) - 1
        /\ Len(todo[j]) \in Nat /\ d = todo[j][1]
        /\ \A i \in 1 .. Len(todo[j]) - 1 : rest[i] = todo[j][i + 1]
    BY <1>3, <2>1, <2>2, <2>5, ToSetHead
  <2>7. /\ copy[j] \o kept[j] \in Seq(Interventions)
        /\ ToSet(copy[j] \o kept[j]) = ToSet(copy[j]) \cup ToSet(kept[j])
    BY <1>3, ToSetConcat
  <2>8. PickType(d, copy[j] \o kept[j]) \in ToSet(Types)
        /\ (PickType(d, copy[j] \o kept[j]) \in Used(d, copy[j] \o kept[j])
             => ToSet(Types) \subseteq Used(d, copy[j] \o kept[j]))
    BY <2>7, PickTypeIs
  <2>9. /\ e \in Interventions /\ e.dim = d /\ e.at = today /\ today \in 0 .. MaxDay
        /\ e.type = PickType(d, copy[j] \o kept[j])
    BY <2>3, <2>6, <2>8, TypeFacts DEF Interventions
  <2>10. ToSet(kept'[j]) = ToSet(kept[j]) \cup {e}
    BY <1>3, <2>4, <2>9, ToSetAppend
  <2>11. \A i, k \in 1 .. Len(rest) : i < k => rest[i] # rest[k]
    <3> SUFFICES ASSUME NEW i \in 1 .. Len(rest), NEW k \in 1 .. Len(rest), i < k
                 PROVE  rest[i] # rest[k]
      OBVIOUS
    <3>1. /\ i \in 1 .. Len(todo[j]) - 1 /\ k \in 1 .. Len(todo[j]) - 1
          /\ i + 1 \in 1 .. Len(todo[j]) /\ k + 1 \in 1 .. Len(todo[j]) /\ i + 1 < k + 1
      BY <2>6
    <3>2. QED
      BY <2>1, <2>6, <3>1
  <2>12. d \notin ToSet(rest)
    <3> SUFFICES ASSUME d \in ToSet(rest) PROVE FALSE
      OBVIOUS
    <3>1. rest \in Seq(ToSet(Dimensions))
      BY <2>6
    <3>2. PICK i \in 1 .. Len(rest) : rest[i] = d
      BY <3>1, ToSetType
    <3>3. /\ i \in 1 .. Len(todo[j]) - 1 /\ i + 1 \in 1 .. Len(todo[j])
          /\ 1 \in 1 .. Len(todo[j]) /\ 1 < i + 1
      BY <2>6, <3>2
    <3>4. QED
      BY <2>1, <2>6, <3>2, <3>3
  <2>13. \A x \in ToSet(kept'[j]) : x.dim \notin ToSet(rest)
    BY <2>1, <2>6, <2>9, <2>10, <2>12
  <2>14. e.type \in HadLately(based[j], e) => HadLately(based[j], e) = ToSet(Types)
    <3> SUFFICES ASSUME e.type \in HadLately(ToSet(copy[j]), e)
                 PROVE  HadLately(ToSet(copy[j]), e) = ToSet(Types)
      BY <2>1
    <3>1. \A f \in ToSet(copy[j]) : f.type \in ToSet(Types) /\ f.at \in 0 .. MaxDay
      <4>1. ToSet(copy[j]) \subseteq Interventions
        BY <1>3, ToSetType
      <4>2. QED
        BY <4>1 DEF Interventions
    <3>2. \A f \in ToSet(kept[j]) : f.dim # d
      BY <2>1, <2>6
    <3>3. PICK L : L = {f \in ToSet(copy[j]) : today - f.at <= RecentDays}
      OBVIOUS
    <3>4. \A f \in ToSet(copy[j]) : today - f.at <= RecentDays <=> f.at >= today - RecentDays
      BY <2>9, <3>1, LoopAssumption
    <3>5. L = Lately(ToSet(copy[j]), today)
      BY <3>3, <3>4 DEF Lately
    <3>6. Used(d, copy[j] \o kept[j]) = TypesOf(d, L)
      BY <2>7, <3>2, <3>5 DEF Used, TypesOf, Lately
    <3>7. HadLately(ToSet(copy[j]), e) = TypesOf(d, L)
      BY <2>9, <3>3 DEF HadLately
    <3>8. ToSet(Types) \subseteq TypesOf(d, L)
      BY <2>8, <2>9, <3>6, <3>7
    <3>9. TypesOf(d, L) \subseteq ToSet(Types)
      BY <3>1, <3>3 DEF TypesOf
    <3>10. QED
      BY <3>7, <3>8, <3>9
  <2>15. \A x \in did'[j] :
           x.type \in HadLately(based'[j], x) => HadLately(based'[j], x) = ToSet(Types)
    BY <2>1, <2>4, <2>14
  <2>16. todo'[j] = rest
    BY <2>4, <2>5
  <2>17. QED
    BY <2>1, <2>4, <2>10, <2>11, <2>13, <2>15, <2>16 DEF HealthKeeps
<1>9. CASE Write(j)
  <2>1. UNCHANGED local /\ pc'[j] = "done"
    BY <1>1, <1>9 DEF Write, Go
  <2>2. QED
    BY <1>1, <2>1 DEF HealthKeeps, local
<1>10. QED
  BY <1>5, <1>6, <1>7, <1>8, <1>9, StepOf

LEMMA FundedStep ==
  ASSUME TypeInv, KeepInv, NEW j \in Jobs, Step(j), Kind(j) = "funded"
  PROVE  FundedKeeps(j)'
<1>1. /\ Holds(j) /\ LocalTypes /\ DOMAIN pc = Jobs /\ FundedKeeps(j) /\ RowsKeep
  BY TypeFacts DEF KeepInv, Keeps
<1>2. ListOf(j) = "funded"
  BY ListOfIs
<1>3. CASE Read(j)
  <2>1. /\ copy'[j] = rows.funded /\ based'[j] = covers.funded /\ did'[j] = did[j]
        /\ pc'[j] \in {"done", "article"}
    BY <1>1, <1>2, <1>3, AfterReadIs DEF Read, LocalTypes, Go
  <2>2. did[j] = {}
    BY <1>1, <1>3 DEF FundedKeeps, Read
  <2>3. QED
    BY <1>1, <2>1, <2>2 DEF FundedKeeps, RowsKeep
<1>4. CASE Article(j) \/ Offer(j)
  <2>1. /\ todo[j] # <<>> /\ todo[j] \in Seq(Articles) /\ kept[j] \in Seq(Articles)
        /\ pc[j] \in {"article", "offer"}
    BY <1>1, <1>4 DEF Holds, Article, Offer
  <2>2. PICK a : a = Head(todo[j])
    OBVIOUS
  <2>3. copy' = copy /\ based' = based
    BY <1>4 DEF Article, Offer
  <2>4. a \in Articles
    BY <2>1, <2>2, ToSetHead
  <2>5. /\ Append(kept[j], a) \in Seq(Articles)
        /\ ToSet(Append(kept[j], a)) = ToSet(kept[j]) \cup {a}
    BY <2>1, <2>4, ToSetAppend
  <2>6. /\ did[j] \subseteq ToSet(kept[j]) \cup (IF pc[j] = "offer" THEN {a} ELSE {})
        /\ Len(copy[j]) < SeenCap => based[j] \subseteq ToSet(copy[j]) /\ did[j] \cap based[j] = {}
    BY <1>1, <2>1, <2>2 DEF FundedKeeps
  <2>7. \/ NextArticle(j, kept[j]) /\ did'[j] = did[j] /\ pc[j] = "article"
        \/ /\ a \notin ToSet(copy[j]) /\ did'[j] = did[j] \cup {a} /\ pc[j] = "article"
           /\ \/ NextArticle(j, Append(kept[j], a))
              \/ pc'[j] = "offer" /\ kept' = kept /\ todo' = todo
        \/ NextArticle(j, Append(kept[j], a)) /\ did'[j] = did[j] /\ pc[j] = "offer"
    BY <1>1, <1>4, <2>2 DEF Article, Offer, Acts, LocalTypes, Go
  <2>8. Len(copy[j]) < SeenCap => did'[j] \cap based'[j] = {}
    BY <2>3, <2>6, <2>7
  <2>9. ASSUME NEW keep \in Seq(Articles), NextArticle(j, keep), did'[j] \subseteq ToSet(keep)
        PROVE  FundedKeeps(j)'
    <3>1. kept'[j] = keep /\ pc'[j] \in {"article", "write", "done"}
      BY <2>1, <2>9, ArticleGoes
    <3>2. QED
      BY <2>3, <2>6, <2>8, <2>9, <3>1 DEF FundedKeeps
  <2>10. CASE NextArticle(j, kept[j]) /\ did'[j] = did[j] /\ pc[j] = "article"
    BY <2>1, <2>6, <2>9, <2>10
  <2>11. CASE NextArticle(j, Append(kept[j], a)) /\ did'[j] \subseteq did[j] \cup {a}
    <3>1. did'[j] \subseteq ToSet(Append(kept[j], a))
      BY <2>5, <2>6, <2>11
    <3>2. QED
      BY <2>5, <2>9, <2>11, <3>1
  <2>12. CASE /\ did'[j] = did[j] \cup {a} /\ pc[j] = "article"
              /\ pc'[j] = "offer" /\ kept' = kept /\ todo' = todo
    BY <2>2, <2>3, <2>6, <2>8, <2>12 DEF FundedKeeps
  <2>13. QED
    BY <2>7, <2>10, <2>11, <2>12
<1>5. CASE Write(j)
  <2>1. UNCHANGED local /\ pc'[j] = "done"
    BY <1>1, <1>5 DEF Write, Go
  <2>2. QED
    BY <1>1, <2>1 DEF FundedKeeps, local
<1>6. QED
  BY <1>3, <1>4, <1>5, StepOf

\* A list that is written has all that it was built on.
LEMMA RowsStep ==
  ASSUME TypeInv, KeepInv, NEW j \in Jobs, Write(j)
  PROVE  RowsKeep'
<1> DEFINE q == load.mails
           n == Len(mailbox)
<1>1. /\ Holds(j) /\ Keeps(j) /\ RowsKeep /\ RowsHold /\ pc[j] = "write"
  BY TypeFacts DEF KeepInv, TypeInv, Write
<1>2. /\ rows' = [rows EXCEPT ![ListOf(j)] = Merged(j)] /\ Kind(j) \in Listers
      /\ covers' = [covers EXCEPT ![ListOf(j)] = Expected(j)] /\ ListOf(j) \in Lists
      /\ load' = load /\ mailbox' = mailbox /\ gone' = gone
  BY WriteRows DEF Write, world
<1>3. /\ rows'[ListOf(j)] = Merged(j) /\ covers'[ListOf(j)] = Expected(j)
      /\ \A l \in Lists \ {ListOf(j)} : rows'[l] = rows[l] /\ covers'[l] = covers[l]
  BY <1>1, <1>2 DEF RowsHold
<1>4. /\ "poll" \in Lists /\ "followup" \in Lists /\ "health" \in Lists /\ "funded" \in Lists
  BY DEF Lists
<1>5. CASE Kind(j) = "poll"
  <2>1. ListOf(j) = "poll" /\ PollKeeps(j)
    BY <1>1, <1>5, ListOfIs DEF Keeps, Mailers
  <2>2. /\ q \in Seq(Posts) /\ Posts = ToSet(q)
        /\ \A i, k \in DOMAIN q : q[i] = q[k] => i = k
    BY MailFacts
  <2>3. copy[j] \in Seq(ToSet(q)) /\ kept[j] \in Seq(ToSet(q))
    BY <1>1, <1>5, <2>2 DEF Holds, Mailers
  <2>4. PICK c : c = copy[j]
    OBVIOUS
  <2>5. PICK h : h = kept[j]
    OBVIOUS
  <2>6. PICK u : u = h \o c
    OBVIOUS
  <2>7. PICK r : r = Remembered(c, h)
    OBVIOUS
  <2>8. rows'.poll = r /\ covers'.poll = based[j] \cup did[j]
    BY <1>3, <1>5, <2>1, <2>4, <2>5, <2>7 DEF Merged, Expected
  <2>9. /\ h # <<>> /\ did[j] \subseteq ToSet(h)
        /\ gone = {} => Newest(q, n, u) /\ Covered(q, h, based[j])
        /\ Len(c) < Window => based[j] \subseteq ToSet(c)
    BY <1>1, <2>1, <2>4, <2>5, <2>6 DEF PollKeeps, InOrder
  <2>10. c \in Seq(ToSet(q)) /\ h \in Seq(ToSet(q))
    BY <2>3, <2>4, <2>5
  <2>11. /\ r \in Seq(ToSet(q)) /\ Len(r) = IF Len(u) < Window THEN Len(u) ELSE Window
         /\ \A i \in 1 .. Len(r) : r[i] = u[i]
         /\ Len(r) < Window => ToSet(r) = ToSet(h) \cup ToSet(c) /\ Len(c) < Window
    <3> HIDE DEF q, n
    <3>1. PICK S : S = ToSet(q)
      OBVIOUS
    <3>2. c \in Seq(S) /\ h \in Seq(S)
      BY <2>10, <3>1
    <3>3. /\ Remembered(c, h) \in Seq(S)
          /\ Len(Remembered(c, h)) = IF Len(h \o c) < Window THEN Len(h \o c) ELSE Window
          /\ \A i \in 1 .. Len(Remembered(c, h)) : Remembered(c, h)[i] = (h \o c)[i]
          /\ Len(Remembered(c, h)) < Window =>
               ToSet(Remembered(c, h)) = ToSet(h) \cup ToSet(c) /\ Len(c) < Window
      BY <3>2, RememberedIs, SMTT(60)
    <3>4. QED
      BY <2>6, <2>7, <3>1, <3>3
  <2>12. /\ u \in Seq(ToSet(q)) /\ Len(u) = Len(h) + Len(c)
         /\ \A i \in 1 .. Len(h) : u[i] = h[i]
    BY <2>6, <2>10, ToSetConcat
  <2>13. Len(h) \in Nat /\ Len(h) >= 1 /\ Len(c) \in Nat
    BY <2>9, <2>10
  <2> HIDE DEF q, n
  <2>14. ASSUME gone = {}
         PROVE  Newest(q, n, r) /\ Covered(q, r, based[j] \cup did[j])
    <3>1. Newest(q, n, r) /\ (u # <<>> => r # <<>> /\ r[1] = u[1])
      BY <2>2, <2>9, <2>11, <2>12, <2>14, NewestCut
    <3>2. u # <<>> /\ u[1] = h[1]
      BY <2>12, <2>13
    <3>3. Descends(q, h)
      <4>1. Descends(q, u) /\ Len(u) \in Nat
        BY <2>9, <2>12, <2>14 DEF Newest
      <4>2. \A i \in 1 .. Len(h) : i \in 1 .. Len(u)
        BY <2>12, <2>13
      <4>3. QED
        BY <2>12, <4>1, <4>2 DEF Descends
    <3>4. ASSUME NEW m \in ToSet(h) PROVE m \in ToSet(q) /\ Pos(q, m) <= Pos(q, h[1])
      <4>1. PICK i \in 1 .. Len(h) : h[i] = m
        BY <2>10, <3>4, ToSetType
      <4>2. 1 \in 1 .. Len(h)
        BY <2>13
      <4>3. /\ Pos(q, h[i]) \in 1 .. Len(q) /\ Pos(q, h[i]) <= Pos(q, h[1]) - (i - 1)
            /\ Pos(q, h[1]) \in 1 .. Len(q)
        BY <2>2, <2>10, <3>3, <4>2, DescendsBy
      <4>4. Len(q) \in Nat /\ Len(h) \in Nat
        BY <2>2, <2>13
      <4>5. Pos(q, h[i]) <= Pos(q, h[1])
        BY <4>3, <4>4
      <4>6. h[i] \in ToSet(q)
        BY <2>10
      <4>7. QED
        BY <4>1, <4>5, <4>6
    <3>5. Covered(q, r, based[j] \cup did[j])
      <4>1. ASSUME NEW m \in based[j] \cup did[j] PROVE m \in ToSet(q) /\ Pos(q, m) <= Pos(q, h[1])
        BY <2>9, <2>14, <3>4, <4>1 DEF Covered
      <4>2. QED
        BY <3>1, <3>2, <4>1 DEF Covered
    <3>6. QED
      BY <3>1, <3>5
  <2>15. Len(r) < Window => based[j] \cup did[j] \subseteq ToSet(r)
    BY <2>9, <2>11
  <2> USE DEF q, n
  <2>16. QED
    BY <1>1, <1>2, <1>3, <1>4, <2>1, <2>8, <2>14, <2>15 DEF RowsKeep
<1>6. CASE Kind(j) \in Followers
  <2>1. ListOf(j) = "followup"
    BY <1>6, ListOfIs
  <2>2. copy[j] \in Seq(Correspondents) /\ kept[j] \in Seq(Correspondents)
    BY <1>1, <1>6 DEF Holds
  <2>3. Expected(j) \subseteq ToSet(Merged(j))
    <3>1. CASE Kind(j) = "outbound"
      <4>1. Expected(j) = based[j] \cup did[j] /\ Merged(j) = copy[j] \o kept[j]
        BY <3>1 DEF Expected, Merged
      <4>2. ToSet(copy[j] \o kept[j]) = ToSet(copy[j]) \cup ToSet(kept[j])
        BY <2>2, ToSetConcat
      <4>3. based[j] \subseteq ToSet(copy[j]) /\ did[j] \subseteq ToSet(kept[j])
        BY <1>1, <3>1 DEF Keeps, OutboundKeeps
      <4>4. QED
        BY <4>1, <4>2, <4>3
    <3>2. CASE Kind(j) = "scan"
      BY <1>1, <3>2 DEF Expected, Merged, Keeps, ScanKeeps
    <3>3. QED
      BY <1>6, <3>1, <3>2 DEF Followers
  <2>4. QED
    BY <1>1, <1>2, <1>3, <1>4, <2>1, <2>3 DEF RowsKeep
<1>7. CASE Kind(j) = "health"
  <2>1. ListOf(j) = "health" /\ HealthKeeps(j)
    BY <1>1, <1>7, ListOfIs DEF Keeps
  <2>2. copy[j] \in Seq(Interventions) /\ kept[j] \in Seq(Interventions)
    BY <1>1, <1>7 DEF Holds
  <2>3. Expected(j) = based[j] \cup did[j] /\ Merged(j) = copy[j] \o kept[j]
    BY <1>7 DEF Expected, Merged
  <2>4. ToSet(copy[j] \o kept[j]) = ToSet(copy[j]) \cup ToSet(kept[j])
    BY <2>2, ToSetConcat
  <2>5. based[j] = ToSet(copy[j]) /\ did[j] = ToSet(kept[j])
    BY <1>1, <2>1 DEF HealthKeeps
  <2>6. Expected(j) = ToSet(Merged(j))
    BY <2>3, <2>4, <2>5
  <2>7. QED
    BY <1>1, <1>2, <1>3, <1>4, <2>1, <2>6 DEF RowsKeep
<1>8. CASE Kind(j) = "funded"
  <2>1. ListOf(j) = "funded" /\ FundedKeeps(j)
    BY <1>1, <1>8, ListOfIs DEF Keeps
  <2>2. copy[j] \in Seq(Articles) /\ kept[j] \in Seq(Articles)
    BY <1>1, <1>8 DEF Holds
  <2>3. Expected(j) = based[j] \cup did[j] /\ Merged(j) = Capped(copy[j], kept[j])
    BY <1>8 DEF Expected, Merged
  <2>4. Len(Merged(j)) < SeenCap =>
          /\ ToSet(Merged(j)) = ToSet(copy[j]) \cup ToSet(kept[j])
          /\ Len(copy[j]) < SeenCap
    BY <2>2, <2>3, CappedIs
  <2>5. /\ Len(copy[j]) < SeenCap => based[j] \subseteq ToSet(copy[j])
        /\ did[j] \subseteq ToSet(kept[j])
    BY <1>1, <2>1 DEF FundedKeeps
  <2>6. Len(Merged(j)) < SeenCap => Expected(j) \subseteq ToSet(Merged(j))
    BY <2>3, <2>4, <2>5
  <2>7. QED
    BY <1>1, <1>2, <1>3, <1>4, <2>1, <2>6 DEF RowsKeep
<1>9. QED
  BY <1>2, <1>5, <1>6, <1>7, <1>8 DEF Listers, Followers

\* A mail that arrives takes no place from those before it.
LEMMA NewestStays ==
  ASSUME NEW q, NEW n \in Nat, NEW k \in Nat, n <= k, NEW s, Newest(q, n, s),
         s # <<>> => Pos(q, s[1]) \in Int
  PROVE  Newest(q, k, s)
  BY DEF Newest

\* Opening, breaking and what happens elsewhere leave a job what it has, but
\* for what it has done, which a new run has not.
LEMMA KeepsReset ==
  ASSUME TypeInv, NEW j \in Jobs, Keeps(j),
         UNCHANGED <<load, copy, todo, kept, based>>,
         gone \subseteq gone', replied \subseteq replied',
         Len(mailbox') \in Nat, Len(mailbox) <= Len(mailbox'),
         \/ pc'[j] = pc[j] /\ did'[j] = did[j]
         \/ pc'[j] = "failed" /\ did'[j] = did[j]
         \/ pc'[j] = Opening(j) /\ did'[j] = {} /\ Kind(j) \in Kinds \ {"absent"}
  PROVE  Keeps(j)'
<1>1. Kind(j)' = Kind(j)
  BY DEF Kind
<1>2. /\ Kind(j) \in {"poll", "outbound", "scan", "funded"} /\ Kind(j) \in Kinds \ {"absent"} =>
           Opening(j) = "read"
      /\ Kind(j) = "health" /\ Kind(j) \in Kinds \ {"absent"} => Opening(j) = "journal"
  BY OpeningIs
<1>3. CASE Kind(j) = "poll"
  <2>1. PollKeeps(j)
    BY <1>3 DEF Keeps
  <2>2. /\ Len(mailbox) \in Nat /\ load.mails \in Seq(Posts) /\ Posts = ToSet(load.mails)
        /\ \A i, k \in DOMAIN load.mails : load.mails[i] = load.mails[k] => i = k
        /\ copy[j] \in Seq(Posts) /\ kept[j] \in Seq(Posts)
    BY <1>3, MailFacts, TypeFacts DEF Holds, Mailers
  <2>3. ASSUME NEW s \in Seq(Posts), Newest(load.mails, Len(mailbox), s)
        PROVE  Newest(load.mails, Len(mailbox'), s)
    <3>1. s # <<>> => Pos(load.mails, s[1]) \in Int
      <4>1. SUFFICES ASSUME s # <<>> PROVE Pos(load.mails, s[1]) \in Int
        OBVIOUS
      <4>2. s[1] \in ToSet(load.mails)
        BY <2>2, <2>3, <4>1
      <4>3. Pos(load.mails, s[1]) \in 1 .. Len(load.mails)
        BY <2>2, <4>2, PosIs
      <4>4. QED
        BY <4>3
    <3>2. QED
      BY <2>2, <2>3, <3>1, NewestStays
  <2>4. kept[j] \o copy[j] \in Seq(Posts)
    BY <2>2, ToSetConcat
  <2>5. ASSUME gone = {}
        PROVE  /\ Newest(load.mails, Len(mailbox'), copy[j])
               /\ pc[j] \in {"enqueue", "write"} =>
                    Newest(load.mails, Len(mailbox'), kept[j] \o copy[j])
    BY <2>1, <2>2, <2>3, <2>4, <2>5 DEF PollKeeps, InOrder
  <2>6. gone' = {} => gone = {}
    OBVIOUS
  <2>7. (gone = {} => InOrder(j))'
    BY <1>2, <1>3, <2>1, <2>5, <2>6 DEF PollKeeps, InOrder
  <2>8. PollKeeps(j)'
    BY <1>2, <1>3, <2>1, <2>7 DEF PollKeeps
  <2>9. QED
    BY <1>1, <1>3, <2>8 DEF Keeps
<1>4. CASE Kind(j) = "outbound"
  BY <1>1, <1>2, <1>4 DEF Keeps, OutboundKeeps
<1>5. CASE Kind(j) = "scan"
  BY <1>1, <1>2, <1>5 DEF Keeps, ScanKeeps
<1>6. CASE Kind(j) = "health"
  BY <1>1, <1>2, <1>6 DEF Keeps, HealthKeeps
<1>7. CASE Kind(j) = "funded"
  BY <1>1, <1>2, <1>7 DEF Keeps, FundedKeeps
<1>8. QED
  BY <1>1, <1>3, <1>4, <1>5, <1>6, <1>7 DEF Keeps

\* The lists of the agents, where no job writes them.
LEMMA RowsReset ==
  ASSUME TypeInv, RowsKeep, load' = load, gone \subseteq gone',
         Len(mailbox') \in Nat, Len(mailbox) <= Len(mailbox'),
         \/ UNCHANGED <<rows, covers>>
         \/ \E l \in {"poll", "funded"} :
              rows' = [rows EXCEPT ![l] = <<>>] /\ covers' = [covers EXCEPT ![l] = {}]
  PROVE  RowsKeep'
<1>1. RowsHold /\ (\A l \in {"poll", "followup", "health", "funded"} : l \in Lists)
  BY DEF TypeInv, Lists
<1>2. /\ Len(mailbox) \in Nat /\ load.mails \in Seq(Posts) /\ Posts = ToSet(load.mails)
      /\ \A i, k \in DOMAIN load.mails : load.mails[i] = load.mails[k] => i = k
  BY MailFacts
<1>3. \/ rows'.poll = rows.poll /\ covers'.poll = covers.poll
      \/ rows'.poll = <<>> /\ covers'.poll = {}
  BY <1>1 DEF RowsHold
<1>4. /\ rows'.followup = rows.followup /\ covers'.followup = covers.followup
      /\ rows'.health = rows.health /\ covers'.health = covers.health
  BY <1>1 DEF RowsHold
<1>5. \/ rows'.funded = rows.funded /\ covers'.funded = covers.funded
      \/ covers'.funded = {}
  BY <1>1 DEF RowsHold
<1>6. ASSUME gone = {}
      PROVE  Newest(load.mails, Len(mailbox'), rows'.poll) /\ Covered(load.mails, rows'.poll, covers'.poll)
  <2>1. CASE rows'.poll = <<>> /\ covers'.poll = {}
    <3>1. Len(<<>>) = 0
      OBVIOUS
    <3>2. QED
      BY <2>1, <3>1 DEF Newest, Descends, Covered
  <2>2. CASE rows'.poll = rows.poll /\ covers'.poll = covers.poll
    <3>1. rows.poll # <<>> => Pos(load.mails, rows.poll[1]) \in Int
      <4>1. SUFFICES ASSUME rows.poll # <<>> PROVE Pos(load.mails, rows.poll[1]) \in Int
        OBVIOUS
      <4>2. rows.poll \in Seq(Posts)
        BY <1>1 DEF RowsHold
      <4>3. rows.poll[1] \in ToSet(load.mails)
        BY <1>2, <4>1, <4>2
      <4>4. Pos(load.mails, rows.poll[1]) \in 1 .. Len(load.mails)
        BY <1>2, <4>3, PosIs
      <4>5. QED
        BY <4>4
    <3>2. Newest(load.mails, Len(mailbox), rows.poll)
      BY <1>6 DEF RowsKeep
    <3>3. Newest(load.mails, Len(mailbox'), rows.poll)
      BY <1>2, <3>1, <3>2, NewestStays
    <3>4. QED
      BY <1>6, <2>2, <3>3 DEF RowsKeep
  <2>3. QED
    BY <1>3, <2>1, <2>2
<1>7. gone' = {} => gone = {}
  OBVIOUS
<1>8. Len(rows'.poll) < Window => covers'.poll \subseteq ToSet(rows'.poll)
  BY <1>3 DEF RowsKeep
<1>9. QED
  BY <1>4, <1>5, <1>6, <1>7, <1>8 DEF RowsKeep

LEMMA KeepKept ==
  ASSUME TypeInv, KeepInv, [Next]_vars
  PROVE  KeepInv'
<1>1. RowsKeep /\ (\A i \in Jobs : Keeps(i)) /\ LocalTypes /\ DOMAIN pc = Jobs
      /\ Len(mailbox) \in Nat /\ Len(mailbox) <= Len(mailbox)
  BY MailFacts DEF KeepInv, TypeInv, StateTypes
<1>2. ASSUME NEW j \in Jobs, Step(j) PROVE KeepInv'
  <2>1. Alone(j) /\ load' = load /\ mailbox' = mailbox /\ gone' = gone
        /\ replied' = replied
    BY <1>2, StepAlone DEF Alone
  <2>2. ASSUME NEW i \in Jobs \ {j} PROVE Keeps(i)'
    <3>1. Still(i) /\ Keeps(i)
      BY <1>1, <2>1 DEF Alone
    <3>2. QED
      BY <2>1, <3>1 DEF Still, Keeps, Kind, PollKeeps, InOrder, OutboundKeeps, ScanKeeps, HealthKeeps,
             FundedKeeps
  <2>3. Keeps(j)'
    <3>1. Kind(j)' = Kind(j)
      BY <2>1 DEF Kind
    <3>2. QED
      BY <1>2, <3>1, PollStep, OutboundStep, ScanStep, HealthStep, FundedStep DEF Keeps
  <2>4. RowsKeep'
    <3>1. CASE Write(j)
      BY <3>1, RowsStep
    <3>2. CASE UNCHANGED <<rows, covers>>
      BY <1>1, <2>1, <3>2, RowsReset
    <3>3. QED
      BY <1>2, <3>1, <3>2, StepFrame
  <2>5. QED
    BY <2>2, <2>3, <2>4 DEF KeepInv
<1>3. ASSUME NEW j \in Jobs, Fire(j) PROVE KeepInv'
  <2>1. /\ UNCHANGED <<load, rows, covers, copy, todo, kept, based, mailbox, gone, replied>>
        /\ \A i \in Jobs \ {j} : pc'[i] = pc[i] /\ did'[i] = did[i]
    BY <1>3, FireAlone DEF Alone, Still, Fire, Webhook, FileChange, Cron, Dispatch, Open
  <2>2. Kind(j) \in Kinds \ {"absent"} /\ pc'[j] = Opening(j) /\ did'[j] = {}
    BY <1>1, <1>3, KindsApart, TypeFacts
       DEF Fire, Webhook, FileChange, Cron, Dispatch, Open, Go, LocalTypes
  <2>3. ASSUME NEW i \in Jobs PROVE Keeps(i)'
    <3>1. \/ pc'[i] = pc[i] /\ did'[i] = did[i]
          \/ pc'[i] = Opening(i) /\ did'[i] = {} /\ Kind(i) \in Kinds \ {"absent"}
      BY <2>1, <2>2
    <3>2. QED
      BY <1>1, <2>1, <3>1, KeepsReset
  <2>4. RowsKeep'
    BY <1>1, <2>1, RowsReset
  <2>5. QED
    BY <2>3, <2>4 DEF KeepInv
<1>4. CASE Elsewhere
  <2>1. /\ UNCHANGED <<load, copy, todo, kept, based>> /\ replied \subseteq replied'
        /\ gone \subseteq gone'
    BY <1>4 DEF Elsewhere, Break, Restart, Arrive, Lapse, Age, Reply, Vanish, Midnight, local
  <2>2. Len(mailbox') \in Nat /\ Len(mailbox) <= Len(mailbox')
    <3>1. CASE Arrive
      <4>1. mailbox' = Append(mailbox, load.mails[Len(mailbox) + 1]) /\ mailbox \in Seq(Posts)
        BY <3>1 DEF Arrive, TypeInv, Arrived
      <4>2. Len(mailbox') = Len(mailbox) + 1
        BY <4>1
      <4>3. QED
        BY <1>1, <4>2
    <3>2. CASE ~ Arrive
      <4>1. mailbox' = mailbox
        BY <1>4, <3>2 DEF Elsewhere, Break, Restart, Lapse, Age, Reply, Vanish, Midnight
      <4>2. QED
        BY <1>1, <4>1
    <3>3. QED
      BY <3>1, <3>2
  <2>3. ASSUME NEW i \in Jobs PROVE Keeps(i)'
    <3>1. CASE Restart
      <4>1. \/ pc'[i] = pc[i] /\ did'[i] = did[i]
            \/ pc'[i] = Opening(i) /\ did'[i] = {} /\ Kind(i) \in Kinds \ {"absent"}
        BY <3>1, RestartMoves
      <4>2. QED
        BY <1>1, <2>1, <2>2, <4>1, KeepsReset
    <3>2. CASE ~ Restart
      <4>1. did' = did /\ (pc'[i] = pc[i] \/ pc'[i] = "failed")
        BY <1>1, <1>4, <3>2 DEF Elsewhere, Break, Arrive, Lapse, Age, Reply, Vanish, Midnight,
               Go, local
      <4>2. QED
        BY <1>1, <2>1, <2>2, <4>1, KeepsReset
    <3>3. QED
      BY <3>1, <3>2
  <2>4. RowsKeep'
    <3>1. \/ UNCHANGED <<rows, covers>>
          \/ \E l \in {"poll", "funded"} :
               rows' = [rows EXCEPT ![l] = <<>>] /\ covers' = [covers EXCEPT ![l] = {}]
      BY <1>4 DEF Elsewhere, Break, Restart, Arrive, Lapse, Age, Reply, Vanish, Midnight,
             state
    <3>2. QED
      BY <1>1, <2>1, <2>2, <3>1, RowsReset
  <2>5. QED
    BY <2>3, <2>4 DEF KeepInv
<1>5. CASE UNCHANGED vars
  <2>1. UNCHANGED <<load, pc, copy, todo, kept, based, did, rows, covers, mailbox, gone, replied>>
    BY <1>5 DEF vars, local, state, world
  <2>2. \A i \in Jobs : Keeps(i)'
    BY <1>1, <2>1, KeepsReset
  <2>3. QED
    BY <1>1, <2>1, <2>2, RowsReset DEF KeepInv
<1>6. QED
  BY <1>2, <1>3, <1>4, <1>5, NextIs

LEMMA InitKeep ==
  ASSUME Init
  PROVE  KeepInv
<1>1. /\ rows = [poll |-> <<>>, followup |-> load.queue, health |-> load.history, funded |-> <<>>]
      /\ covers = [l \in Lists |-> ToSet(rows[l])]
  BY DEF Init
<1>2. ToSet(<<>>) = {} /\ Len(<<>>) = 0
  BY ToSetEmpty
<1>3. /\ rows.poll = <<>> /\ covers.poll = {} /\ covers.followup = ToSet(rows.followup)
      /\ covers.health = ToSet(rows.health) /\ covers.funded = ToSet(rows.funded)
  BY <1>1, <1>2 DEF Lists
<1>4. \A q, n : Newest(q, n, <<>>) /\ Covered(q, <<>>, {})
  BY <1>2 DEF Newest, Descends, Covered
<1>5. RowsKeep
  BY <1>3, <1>4 DEF RowsKeep
<1>6. ASSUME NEW j \in Jobs PROVE Keeps(j)
  <2>1. /\ pc[j] = "idle" /\ copy[j] = <<>> /\ kept[j] = <<>> /\ todo[j] = <<>>
        /\ based[j] = {} /\ did[j] = {}
    BY DEF Init
  <2>2. QED
    BY <1>2, <1>4, <2>1 DEF Keeps, PollKeeps, InOrder, OutboundKeeps, ScanKeeps, HealthKeeps,
           FundedKeeps
<1>7. QED
  BY <1>5, <1>6 DEF KeepInv

\* What the poll has forgotten is not among the latest.
LEMMA PollKeepsLatest ==
  ASSUME TypeInv, KeepInv, gone = {}
  PROVE  covers.poll \cap ToSet(Latest) \subseteq ToSet(rows.poll)
<1> DEFINE q == load.mails
           n == Len(mailbox)
<1>1. /\ q \in Seq(Posts) /\ Posts = ToSet(q)
      /\ \A i, k \in DOMAIN q : q[i] = q[k] => i = k
      /\ n \in Nat /\ n <= Len(q) /\ Len(q) \in Nat
      /\ \A i \in 1 .. Len(Latest) : Latest[i] = q[n + 1 - i]
  BY MailFacts
<1>2. /\ Latest \in Seq(Posts) /\ Len(Latest) \in Nat
      /\ Len(Latest) = IF n < Limit THEN n ELSE Limit
  BY LatestType, MailFacts
<1>3. Newest(q, n, rows.poll) /\ Covered(q, rows.poll, covers.poll) /\ rows.poll \in Seq(Posts)
  BY DEF KeepInv, RowsKeep, TypeInv, RowsHold
<1>4. SUFFICES ASSUME NEW m \in covers.poll, m \in ToSet(Latest) PROVE m \in ToSet(rows.poll)
  OBVIOUS
<1>5. m \in ToSet(q) /\ rows.poll # <<>> /\ Pos(q, m) <= Pos(q, rows.poll[1])
  BY <1>3, <1>4 DEF Covered
<1>6. PICK i \in 1 .. Len(Latest) : Latest[i] = m
  BY <1>2, <1>4, ToSetType
<1>7. Limit \in Nat
  BY LoopAssumption
<1>8. n + 1 - i \in 1 .. Len(q) /\ n + 1 - i > n - Limit
  BY <1>1, <1>2, <1>6, <1>7
<1>9. Pos(q, m) = n + 1 - i
  BY <1>1, <1>6, <1>8, PosIs
<1>10. q[Pos(q, m)] = m /\ Pos(q, m) \in 1 .. Len(q)
  BY <1>1, <1>5, PosIs
<1>11. Pos(q, rows.poll[1]) \in 1 .. Len(q) /\ Pos(q, rows.poll[1]) <= n
  <2>1. rows.poll[1] \in ToSet(q)
    BY <1>1, <1>3, <1>5
  <2>2. QED
    BY <1>1, <1>3, <1>5, <2>1, PosIs DEF Newest
<1> HIDE DEF q, n
<1>12. Pos(q, rows.poll[1]) - Limit < Pos(q, m)
  BY <1>1, <1>7, <1>8, <1>9, <1>10, <1>11
<1>13. QED
  BY <1>3, <1>5, <1>10, <1>12 DEF Newest

LEMMA KeepsHold == Spec => []KeepInv
<1>1. Init => KeepInv
  BY InitKeep
<1>2. TypeInv /\ KeepInv /\ [Next]_vars => KeepInv'
  BY KeepKept
<1>3. QED
  BY <1>1, <1>2, TypesHold, PTL DEF Spec

\* A list forgets nothing of what the runs that it builds on have handled,
\* whatever fails between the read and the write: but for a thread that was
\* answered, an id that is no longer listed, an article pushed out by SeenCap
\* others, and what a job that had read before did not know of.
THEOREM NothingIsForgotten == Spec => []RowsKeepItems
<1>1. TypeInv /\ KeepInv => RowsKeepItems
  <2> SUFFICES ASSUME TypeInv, KeepInv PROVE RowsKeepItems
    OBVIOUS
  <2>1. gone = {} => covers.poll \cap ToSet(Latest) \subseteq ToSet(rows.poll)
    BY PollKeepsLatest
  <2>2. RowsKeep
    BY DEF KeepInv
  <2>3. QED
    BY <2>1, <2>2 DEF RowsKeepItems, RowsKeep
<1>2. QED
  BY <1>1, TypesHold, KeepsHold, PTL

\* No job acts again on what the runs its list builds on have acted on, with
\* the same exceptions; the type of an intervention comes back within RecentDays
\* days only when its dimension had all types in them.
THEOREM NothingIsDoneTwice == Spec => []NoSecondAct
<1>1. KeepInv => NoSecondAct
  <2> SUFFICES ASSUME KeepInv, NEW j \in Jobs
               PROVE  CASE Kind(j) = "poll" ->
                             gone = {} \/ Len(copy[j]) < Window => did[j] \cap based[j] = {}
                        [] Kind(j) = "outbound" -> did[j] \cap based[j] = {}
                        [] Kind(j) = "funded" ->
                             Len(copy[j]) < SeenCap => did[j] \cap based[j] = {}
                        [] Kind(j) = "health" ->
                             \A e \in did[j] :
                               e.type \in HadLately(based[j], e) =>
                                 HadLately(based[j], e) = ToSet(Types)
                        [] OTHER -> TRUE
    BY DEF NoSecondAct, HadLately
  <2>1. Keeps(j)
    BY DEF KeepInv
  <2>2. QED
    BY <2>1 DEF Keeps, PollKeeps, InOrder, OutboundKeeps, HealthKeeps, FundedKeeps
<1>2. QED
  BY <1>1, KeepsHold, PTL
====

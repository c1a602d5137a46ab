---- MODULE BrowserServiceProofs ----
(***************************************************************************)
(* What TLAPS proves of BrowserService for every set of calls, profiles    *)
(* and domains, every bucket, any number of cancelled calls, and with or   *)
(* without crashes and a shutdown.                                         *)
(***************************************************************************)
EXTENDS BrowserService, FiniteSetTheorems, TLAPS

Pcs == {"pace", "lock", "start", "launch", "page", "request", "visit",
        "backoff", "openlog", "use", "close", "log", "textlog", "end"}
WithPage == {"visit", "backoff", "openlog", "use", "close"}
Ending == {"log", "textlog", "end"}

Phases == {"ready", "closing", "stopping", "over"}
Parts == 0..(Capacity * Unit)

----
\* The type invariant in two halves: what belongs to a call, and the rest.
CallsOK ==
  /\ ask \in Loads
  /\ pc \in [Calls -> Pcs]
  /\ rt \in [Calls -> Calls \cup {None}]
  /\ ctx \in [Calls -> Calls \cup {None}]
  /\ visits \in [Calls -> Seq(Visited)]
  /\ result \in [Calls -> Outcome]
  /\ rows \in [Calls -> Seq(LogRow)]

HeldOK ==
  /\ now \in Times
  /\ runtime \in Calls \cup {None}
  /\ initLock \in Calls \cup {None}
  /\ contexts \in [Profiles -> Calls \cup {None}]
  /\ buckets \in [Domains -> [tokens: Parts, last: Times]]
  /\ alive \subseteq Calls
  /\ open \subseteq Calls
  /\ crashed \subseteq Calls
  /\ pages \subseteq Calls
  /\ granted \subseteq [call: Calls, at: Times]
  /\ closing \in Phases
  /\ toClose \subseteq Calls

\* A bucket was last filled in the past.
FilledPast == \A d \in Domains : buckets[d].last <= now

TypeInv == TypeOK /\ FilledPast

\* The type invariant in two halves, of the calls and of what they hold.
LEMMA TypeHalves == TypeOK <=> CallsOK /\ HeldOK
BY DEF TypeOK, CallsOK, HeldOK, Pcs, Phases, Parts

\* The same of the next state.
LEMMA TypeHalvesNext == TypeOK' <=> CallsOK' /\ HeldOK'
BY DEF TypeOK, CallsOK, HeldOK, Pcs, Phases, Parts

\* The arguments of a call have their types.
LEMMA AskType ==
  ASSUME CallsOK, NEW c \in Calls
  PROVE  /\ Kind(c) \in Kinds
         /\ Profile(c) \in Profiles \cup {BadProfile}
         /\ Domain(c) \in Domains
<1>1. ask[c] \in Ask
  BY AskAssumption DEF CallsOK
<1>2. QED
  BY <1>1 DEF Ask, Kind, Profile, Domain

\* A call that settles keeps the types of result and pc.
LEMMA SettleType ==
  ASSUME CallsOK, NEW c \in Calls, NEW r \in Outcome, Settle(c, r)
  PROVE  pc' \in [Calls -> Pcs] /\ result' \in [Calls -> Outcome]
<1>1. Leaving(c, r) \in Pcs
  BY DEF Leaving, Pcs
<1>2. QED
  BY <1>1 DEF Settle, Go, CallsOK

\* A call that moves keeps the type of pc.
LEMMA GoType ==
  ASSUME CallsOK, NEW c \in Calls, NEW l \in Pcs, Go(c, l)
  PROVE  pc' \in [Calls -> Pcs]
BY DEF CallsOK, Go

----
\* A bucket never holds more than its capacity, nor less than nothing.
LEMMA ProductType ==
  ASSUME NEW x \in Nat, NEW y \in Nat
  PROVE  x * y \in Nat
BY SMT

\* A refilled bucket holds what a bucket may hold, and so it does less a token.
LEMMA RefilledType ==
  ASSUME TypeInv, NEW d \in Domains
  PROVE  Refilled(d) \in Parts /\ (HasToken(d) => Refilled(d) - Unit \in Parts)
<1> DEFINE full == Capacity * Unit
           back == (now - buckets[d].last) * Refill
<1>1. full \in Nat /\ Unit \in Nat /\ Refill \in Nat
  BY BucketAssumption, ProductType
<1>2. /\ buckets[d] \in [tokens: 0..full, last: Times]
      /\ buckets[d].last <= now
      /\ now \in Times
  BY TypeHalves DEF TypeInv, HeldOK, FilledPast, Parts
<1>3. now - buckets[d].last \in Nat
  BY <1>2, BucketAssumption DEF Times
<1>4. back \in Nat
  BY <1>1, <1>3, ProductType
<1>5. buckets[d].tokens \in 0..full
  BY <1>2
<1>6. Refilled(d) = Lesser(full, buckets[d].tokens + back)
  BY DEF Refilled
<1>7. Refilled(d) \in 0..full
  <2> HIDE DEF full, back
  <2>1. QED
    BY <1>1, <1>4, <1>5, <1>6 DEF Lesser
<1>8. HasToken(d) => Refilled(d) - Unit \in 0..full
  <2> HIDE DEF full
  <2>1. QED
    BY <1>1, <1>7 DEF HasToken
<1>9. QED
  BY <1>7, <1>8 DEF Parts

\* What _consume_token writes is a bucket.
LEMMA BucketType ==
  ASSUME TypeInv, NEW d \in Domains, NEW n \in Parts, buckets' = Bucket(d, n),
         now' = now
  PROVE  /\ buckets' \in [Domains -> [tokens: Parts, last: Times]]
         /\ FilledPast'
<1>1. /\ now \in Times /\ now \in Int
      /\ buckets \in [Domains -> [tokens: Parts, last: Times]]
  BY TypeHalves, BucketAssumption DEF TypeInv, HeldOK, Times
<1>2. QED
  BY <1>1 DEF Bucket, FilledPast, TypeInv

\* _get_context keeps the types of the variables it may change.
LEMMA GetContextType ==
  ASSUME CallsOK, HeldOK, NEW c \in Calls, GetContext(c)
  PROVE  /\ pc' \in [Calls -> Pcs]
         /\ result' \in [Calls -> Outcome]
         /\ initLock' \in Calls \cup {None}
         /\ rt' \in [Calls -> Calls \cup {None}]
         /\ ctx' \in [Calls -> Calls \cup {None}]
<1> DEFINE Goal == /\ pc' \in [Calls -> Pcs]
                   /\ result' \in [Calls -> Outcome]
                   /\ initLock' \in Calls \cup {None}
                   /\ rt' \in [Calls -> Calls \cup {None}]
                   /\ ctx' \in [Calls -> Calls \cup {None}]
<1>1. CASE Profile(c) = BadProfile /\ Settle(c, "typed")
           /\ UNCHANGED <<initLock, rt, ctx>>
  <2>1. "typed" \in Outcome
    BY DEF Outcome
  <2>2. QED
    BY <1>1, <2>1, SettleType DEF CallsOK, HeldOK
<1>2. ASSUME Profile(c) # BadProfile,
             ctx' = [ctx EXCEPT ![c] = contexts[Profile(c)]],
             Go(c, InContext(c)), UNCHANGED <<initLock, rt, result>>
      PROVE  Goal
  <2>1. contexts[Profile(c)] \in Calls \cup {None}
    BY <1>2, AskType DEF HeldOK
  <2>2. InContext(c) \in Pcs
    BY DEF InContext, Pcs
  <2>3. QED
    BY <1>2, <2>1, <2>2, GoType DEF CallsOK, HeldOK
<1>3. ASSUME NEW l \in {"launch", "start", "lock"}, Go(c, l),
             rt' \in {rt, [rt EXCEPT ![c] = runtime]},
             initLock' \in {initLock, c}, UNCHANGED <<ctx, result>>
      PROVE  Goal
  <2>1. l \in Pcs
    BY DEF Pcs
  <2>2. QED
    BY <1>3, <2>1, GoType DEF CallsOK, HeldOK
<1>4. QED
  BY <1>1, <1>2, <1>3 DEF GetContext

----
\* Each step of a call keeps the types.

\* Where a call goes when it settles, closes its page or logs is a value of pc.
LEMMA WordTypes ==
  /\ \A r \in {"typed", "raw", "ok", "degraded", "cancelled", "abandoned"} :
       r \in Outcome
  /\ \A c \in Calls, r \in Outcome : Leaving(c, r) \in Pcs
  /\ \A c \in Calls : InContext(c) \in Pcs /\ AfterClose(c) \in Pcs
                      /\ AfterLog(c) \in Pcs
  /\ {"lock", "start", "launch", "backoff", "visit", "openlog", "use", "log"}
       \subseteq Pcs
BY DEF Outcome, Leaving, Pcs, InContext, AfterClose, AfterLog

\* What comes of a navigation is an outcome.
LEMMA LandingType ==
  ASSUME NEW c \in Calls, NEW v \in Landings(c)
  PROVE  v \in Visited /\ Verdict(v) \in Outcome
<1>1. v \in Visited
  BY DEF Landings, Visited
<1>2. Verdict(v) \in Outcome
  BY <1>1 DEF Verdict, Outcome, Visited
<1>3. QED
  BY <1>1, <1>2

\* What a primitive logs is a row.
LEMMA RowType ==
  ASSUME CallsOK, NEW c \in Calls
  PROVE  [action |-> Action(c), status |-> Status(result[c])] \in LogRow
<1>1. Action(c) \in Kinds
  BY AskType DEF Action, Kinds
<1>2. Status(result[c]) \in {"success", "degraded", "error"}
  BY DEF Status
<1>3. QED
  BY <1>1, <1>2 DEF LogRow

\* The steps that take a token keep the types.
LEMMA TokenSteps ==
  ASSUME TypeInv, NEW c \in Calls, Dispatch(c) \/ Refuse(c)
  PROVE  TypeInv'
<1>a. CallsOK /\ HeldOK /\ FilledPast /\ Domain(c) \in Domains
  BY TypeHalves, AskType DEF TypeInv
<1>1. CASE Dispatch(c)
  <2>1. /\ pc' \in [Calls -> Pcs]
        /\ result' \in [Calls -> Outcome]
        /\ initLock' \in Calls \cup {None}
        /\ rt' \in [Calls -> Calls \cup {None}]
        /\ ctx' \in [Calls -> Calls \cup {None}]
    BY <1>a, <1>1, GetContextType DEF Dispatch
  <2>2. CallsOK'
    BY <1>a, <1>1, <2>1 DEF Dispatch, CallsOK
  <2>3. /\ buckets' \in [Domains -> [tokens: Parts, last: Times]]
        /\ FilledPast'
    <3>1. CASE Limited(c)
      <4>1. Refilled(Domain(c)) - Unit \in Parts
        BY <1>a, <1>1, <3>1, RefilledType DEF Dispatch
      <4>2. now' = now /\ buckets' = Bucket(Domain(c), Refilled(Domain(c)) - Unit)
        BY <1>1, <3>1 DEF Dispatch
      <4>3. QED
        BY <1>a, <4>1, <4>2, BucketType
    <3>2. CASE ~Limited(c)
      BY <1>a, <1>1, <3>2 DEF Dispatch, HeldOK, FilledPast
    <3>3. QED
      BY <3>1, <3>2
  <2>4. granted' \subseteq [call: Calls, at: Times]
    BY <1>a, <1>1 DEF Dispatch, HeldOK
  <2>5. HeldOK'
    BY <1>a, <1>1, <2>1, <2>3, <2>4
    DEF Dispatch, HeldOK, playwright, shut
  <2>6. QED
    BY <2>2, <2>3, <2>5, TypeHalvesNext DEF TypeInv
<1>2. CASE Refuse(c)
  <2>1. /\ pc' \in [Calls -> Pcs]
        /\ result' \in [Calls -> Outcome]
    BY <1>a, <1>2, SettleType, WordTypes DEF Refuse
  <2>2. /\ buckets' \in [Domains -> [tokens: Parts, last: Times]]
        /\ FilledPast'
    BY <1>a, <1>2, RefilledType, BucketType DEF Refuse
  <2>3. CallsOK' /\ HeldOK'
    BY <1>a, <1>2, <2>1, <2>2
    DEF Refuse, CallsOK, HeldOK, playwright, service, shut
  <2>4. QED
    BY <2>2, <2>3, TypeHalvesNext DEF TypeInv
<1>3. QED
  BY <1>1, <1>2

\* The steps that start Playwright or launch a context keep the types.
LEMMA RuntimeSteps ==
  ASSUME TypeInv, NEW c \in Calls,
         EnterLock(c) \/ StartRuntime(c) \/ StartFails(c) \/ Launch(c) \/ Breaks(c)
  PROVE  TypeInv'
<1>a. CallsOK /\ HeldOK /\ FilledPast /\ Profile(c) \in Profiles \cup {BadProfile}
  BY TypeHalves, AskType DEF TypeInv
<1>1. CASE EnterLock(c)
  <2>1. pc' \in [Calls -> Pcs]
    BY <1>a, <1>1, GoType, WordTypes DEF EnterLock
  <2>2. CallsOK'
    BY <1>a, <1>1, <2>1 DEF EnterLock, CallsOK, HeldOK
  <2>3. HeldOK' /\ FilledPast'
    BY <1>a, <1>1 DEF EnterLock, HeldOK, FilledPast, playwright, shut
  <2>4. QED
    BY <2>2, <2>3, TypeHalvesNext DEF TypeInv
<1>2. CASE StartRuntime(c)
  <2>1. pc' \in [Calls -> Pcs]
    BY <1>a, <1>2, GoType, WordTypes DEF StartRuntime
  <2>2. CallsOK'
    BY <1>a, <1>2, <2>1 DEF StartRuntime, CallsOK
  <2>3. HeldOK' /\ FilledPast'
    BY <1>a, <1>2 DEF StartRuntime, HeldOK, FilledPast, shut
  <2>4. QED
    BY <2>2, <2>3, TypeHalvesNext DEF TypeInv
<1>3. CASE StartFails(c)
  <2>1. /\ pc' \in [Calls -> Pcs]
        /\ result' \in [Calls -> Outcome]
    BY <1>a, <1>3, SettleType, WordTypes DEF StartFails
  <2>2. CallsOK' /\ HeldOK' /\ FilledPast'
    BY <1>a, <1>3, <2>1
    DEF StartFails, CallsOK, HeldOK, FilledPast, playwright, shut
  <2>3. QED
    BY <2>2, TypeHalvesNext DEF TypeInv
<1>4. CASE Launch(c)
  <2>1. pc' \in [Calls -> Pcs]
    BY <1>a, <1>4, GoType, WordTypes DEF Launch
  <2>2. CallsOK'
    BY <1>a, <1>4, <2>1 DEF Launch, CallsOK
  <2>3. HeldOK' /\ FilledPast'
    BY <1>a, <1>4 DEF Launch, HeldOK, FilledPast, shut
  <2>4. QED
    BY <2>2, <2>3, TypeHalvesNext DEF TypeInv
<1>5. CASE Breaks(c)
  <2>1. /\ pc' \in [Calls -> Pcs]
        /\ result' \in [Calls -> Outcome]
    BY <1>a, <1>5, SettleType, WordTypes DEF Breaks
  <2>2. CallsOK' /\ HeldOK' /\ FilledPast'
    BY <1>a, <1>5, <2>1
    DEF Breaks, CallsOK, HeldOK, FilledPast, playwright, service, shut
  <2>3. QED
    BY <2>2, TypeHalvesNext DEF TypeInv
<1>6. QED
  BY <1>1, <1>2, <1>3, <1>4, <1>5

\* The steps on a page keep the types.
LEMMA PageSteps ==
  ASSUME TypeInv, NEW c \in Calls,
         OpenPage(c) \/ Visit(c) \/ Backoff(c) \/ UsePage(c) \/ ClosePage(c)
  PROVE  TypeInv'
<1>a. CallsOK /\ HeldOK /\ FilledPast
  BY TypeHalves DEF TypeInv
<1>1. CASE OpenPage(c)
  <2>1. pc' \in [Calls -> Pcs]
    BY <1>a, <1>1, GoType, WordTypes DEF OpenPage
  <2>2. CallsOK' /\ HeldOK' /\ FilledPast'
    BY <1>a, <1>1, <2>1
    DEF OpenPage, CallsOK, HeldOK, FilledPast, service, shut
  <2>3. QED
    BY <2>2, TypeHalvesNext DEF TypeInv
<1>2. CASE Visit(c)
  <2>1. PICK v \in Landings(c) :
          /\ visits' = [visits EXCEPT ![c] = Append(@, v)]
          /\ IF v = "transient" /\ Again(Len(visits[c]) + 1)
             THEN Go(c, "backoff") /\ UNCHANGED result
             ELSE Settle(c, Verdict(v))
    BY <1>2 DEF Visit
  <2>2. v \in Visited /\ Verdict(v) \in Outcome
    BY LandingType
  <2>3. visits' \in [Calls -> Seq(Visited)]
    BY <1>a, <2>1, <2>2 DEF CallsOK
  <2>4. /\ pc' \in [Calls -> Pcs]
        /\ result' \in [Calls -> Outcome]
    <3>1. CASE Go(c, "backoff") /\ UNCHANGED result
      BY <1>a, <3>1, GoType, WordTypes DEF CallsOK
    <3>2. CASE Settle(c, Verdict(v))
      BY <1>a, <2>2, <3>2, SettleType
    <3>3. QED
      BY <2>1, <3>1, <3>2
  <2>5. CallsOK' /\ HeldOK' /\ FilledPast'
    BY <1>a, <1>2, <2>3, <2>4
    DEF Visit, CallsOK, HeldOK, FilledPast, playwright, service, shut
  <2>6. QED
    BY <2>5, TypeHalvesNext DEF TypeInv
<1>3. CASE Backoff(c)
  <2>1. pc' \in [Calls -> Pcs]
    BY <1>a, <1>3, GoType, WordTypes DEF Backoff
  <2>2. CallsOK' /\ HeldOK' /\ FilledPast'
    BY <1>a, <1>3, <2>1
    DEF Backoff, CallsOK, HeldOK, FilledPast, playwright, service, shut
  <2>3. QED
    BY <2>2, TypeHalvesNext DEF TypeInv
<1>4. CASE UsePage(c)
  <2>1. /\ pc' \in [Calls -> Pcs]
        /\ result' \in [Calls -> Outcome]
    BY <1>a, <1>4, SettleType, WordTypes DEF UsePage
  <2>2. CallsOK' /\ HeldOK' /\ FilledPast'
    BY <1>a, <1>4, <2>1
    DEF UsePage, CallsOK, HeldOK, FilledPast, playwright, service, shut
  <2>3. QED
    BY <2>2, TypeHalvesNext DEF TypeInv
<1>5. CASE ClosePage(c)
  <2>1. pc' \in [Calls -> Pcs]
    BY <1>a, <1>5, GoType, WordTypes DEF ClosePage
  <2>2. CallsOK' /\ HeldOK' /\ FilledPast'
    BY <1>a, <1>5, <2>1
    DEF ClosePage, CallsOK, HeldOK, FilledPast, service, shut
  <2>3. QED
    BY <2>2, TypeHalvesNext DEF TypeInv
<1>6. QED
  BY <1>1, <1>2, <1>3, <1>4, <1>5

\* The steps that write rows keep the types.
LEMMA LogSteps ==
  ASSUME TypeInv, NEW c \in Calls, OpenSession(c) \/ Log(c)
  PROVE  TypeInv'
<1>a. CallsOK /\ HeldOK /\ FilledPast
  BY TypeHalves DEF TypeInv
<1>1. CASE OpenSession(c)
  <2>1. pc' \in [Calls -> Pcs]
    BY <1>a, <1>1, GoType, WordTypes DEF OpenSession
  <2>2. [action |-> "session", status |-> "success"] \in LogRow
    BY DEF LogRow, Kinds
  <2>r. rows' \in [Calls -> Seq(LogRow)]
    BY <1>a, <1>1, <2>2 DEF OpenSession, CallsOK
  <2>3. CallsOK' /\ HeldOK' /\ FilledPast'
    BY <1>a, <1>1, <2>1, <2>r
    DEF OpenSession, CallsOK, HeldOK, FilledPast, playwright, service, shut
  <2>4. QED
    BY <2>3, TypeHalvesNext DEF TypeInv
<1>2. CASE Log(c)
  <2>1. pc' \in [Calls -> Pcs]
    BY <1>a, <1>2, GoType, WordTypes DEF Log
  <2>2. rows' \in [Calls -> Seq(LogRow)]
    BY <1>a, <1>2, RowType DEF Log, CallsOK
  <2>3. CallsOK' /\ HeldOK' /\ FilledPast'
    BY <1>a, <1>2, <2>1, <2>2
    DEF Log, CallsOK, HeldOK, FilledPast, playwright, service, shut
  <2>4. QED
    BY <2>3, TypeHalvesNext DEF TypeInv
<1>3. QED
  BY <1>1, <1>2

\* Cancellation keeps the types.
LEMMA CancelSteps ==
  ASSUME TypeInv, NEW c \in Calls, Cancel(c)
  PROVE  TypeInv'
<1>a. CallsOK /\ HeldOK /\ FilledPast
  BY TypeHalves DEF TypeInv
<1>1. PICK r \in {"cancelled", "abandoned"}, l \in Pcs : Stop(c, r, l)
  BY WordTypes
  DEF Cancel, CancelWait, CancelStart, CancelLaunch, CancelPage, CancelOpening,
      CancelEnding, Pcs
<1>2. CallsOK' /\ FilledPast'
  BY <1>a, <1>1 DEF Stop, Go, CallsOK, FilledPast, Outcome
<1>3. /\ alive' \subseteq Calls /\ open' \subseteq Calls /\ pages' \subseteq Calls
      /\ initLock' \in Calls \cup {None}
  BY <1>a
  DEF HeldOK, Cancel, CancelWait, CancelStart, CancelLaunch, CancelPage,
      CancelOpening, CancelEnding
<1>4. HeldOK'
  BY <1>a, <1>1, <1>3 DEF Stop, HeldOK, shut
<1>5. QED
  BY <1>2, <1>4, TypeHalvesNext DEF TypeInv

\* Crashes, the clock and shutdown keep the types.
LEMMA EnvironmentSteps ==
  ASSUME TypeInv,
         \/ \E x \in Calls : Crash(x)
         \/ Tick \/ Shutdown \/ CloseContext \/ StopRuntime
  PROVE  TypeInv'
<1>a. CallsOK /\ HeldOK /\ FilledPast
  BY TypeHalves DEF TypeInv
<1>1. ASSUME UNCHANGED callVars
      PROVE  CallsOK'
  BY <1>a, <1>1 DEF callVars, CallsOK
<1>2. ASSUME NEW x \in Calls, Crash(x)
      PROVE  TypeInv'
  <2>1. HeldOK' /\ FilledPast'
    BY <1>a, <1>2 DEF Crash, HeldOK, FilledPast, service, shut, Within
  <2>2. QED
    BY <1>1, <1>2, <2>1, TypeHalvesNext DEF Crash, TypeInv
<1>3. CASE Tick
  <2>1. now' \in Times /\ now' > now /\ now \in Int
    BY <1>a, <1>3, BucketAssumption DEF Tick, HeldOK, Times
  <2>2. HeldOK'
    BY <1>a, <1>3, <2>1 DEF Tick, HeldOK, playwright, service, shut
  <2>3. \A d \in Domains : buckets[d].last \in Int
    BY <1>a, BucketAssumption DEF HeldOK, Times
  <2>4. FilledPast'
    BY <1>a, <1>3, <2>1, <2>3 DEF Tick, FilledPast
  <2>5. QED
    BY <1>1, <1>3, <2>2, <2>4, TypeHalvesNext DEF Tick, TypeInv
<1>4. CASE Shutdown
  <2>1. Listed \subseteq Calls
    BY <1>a DEF Listed, HeldOK
  <2>2. contexts' \in [Profiles -> Calls \cup {None}] /\ closing' \in Phases
    BY <1>a, <1>4 DEF Shutdown, Cleared, HeldOK, Phases
  <2>3. HeldOK' /\ FilledPast'
    BY <1>a, <1>4, <2>1, <2>2 DEF Shutdown, HeldOK, FilledPast, playwright
  <2>4. QED
    BY <1>1, <1>4, <2>3, TypeHalvesNext DEF Shutdown, TypeInv
<1>5. CASE CloseContext
  <2>1. contexts' \in [Profiles -> Calls \cup {None}] /\ closing' \in Phases
    BY <1>a, <1>5 DEF CloseContext, Cleared, HeldOK, Phases
  <2>2. HeldOK' /\ FilledPast'
    BY <1>a, <1>5, <2>1 DEF CloseContext, HeldOK, FilledPast, Within
  <2>3. QED
    BY <1>1, <1>5, <2>2, TypeHalvesNext DEF CloseContext, TypeInv
<1>6. CASE StopRuntime
  <2>1. HeldOK' /\ FilledPast'
    BY <1>a, <1>6 DEF StopRuntime, HeldOK, FilledPast, Within, Phases
  <2>2. QED
    BY <1>1, <1>6, <2>1, TypeHalvesNext DEF StopRuntime, TypeInv
<1>7. QED
  BY <1>2, <1>3, <1>4, <1>5, <1>6

\* The types hold at first.
LEMMA InitType == Init => TypeInv
<1> SUFFICES ASSUME Init PROVE TypeInv
  OBVIOUS
<1>1. 0 \in Times /\ Full \in [tokens: Parts, last: Times] /\ Full.last = 0
  BY BucketAssumption, ProductType DEF Times, Full, Parts
<1>2. CallsOK
  BY DEF Init, CallsOK, Pcs, Outcome
<1>3. HeldOK
  BY <1>1 DEF Init, HeldOK, Phases
<1>4. FilledPast
  BY <1>1 DEF Init, FilledPast
<1>5. QED
  BY <1>2, <1>3, <1>4, TypeHalves DEF TypeInv

\* Every step keeps the types.
LEMMA TypeStep == TypeInv /\ [Next]_vars => TypeInv'
<1> SUFFICES ASSUME TypeInv, [Next]_vars PROVE TypeInv'
  OBVIOUS
<1>1. CASE UNCHANGED vars
  BY <1>1
  DEF vars, callVars, playwright, service, shut, TypeInv, TypeOK, FilledPast
<1>2. ASSUME NEW c \in Calls, CallStep(c)
      PROVE  TypeInv'
  BY <1>2, TokenSteps, RuntimeSteps, PageSteps, LogSteps DEF CallStep
<1>3. QED
  BY <1>1, <1>2, CancelSteps, EnvironmentSteps DEF Next, Quiescent

\* Type correctness, with buckets that never hold more than their capacity.
THEOREM TypeCorrect == Spec => []TypeOK
<1>1. TypeInv => TypeOK
  BY DEF TypeInv
<1>2. QED
  BY <1>1, InitType, TypeStep, PTL DEF Spec

----
\* The runtime and the pages.

\* A call that was abandoned is on its way out; whoever starts a runtime holds
\* the lock, and then there is none yet; what runs besides _playwright was
\* abandoned; an open page belongs to a call that will close it, or to one that
\* was abandoned.
AbandonedEnds == \A c \in Calls : result[c] = "abandoned" => pc[c] \in Ending

LockInv ==
  /\ \A c \in Calls : pc[c] = "start" => initLock = c
  /\ initLock # None => runtime = None /\ pc[initLock] = "start"

PageInv == \A c \in pages : pc[c] \in WithPage \/ c \in Abandoned

Tidy == AbandonedEnds /\ LockInv /\ OneRuntime /\ PageInv

\* The finally block leads a call with a page to close, any other to log or end.
LEMMA LeavingWhere ==
  ASSUME NEW c \in Calls, NEW r
  PROVE  /\ pc[c] \in {"visit", "backoff", "use"} => Leaving(c, r) = "close"
         /\ pc[c] \notin {"visit", "backoff", "use"} => Leaving(c, r) \in {"end", "log"}
BY DEF Leaving

\* After close and log a call is on its way out; in a context it asks for a page or a file.
LEMMA AfterWhere ==
  ASSUME NEW c \in Calls
  PROVE  /\ AfterClose(c) \in Ending
         /\ AfterLog(c) \in Ending
         /\ InContext(c) \in {"page", "request"}
BY DEF AfterClose, AfterLog, InContext, Ending

\* A step of a call moves no other call.
Alone(c) ==
  \A d \in Calls \ {c} : pc'[d] = pc[d] /\ result'[d] = result[d]

\* A call that settles goes on to close its page if it has one, and else is on its way out.
LEMMA SettleWhere ==
  ASSUME CallsOK, NEW c \in Calls, NEW r, Settle(c, r)
  PROVE  /\ Alone(c)
         /\ result'[c] = r
         /\ pc[c] \in {"visit", "backoff", "use"} => pc'[c] = "close"
         /\ pc[c] \notin {"visit", "backoff", "use"} => pc'[c] \in Ending
<1>1. /\ Alone(c)
      /\ result'[c] = r
      /\ pc'[c] = Leaving(c, r)
  BY DEF Settle, Go, Alone, CallsOK
<1>2. QED
  BY <1>1, LeavingWhere DEF Ending

\* A call that moves leaves the others, and its own result, as they are.
LEMMA GoWhere ==
  ASSUME CallsOK, NEW c \in Calls, NEW l, Go(c, l), result' = result
  PROVE  Alone(c) /\ pc'[c] = l /\ result'[c] = result[c]
BY DEF Go, Alone, CallsOK

\* The four parts after a step that keeps clear of the runtime and the lock.
LEMMA QuietStep ==
  ASSUME TypeInv, Tidy, NEW c \in Calls, Alone(c),
         pc[c] # "start", pc'[c] # "start",
         initLock' = initLock, runtime' = runtime, alive' = alive,
         result[c] = "abandoned" => result'[c] = "abandoned",
         result'[c] = "abandoned" => pc'[c] \in Ending,
         pages' \subseteq pages \cup {c},
         c \in pages' => pc'[c] \in WithPage \/ result'[c] = "abandoned"
  PROVE  Tidy'
<1>a. CallsOK /\ HeldOK
  BY TypeHalves DEF TypeInv
<1>1. AbandonedEnds'
  BY DEF Tidy, AbandonedEnds, Alone
<1>2. LockInv'
  BY <1>a DEF Tidy, LockInv, Alone, HeldOK
<1>3. Abandoned \subseteq Abandoned'
  BY DEF Abandoned, Alone
<1>4. OneRuntime'
  BY <1>3 DEF Tidy, OneRuntime
<1>5. PageInv'
  BY <1>a, <1>3 DEF Tidy, PageInv, Alone, HeldOK, Abandoned
<1>6. QED
  BY <1>1, <1>2, <1>4, <1>5 DEF Tidy

\* The steps that take a token keep Tidy.
LEMMA TokenTidy ==
  ASSUME TypeInv, Tidy, NEW c \in Calls, Dispatch(c) \/ Refuse(c)
  PROVE  Tidy'
<1>a. CallsOK /\ HeldOK
  BY TypeHalves DEF TypeInv
<1>p. /\ pc[c] = "pace" /\ c \notin Abandoned /\ c \notin pages
      /\ runtime' = runtime /\ alive' = alive /\ pages' = pages
  BY DEF Dispatch, Refuse, Tidy, AbandonedEnds, Ending, PageInv, WithPage,
         Abandoned, playwright, service
<1>1. ASSUME Settle(c, "typed"), initLock' = initLock
      PROVE  Tidy'
  <2>1. Alone(c) /\ result'[c] = "typed" /\ pc'[c] \in Ending
    BY <1>a, <1>p, <1>1, SettleWhere
  <2>2. QED
    BY <1>p, <1>1, <2>1, QuietStep DEF Ending, Abandoned
<1>2. ASSUME NEW l \in {"page", "request", "launch", "lock"}, Go(c, l),
             initLock' = initLock, result' = result
      PROVE  Tidy'
  <2>1. Alone(c) /\ pc'[c] = l /\ result'[c] = result[c]
    BY <1>a, <1>2, GoWhere
  <2>2. QED
    BY <1>p, <1>2, <2>1, QuietStep DEF Abandoned
<1>3. ASSUME Go(c, "start"), runtime = None, LockFree, initLock' = c,
             result' = result
      PROVE  Tidy'
  <2>1. Alone(c) /\ pc'[c] = "start" /\ result'[c] = result[c]
    BY <1>a, <1>3, GoWhere
  <2>2. Abandoned' = Abandoned
    BY <1>3 DEF Abandoned
  <2>3. AbandonedEnds' /\ PageInv'
    BY <1>a, <1>p, <2>1, <2>2 DEF Tidy, AbandonedEnds, PageInv, Alone, Abandoned, HeldOK
  <2>4. LockInv'
    BY <1>p, <1>3, <2>1, AskAssumption DEF Tidy, LockInv, LockFree, Alone
  <2>5. OneRuntime'
    BY <1>p, <2>2 DEF Tidy, OneRuntime
  <2>6. QED
    BY <2>3, <2>4, <2>5 DEF Tidy
<1>4. CASE Refuse(c)
  BY <1>1, <1>4 DEF Refuse, service
<1>5. CASE Dispatch(c)
  BY <1>1, <1>2, <1>3, <1>5, AfterWhere DEF Dispatch, GetContext
<1>6. QED
  BY <1>4, <1>5

\* The steps that start Playwright or launch a context keep Tidy.
LEMMA RuntimeTidy ==
  ASSUME TypeInv, Tidy, NEW c \in Calls,
         EnterLock(c) \/ StartRuntime(c) \/ StartFails(c) \/ Launch(c) \/ Breaks(c)
  PROVE  Tidy'
<1>a. CallsOK /\ HeldOK
  BY TypeHalves DEF TypeInv
<1>p. c \notin Abandoned /\ c \notin pages /\ pages' = pages /\ c # None
  BY AskAssumption
  DEF EnterLock, StartRuntime, StartFails, Launch, Breaks, Tidy, AbandonedEnds,
      Ending, PageInv, WithPage, Abandoned, playwright
<1>1. CASE EnterLock(c)
  <2>1. CASE runtime # None
    <3>1. Go(c, "launch") /\ initLock' = initLock
      BY <1>1, <2>1 DEF EnterLock, LookAgain
    <3>2. QED
      BY <1>a, <1>p, <1>1, <3>1, GoWhere, QuietStep
      DEF EnterLock, playwright, Abandoned
  <2>2. CASE runtime = None
    <3>1. Alone(c) /\ pc'[c] = "start" /\ initLock' = c /\ Abandoned' = Abandoned
      BY <1>a, <1>1, <2>2, GoWhere DEF EnterLock, LookAgain, Abandoned
    <3>2. AbandonedEnds' /\ PageInv'
      BY <1>a, <1>p, <1>1, <3>1
      DEF EnterLock, Tidy, AbandonedEnds, PageInv, Alone, Abandoned, HeldOK
    <3>3. LockInv'
      BY AskAssumption, <1>p, <1>1, <2>2, <3>1 DEF EnterLock, LockFree, Tidy, LockInv, Alone
    <3>4. OneRuntime'
      BY <1>1, <3>1 DEF EnterLock, Tidy, OneRuntime, playwright
    <3>5. QED
      BY <3>2, <3>3, <3>4 DEF Tidy
  <2>3. QED
    BY <2>1, <2>2
<1>2. CASE StartRuntime(c)
  <2>1. Alone(c) /\ pc'[c] = "launch" /\ Abandoned' = Abandoned
    BY <1>a, <1>2, GoWhere DEF StartRuntime, Abandoned
  <2>2. initLock = c /\ runtime = None
    BY <1>p, <1>2 DEF StartRuntime, Tidy, LockInv
  <2>3. AbandonedEnds' /\ PageInv'
    BY <1>a, <1>p, <1>2, <2>1
    DEF StartRuntime, Tidy, AbandonedEnds, PageInv, Alone, Abandoned, HeldOK
  <2>4. LockInv'
    BY <1>2, <2>1, <2>2 DEF StartRuntime, Tidy, LockInv, Alone
  <2>5. OneRuntime'
    BY <1>a, <1>2, <2>1, <2>2, AskAssumption
    DEF StartRuntime, Tidy, OneRuntime, HeldOK
  <2>6. QED
    BY <2>3, <2>4, <2>5 DEF Tidy
<1>3. CASE StartFails(c)
  <2>1. Alone(c) /\ result'[c] = "raw" /\ pc'[c] \in Ending
    BY <1>a, <1>3, SettleWhere DEF StartFails
  <2>2. Abandoned' = Abandoned
    BY <1>p, <2>1 DEF Abandoned, Alone
  <2>3. AbandonedEnds' /\ PageInv'
    BY <1>a, <1>p, <2>1, <2>2 DEF Tidy, AbandonedEnds, PageInv, Alone, Abandoned, HeldOK
  <2>4. initLock = c /\ initLock' = None
    BY <1>3 DEF StartFails, Tidy, LockInv
  <2>5. LockInv'
    BY <2>1, <2>4 DEF Tidy, LockInv, Alone, Ending
  <2>6. OneRuntime'
    BY <1>3, <2>2 DEF StartFails, Tidy, OneRuntime, playwright
  <2>7. QED
    BY <2>3, <2>5, <2>6 DEF Tidy
<1>4. CASE Launch(c)
  <2>1. Alone(c) /\ pc'[c] \in {"page", "request"} /\ result'[c] = result[c]
    BY <1>a, <1>4, GoWhere, AfterWhere DEF Launch
  <2>2. QED
    BY <1>p, <1>4, <2>1, QuietStep DEF Launch, Abandoned
<1>5. CASE Breaks(c)
  <2>1. Alone(c) /\ result'[c] = "raw" /\ pc'[c] \in Ending
    BY <1>a, <1>5, SettleWhere DEF Breaks
  <2>2. QED
    BY <1>p, <1>5, <2>1, QuietStep DEF Breaks, Abandoned, Ending, playwright, service
<1>6. QED
  BY <1>1, <1>2, <1>3, <1>4, <1>5

\* The other steps of a call keep Tidy.
LEMMA PageTidy ==
  ASSUME TypeInv, Tidy, NEW c \in Calls,
         \/ OpenPage(c) \/ Visit(c) \/ Backoff(c) \/ OpenSession(c)
         \/ UsePage(c) \/ ClosePage(c) \/ Log(c)
  PROVE  Tidy'
<1>a. CallsOK /\ HeldOK
  BY TypeHalves DEF TypeInv
<1>n. pc[c] \notin Ending => c \notin Abandoned
  BY DEF Tidy, AbandonedEnds, Abandoned
<1>1. CASE OpenPage(c)
  <2>1. Alone(c) /\ pc'[c] \in {"openlog", "visit"} /\ result'[c] = result[c]
    BY <1>a, <1>1, GoWhere DEF OpenPage
  <2>2. QED
    BY <1>n, <1>1, <2>1, QuietStep DEF OpenPage, service, Ending, WithPage, Abandoned
<1>2. CASE Visit(c)
  <2>1. PICK v \in Landings(c) :
          IF v = "transient" /\ Again(Len(visits[c]) + 1)
          THEN Go(c, "backoff") /\ UNCHANGED result
          ELSE Settle(c, Verdict(v))
    BY <1>2 DEF Visit
  <2>2. Verdict(v) # "abandoned"
    BY LandingType DEF Verdict, Visited
  <2>3. /\ Alone(c) /\ result'[c] # "abandoned" /\ pc'[c] # "start"
        /\ pc'[c] \in WithPage \/ pc[c] = "request"
    <3>1. CASE Go(c, "backoff") /\ UNCHANGED result
      BY <1>a, <1>n, <1>2, <3>1, GoWhere DEF Visit, Ending, WithPage, Abandoned
    <3>2. CASE Settle(c, Verdict(v))
      BY <1>a, <1>2, <2>2, <3>2, SettleWhere DEF Visit, Ending, WithPage
    <3>3. QED
      BY <2>1, <3>1, <3>2
  <2>4. pc[c] = "request" => c \notin pages
    BY <1>n DEF Tidy, PageInv, WithPage, Ending
  <2>5. QED
    BY <1>n, <1>2, <2>3, <2>4, QuietStep
    DEF Visit, playwright, service, Ending, Abandoned
<1>3. CASE Backoff(c)
  <2>1. Alone(c) /\ pc'[c] = "visit" /\ result'[c] = result[c]
    BY <1>a, <1>3, GoWhere DEF Backoff
  <2>2. QED
    BY <1>n, <1>3, <2>1, QuietStep
    DEF Backoff, playwright, service, Ending, WithPage, Abandoned
<1>4. CASE OpenSession(c)
  <2>1. Alone(c) /\ pc'[c] = "use" /\ result'[c] = result[c]
    BY <1>a, <1>4, GoWhere DEF OpenSession
  <2>2. QED
    BY <1>n, <1>4, <2>1, QuietStep
    DEF OpenSession, playwright, service, Ending, WithPage, Abandoned
<1>5. CASE UsePage(c)
  <2>1. Alone(c) /\ pc'[c] = "close" /\ result'[c] # "abandoned"
    BY <1>a, <1>5, SettleWhere DEF UsePage
  <2>2. QED
    BY <1>n, <1>5, <2>1, QuietStep
    DEF UsePage, playwright, service, Ending, WithPage, Abandoned
<1>6. CASE ClosePage(c)
  <2>1. Alone(c) /\ pc'[c] \in Ending /\ result'[c] = result[c]
    BY <1>a, <1>6, GoWhere, AfterWhere DEF ClosePage
  <2>2. QED
    BY <1>n, <1>6, <2>1, QuietStep DEF ClosePage, service, Ending, Abandoned
<1>7. CASE Log(c)
  <2>1. Alone(c) /\ pc'[c] \in Ending /\ result'[c] = result[c]
    BY <1>a, <1>7, GoWhere, AfterWhere DEF Log
  <2>2. c \in pages => result[c] = "abandoned"
    BY <1>7 DEF Log, Tidy, PageInv, WithPage, Abandoned
  <2>3. QED
    BY <1>7, <2>1, <2>2, QuietStep DEF Log, playwright, service, Ending
<1>8. QED
  BY <1>1, <1>2, <1>3, <1>4, <1>5, <1>6, <1>7

\* Cancellation keeps Tidy.
LEMMA CancelTidy ==
  ASSUME TypeInv, Tidy, NEW c \in Calls, Cancel(c)
  PROVE  Tidy'
<1>a. CallsOK /\ HeldOK
  BY TypeHalves DEF TypeInv
<1>n. c \notin Abandoned /\ runtime' = runtime
  BY DEF Cancel, CancelWait, CancelStart, CancelLaunch, CancelPage,
         CancelOpening, CancelEnding, Cancellable, Abandoned, Stopped, Stop
<1>1. ASSUME NEW r, NEW l, Stop(c, r, l)
      PROVE  Alone(c) /\ pc'[c] = l /\ result'[c] = r
  BY <1>a, <1>1 DEF Stop, Go, Alone, CallsOK
<1>2. CASE CancelWait(c)
  <2>1. Alone(c) /\ pc'[c] = Leaving(c, "cancelled") /\ result'[c] = "cancelled"
    BY <1>1, <1>2 DEF CancelWait
  <2>2. c \in pages => pc[c] \in {"visit", "backoff", "use"}
    BY <1>n, <1>2 DEF CancelWait, Tidy, PageInv, WithPage
  <2>3. pc'[c] \in {"close", "end", "log"}
    BY <2>1, LeavingWhere
  <2>4. c \in pages => pc'[c] = "close"
    BY <2>1, <2>2, LeavingWhere
  <2>5. QED
    BY <1>n, <1>2, <2>1, <2>3, <2>4, QuietStep DEF CancelWait, WithPage, Abandoned
<1>3. CASE CancelStart(c)
  <2>1. Alone(c) /\ pc'[c] \in Ending /\ result'[c] = "abandoned"
    BY <1>1, <1>3, LeavingWhere DEF CancelStart, Ending
  <2>2. Abandoned' = Abandoned \cup {c}
    BY <2>1 DEF Abandoned, Alone
  <2>3. AbandonedEnds' /\ PageInv'
    BY <1>a, <1>3, <2>1, <2>2
    DEF CancelStart, Tidy, AbandonedEnds, PageInv, Alone, Abandoned, HeldOK
  <2>4. initLock = c /\ initLock' = None
    BY <1>3 DEF CancelStart, Tidy, LockInv
  <2>5. LockInv'
    BY <2>1, <2>4 DEF Tidy, LockInv, Alone, Ending
  <2>6. OneRuntime'
    BY <1>n, <1>3, <2>2 DEF CancelStart, Tidy, OneRuntime
  <2>7. QED
    BY <2>3, <2>5, <2>6 DEF Tidy
<1>4. CASE CancelLaunch(c) \/ CancelPage(c) \/ CancelOpening(c)
  <2>1. /\ Alone(c) /\ pc'[c] \in Ending /\ result'[c] = "abandoned"
        /\ pc[c] # "start" /\ alive' = alive /\ initLock' = initLock
        /\ pages' \subseteq pages \cup {c}
    BY <1>1, <1>4, LeavingWhere DEF CancelLaunch, CancelPage, CancelOpening, Ending
  <2>2. QED
    BY <1>n, <2>1, QuietStep DEF Ending
<1>5. CASE CancelEnding(c)
  <2>1. /\ Alone(c) /\ pc'[c] \in Ending /\ result'[c] = "cancelled"
        /\ pc[c] # "start" /\ alive' = alive /\ initLock' = initLock
    BY <1>1, <1>5, AfterWhere DEF CancelEnding, Ending
  <2>2. pages' \subseteq pages /\ c \notin pages'
    BY <1>n, <1>5 DEF CancelEnding, Tidy, PageInv, WithPage
  <2>3. QED
    BY <1>n, <2>1, <2>2, QuietStep DEF Ending, Abandoned
<1>6. QED
  BY <1>2, <1>3, <1>4, <1>5 DEF Cancel

\* Crashes, the clock and shutdown keep Tidy.
LEMMA EnvironmentTidy ==
  ASSUME TypeInv, Tidy,
         \/ \E x \in Calls : Crash(x)
         \/ Tick \/ Shutdown \/ CloseContext \/ StopRuntime
  PROVE  Tidy'
<1>1. /\ UNCHANGED callVars /\ initLock' = initLock
      /\ pages' \subseteq pages
      /\ \/ alive' = alive /\ runtime' = runtime
         \/ alive' = alive \ {runtime} /\ runtime' = None
  BY DEF Crash, Tick, Shutdown, CloseContext, StopRuntime, Within, playwright, service
<1>2. Abandoned' = Abandoned
  BY <1>1 DEF Abandoned, callVars
<1>3. AbandonedEnds' /\ LockInv' /\ PageInv'
  BY <1>1, <1>2 DEF Tidy, AbandonedEnds, LockInv, PageInv, callVars
<1>4. OneRuntime'
  BY <1>1, <1>2 DEF Tidy, OneRuntime
<1>5. QED
  BY <1>3, <1>4 DEF Tidy

\* Every step keeps Tidy.
LEMMA TidyStep == TypeInv /\ Tidy /\ [Next]_vars => Tidy'
<1> SUFFICES ASSUME TypeInv, Tidy, [Next]_vars PROVE Tidy'
  OBVIOUS
<1>1. CASE UNCHANGED vars
  BY <1>1
  DEF vars, callVars, playwright, service, Tidy, AbandonedEnds, LockInv, PageInv,
      OneRuntime, Abandoned
<1>2. ASSUME NEW c \in Calls, CallStep(c)
      PROVE  Tidy'
  BY <1>2, TokenTidy, RuntimeTidy, PageTidy DEF CallStep
<1>3. QED
  BY <1>1, <1>2, CancelTidy, EnvironmentTidy DEF Next, Quiescent

\* Tidy is an invariant of the service.
LEMMA TidyInvariant == Spec => []Tidy
<1>1. Init => Tidy
  BY AskAssumption
  DEF Init, Tidy, AbandonedEnds, LockInv, PageInv, OneRuntime, Abandoned
<1>2. QED
  BY <1>1, InitType, TypeStep, TidyStep, PTL DEF Spec

\* However callers race for the lock, fail, are cancelled or meet a shutdown, no
\* Playwright runtime runs that shutdown would not stop, save for a start that
\* was abandoned.
THEOREM RuntimeTracked == Spec => []OneRuntime
<1>1. Tidy => OneRuntime
  BY DEF Tidy
<1>2. QED
  BY <1>1, TidyInvariant, PTL

\* A call that is over has closed its page, unless it was abandoned while the
\* page was opened or the session logged.
THEOREM PagesAreClosed == Spec => []PagesClosed
<1>1. Tidy => PagesClosed
  BY DEF Tidy, PageInv, PagesClosed, WithPage
<1>2. QED
  BY <1>1, TidyInvariant, PTL

----
\* What a call has tried and logged, by where it is.

Before == {"pace", "lock", "start", "launch", "page"}
Statuses == {"success", "degraded", "error"}
Row(a, s) == [action |-> a, status |-> s]
Opened == <<Row("session", "success")>>

\* Between its tries a call has been told of one transient error; once it is on
\* its way out its result is the verdict on the last try.
TriesOK(c) ==
  /\ pc[c] \in Before \cup {"request", "openlog", "use"} => visits[c] = <<>>
  /\ pc[c] = "visit" =>
       visits[c] = <<>> \/ (Fetches(c) /\ visits[c] = <<"transient">>)
  /\ pc[c] = "backoff" => Fetches(c) /\ visits[c] = <<"transient">>
  /\ pc[c] \in Ending \cup {"close"} =>
       \/ visits[c] = <<>>
       \/ \E v \in Visited :
            /\ \/ visits[c] = <<v>>
               \/ Fetches(c) /\ visits[c] = <<"transient", v>>
            /\ \/ result[c] \in Stopped
               \/ /\ result[c] = Verdict(v)
                  /\ v = "transient" => visits[c] = <<"transient", v>>

\* A status that may stand beside the result of the call.
Honest(c, s) == s \in Statuses /\ (s = "error" => result[c] \in {"typed"} \cup Stopped)

\* The rows of a call that is over: those of its kind, or fewer if it was
\* stopped on its way.
RowsAtEnd(c) ==
  \/ Kind(c) = "session" /\ rows[c] \in {<<>>, Opened}
  \/ Kind(c) # "session" /\ result[c] \in Stopped /\ rows[c] = <<>>
  \/ /\ Kind(c) # "session" /\ (Kind(c) = "extract_text" => result[c] \in Stopped)
     /\ \E a \in Kinds, s \in Statuses :
          /\ Honest(c, s) /\ rows[c] = <<Row(a, s)>>
          /\ result[c] \in Stopped \/ a = Kind(c)
  \/ /\ Kind(c) = "extract_text"
     /\ \E s, t \in Statuses :
          /\ Honest(c, s) /\ Honest(c, t)
          /\ rows[c] = <<Row("fetch", s), Row("extract_text", t)>>

RowsOK(c) ==
  /\ pc[c] \in Before \cup {"request", "visit", "backoff", "openlog", "log"} =>
       rows[c] = <<>>
  /\ pc[c] \in {"openlog", "use"} => Kind(c) = "session"
  /\ pc[c] \in {"log", "visit", "backoff", "request"} => Kind(c) # "session"
  /\ pc[c] \in {"use", "close"} =>
       \/ rows[c] = <<>>
       \/ Kind(c) = "session" /\ rows[c] = Opened
  /\ pc[c] = "textlog" =>
       /\ Kind(c) = "extract_text"
       /\ \/ result[c] \in Stopped /\ rows[c] = <<>>
          \/ \E s \in Statuses : Honest(c, s) /\ rows[c] = <<Row("fetch", s)>>
  /\ pc[c] = "end" => RowsAtEnd(c)

Kept(c) == TriesOK(c) /\ RowsOK(c)

\* A call that no step touches keeps what it has.
LEMMA KeptStays ==
  ASSUME NEW c \in Calls, Kept(c), ask' = ask, pc'[c] = pc[c],
         visits'[c] = visits[c], result'[c] = result[c], rows'[c] = rows[c]
  PROVE  Kept(c)'
<1>1. TriesOK(c)'
  BY DEF Kept, TriesOK, Fetches, Kind
<1>2. RowsAtEnd(c) => RowsAtEnd(c)'
  BY DEF RowsAtEnd, Honest, Kind
<1>3. RowsOK(c)'
  BY <1>2 DEF Kept, RowsOK, Honest, Kind
<1>4. QED
  BY <1>1, <1>3 DEF Kept

\* A call that moves on with nothing tried or logged keeps what it has.
LEMMA KeptFresh ==
  ASSUME NEW c \in Calls, Kept(c), pc[c] \in Before, ask' = ask,
         pc'[c] \in Before \cup {"request", "visit", "openlog"},
         pc'[c] = "openlog" => Kind(c) = "session",
         pc'[c] \in {"request", "visit"} => Kind(c) # "session",
         visits' = visits, rows' = rows
  PROVE  Kept(c)'
<1>1. visits'[c] = <<>> /\ rows'[c] = <<>>
  BY DEF Kept, TriesOK, RowsOK
<1>2. Kind(c)' = Kind(c)
  BY DEF Kind
<1>3. TriesOK(c)'
  BY <1>1 DEF TriesOK, Before, Ending
<1>4. RowsOK(c)'
  BY <1>1, <1>2 DEF RowsOK, Before
<1>5. QED
  BY <1>3, <1>4 DEF Kept

\* A call that has its page to use has logged nothing, or that a session opened.
LEMMA RowsInUse ==
  ASSUME NEW c \in Calls, Kept(c), pc[c] \in {"visit", "backoff", "use"}
  PROVE  rows[c] = <<>> \/ (Kind(c) = "session" /\ rows[c] = Opened)
<1>1. CASE pc[c] = "use"
  BY <1>1 DEF Kept, RowsOK
<1>2. CASE pc[c] # "use"
  BY <1>2 DEF Kept, RowsOK
<1>3. QED
  BY <1>1, <1>2

\* A call that is led out with nothing tried keeps what it has.
LEMMA KeptLeaving ==
  ASSUME NEW c \in Calls, Kept(c), ask' = ask, rows' = rows,
         pc[c] \in Before \cup {"request", "visit", "backoff", "use"},
         pc'[c] = Leaving(c, result'[c]),
         \/ visits'[c] = <<>>
         \/ \E v \in Visited :
              /\ \/ visits'[c] = <<v>>
                 \/ Fetches(c) /\ visits'[c] = <<"transient", v>>
              /\ \/ result'[c] \in Stopped
                 \/ /\ result'[c] = Verdict(v)
                    /\ v = "transient" => visits'[c] = <<"transient", v>>
  PROVE  Kept(c)'
<1>1. Fetches(c)' = Fetches(c) /\ Kind(c)' = Kind(c)
  BY DEF Fetches, Kind
<1>2. pc'[c] \in {"close", "end", "log"}
  BY LeavingWhere DEF Before
<1>3. TriesOK(c)'
  BY <1>1, <1>2 DEF TriesOK, Before, Ending
<1>4. CASE pc[c] \in {"visit", "backoff", "use"}
  <2>1. pc'[c] = "close"
    BY <1>4, LeavingWhere
  <2>2. rows'[c] = <<>> \/ (Kind(c) = "session" /\ rows'[c] = Opened)
    BY <1>4, RowsInUse
  <2>3. RowsOK(c)'
    BY <1>1, <2>1, <2>2 DEF RowsOK, Before
  <2>4. QED
    BY <1>3, <2>3 DEF Kept
<1>5. CASE pc[c] \notin {"visit", "backoff", "use"}
  <2>1. rows'[c] = <<>>
    BY <1>5 DEF Kept, RowsOK
  <2>2. pc'[c] = IF Kind(c) = "session" THEN "end" ELSE "log"
    BY <1>5 DEF Leaving
  <2>3. Kind(c) = "session" => RowsAtEnd(c)'
    BY <1>1, <2>1 DEF RowsAtEnd
  <2>4. RowsOK(c)'
    BY <1>1, <2>1, <2>2, <2>3 DEF RowsOK, Before
  <2>5. QED
    BY <1>3, <2>4 DEF Kept
<1>6. QED
  BY <1>4, <1>5

\* The calls a step does not move keep what they have.
LEMMA KeptAlone ==
  ASSUME NEW c \in Calls, \A d \in Calls : Kept(d), Kept(c)', ask' = ask, Alone(c),
         \A d \in Calls \ {c} : visits'[d] = visits[d] /\ rows'[d] = rows[d]
  PROVE  \A d \in Calls : Kept(d)'
BY KeptStays DEF Alone

\* The steps up to the page keep what the calls have.
LEMMA ReachKept ==
  ASSUME TypeInv, NEW c \in Calls, \A d \in Calls : Kept(d),
         \/ Dispatch(c) \/ Refuse(c) \/ EnterLock(c) \/ StartRuntime(c)
         \/ StartFails(c) \/ Launch(c) \/ Breaks(c) \/ OpenPage(c)
  PROVE  \A d \in Calls : Kept(d)'
<1>a. CallsOK /\ HeldOK /\ Kept(c)
  BY TypeHalves DEF TypeInv
<1>b. /\ ask' = ask /\ visits' = visits /\ rows' = rows
      /\ pc[c] \in Before
  BY DEF Dispatch, Refuse, EnterLock, StartRuntime, StartFails, Launch, Breaks,
         OpenPage, Before
<1>v. visits'[c] = <<>>
  BY <1>a, <1>b DEF Kept, TriesOK
<1>s. ASSUME NEW r, Settle(c, r)
      PROVE  Alone(c) /\ Kept(c)'
  <2>1. Alone(c) /\ result'[c] = r
    BY <1>a, <1>s, SettleWhere
  <2>2. pc'[c] = Leaving(c, result'[c])
    BY <1>a, <1>s, <2>1 DEF Settle, Go, CallsOK
  <2>3. QED
    BY <1>a, <1>b, <1>v, <2>1, <2>2, KeptLeaving
<1>g. ASSUME NEW l \in Before \cup {"request", "visit", "openlog"}, Go(c, l), result' = result,
             l = "openlog" => Kind(c) = "session",
             l \in {"request", "visit"} => Kind(c) # "session"
      PROVE  Alone(c) /\ Kept(c)'
  <2>1. Alone(c) /\ pc'[c] = l
    BY <1>a, <1>g, GoWhere
  <2>2. QED
    BY <1>a, <1>b, <1>g, <2>1, KeptFresh
<1>i. /\ InContext(c) \in Before \cup {"request", "visit", "openlog"}
      /\ InContext(c) # "openlog"
      /\ InContext(c) \in {"request", "visit"} => Kind(c) # "session"
  BY DEF InContext, Before
<1>1. CASE Dispatch(c)
  <2>1. GetContext(c)
    BY <1>1 DEF Dispatch
  <2>2. ASSUME Settle(c, "typed")
        PROVE  Alone(c) /\ Kept(c)'
    BY <1>s, <2>2
  <2>3. ASSUME Go(c, InContext(c)), result' = result
        PROVE  Alone(c) /\ Kept(c)'
    BY <1>g, <1>i, <2>3
  <2>4. ASSUME NEW l \in {"launch", "start", "lock"}, Go(c, l), result' = result
        PROVE  Alone(c) /\ Kept(c)'
    BY <1>g, <2>4 DEF Before
  <2>5. Alone(c) /\ Kept(c)'
    BY <2>1, <2>2, <2>3, <2>4 DEF GetContext
  <2>6. QED
    BY <2>5, <1>a, <1>b, KeptAlone
<1>2. CASE Refuse(c) \/ StartFails(c) \/ Breaks(c)
  <2>1. PICK r : Settle(c, r)
    BY <1>2 DEF Refuse, StartFails, Breaks
  <2>2. QED
    BY <1>a, <1>b, <1>s, <2>1, KeptAlone
<1>3. CASE EnterLock(c) \/ StartRuntime(c)
  <2>1. PICK l \in {"start", "launch"} : Go(c, l)
    BY <1>3 DEF EnterLock, StartRuntime
  <2>2. result' = result
    BY <1>3 DEF EnterLock, StartRuntime
  <2>3. Alone(c) /\ Kept(c)'
    BY <1>g, <2>1, <2>2 DEF Before
  <2>4. QED
    BY <1>a, <1>b, <2>3, KeptAlone
<1>4. CASE Launch(c)
  <2>1. Alone(c) /\ Kept(c)'
    BY <1>g, <1>i, <1>4 DEF Launch
  <2>2. QED
    BY <1>a, <1>b, <2>1, KeptAlone
<1>5. CASE OpenPage(c)
  <2>1. Alone(c) /\ Kept(c)'
    <3>1. CASE Kind(c) = "session"
      BY <1>g, <1>5, <3>1 DEF OpenPage
    <3>2. CASE Kind(c) # "session"
      BY <1>g, <1>5, <3>2 DEF OpenPage
    <3>3. QED
      BY <3>1, <3>2
  <2>2. QED
    BY <1>a, <1>b, <2>1, KeptAlone
<1>6. QED
  BY <1>1, <1>2, <1>3, <1>4, <1>5

\* Appending to a sequence of one makes one of two.
LEMMA AppendTwo ==
  ASSUME NEW a, NEW b
  PROVE  Append(<<a>>, b) = <<a, b>>
<1> DEFINE s == Append(<<a>>, b)
<1>1. <<a>> \in Seq({a, b}) /\ <<a, b>> \in Seq({a, b}) /\ b \in {a, b}
  OBVIOUS
<1>2. s \in Seq({a, b}) /\ Len(s) = 2 /\ s[1] = a /\ s[2] = b
  BY <1>1
<1>3. s = [i \in 1..2 |-> s[i]]
  BY <1>2
<1>4. <<a, b>> = [i \in 1..2 |-> <<a, b>>[i]]
  BY <1>1
<1>5. \A i \in 1..2 : s[i] = <<a, b>>[i]
  BY <1>2
<1>6. QED
  BY <1>3, <1>4, <1>5

\* A visit, and the pause before the next, keep what the calls have.
LEMMA VisitKept ==
  ASSUME TypeInv, NEW c \in Calls, \A d \in Calls : Kept(d),
         Visit(c) \/ Backoff(c)
  PROVE  \A d \in Calls : Kept(d)'
<1>a. CallsOK /\ HeldOK /\ Kept(c)
  BY TypeHalves DEF TypeInv
<1>b. ask' = ask /\ rows' = rows /\ Kind(c)' = Kind(c) /\ Fetches(c)' = Fetches(c)
  BY DEF Visit, Backoff, Kind, Fetches
<1>1. CASE Visit(c)
  <2>1. PICK v \in Landings(c) :
          /\ visits' = [visits EXCEPT ![c] = Append(@, v)]
          /\ IF v = "transient" /\ Again(Len(visits[c]) + 1)
             THEN Go(c, "backoff") /\ UNCHANGED result
             ELSE Settle(c, Verdict(v))
    BY <1>1 DEF Visit
  <2>2. v \in Visited /\ (v = "transient" => Fetches(c))
    BY LandingType DEF Landings
  <2>3. \/ visits[c] = <<>>
        \/ pc[c] = "visit" /\ Fetches(c) /\ visits[c] = <<"transient">>
    BY <1>a, <1>1 DEF Visit, Kept, TriesOK
  <2>4. \/ visits[c] = <<>> /\ visits'[c] = <<v>>
        \/ visits[c] = <<"transient">> /\ Fetches(c) /\ visits'[c] = <<"transient", v>>
    <3>1. visits'[c] = Append(visits[c], v)
      BY <1>a, <2>1 DEF CallsOK
    <3>2. Append(<<>>, v) = <<v>>
      OBVIOUS
    <3>3. Append(<<"transient">>, v) = <<"transient", v>>
      BY AppendTwo
    <3>4. CASE visits[c] = <<>>
      BY <3>1, <3>2, <3>4
    <3>5. CASE visits[c] = <<"transient">> /\ Fetches(c)
      BY <3>1, <3>3, <3>5
    <3>6. QED
      BY <2>3, <3>4, <3>5
  <2>5. CASE v = "transient" /\ visits[c] = <<>>
    <3>1. Go(c, "backoff") /\ result' = result
      BY <2>1, <2>5 DEF Again
    <3>2. Alone(c) /\ pc'[c] = "backoff"
      BY <1>a, <3>1, GoWhere
    <3>3. visits'[c] = <<"transient">>
      BY <2>4, <2>5
    <3>4. TriesOK(c)'
      BY <1>b, <2>2, <2>5, <3>2, <3>3 DEF TriesOK, Before, Ending
    <3>5. rows'[c] = <<>> /\ Kind(c) # "session"
      BY <1>a, <1>b, <1>1 DEF Visit, Kept, RowsOK
    <3>6. RowsOK(c)'
      BY <1>b, <3>2, <3>5 DEF RowsOK, Before
    <3>7. \A d \in Calls \ {c} : visits'[d] = visits[d]
      BY <1>a, <2>1 DEF CallsOK
    <3>8. QED
      BY <1>a, <1>b, <3>2, <3>4, <3>6, <3>7, KeptAlone DEF Kept
  <2>6. CASE ~(v = "transient" /\ visits[c] = <<>>)
    <3>1. Settle(c, Verdict(v))
      BY <2>1, <2>4, <2>6 DEF Again
    <3>2. Alone(c) /\ result'[c] = Verdict(v)
      BY <1>a, <3>1, SettleWhere
    <3>3. pc'[c] = Leaving(c, result'[c])
      BY <1>a, <3>1, <3>2 DEF Settle, Go, CallsOK
    <3>4. pc[c] \in {"visit", "request"}
      BY <1>1 DEF Visit
    <3>5. Kept(c)'
      BY <1>a, <1>b, <2>2, <2>4, <2>6, <3>2, <3>3, <3>4, KeptLeaving
    <3>6. \A d \in Calls \ {c} : visits'[d] = visits[d]
      BY <1>a, <2>1 DEF CallsOK
    <3>7. QED
      BY <1>a, <1>b, <3>2, <3>5, <3>6, KeptAlone
  <2>7. QED
    BY <2>5, <2>6
<1>2. CASE Backoff(c)
  <2>1. Alone(c) /\ pc'[c] = "visit" /\ visits' = visits
    BY <1>a, <1>2, GoWhere DEF Backoff
  <2>2. /\ Fetches(c) /\ visits[c] = <<"transient">>
        /\ rows[c] = <<>> /\ Kind(c) # "session"
    BY <1>a, <1>2 DEF Backoff, Kept, TriesOK, RowsOK
  <2>3. TriesOK(c)'
    BY <1>b, <2>1, <2>2 DEF TriesOK, Before, Ending
  <2>4. RowsOK(c)'
    BY <1>b, <2>1, <2>2 DEF RowsOK, Before
  <2>5. QED
    BY <1>a, <1>b, <2>1, <2>3, <2>4, KeptAlone DEF Kept
<1>3. QED
  BY <1>1, <1>2

\* A status that stood beside the result stands beside it while it stays, and
\* beside that of a stopped call.
LEMMA HonestStays ==
  ASSUME NEW c \in Calls, NEW s, Honest(c, s),
         result'[c] = result[c] \/ result'[c] \in Stopped
  PROVE  Honest(c, s)'
BY DEF Honest

\* What a session and its page leave keeps what the calls have.
LEMMA SessionKept ==
  ASSUME TypeInv, NEW c \in Calls, \A d \in Calls : Kept(d),
         OpenSession(c) \/ UsePage(c)
  PROVE  \A d \in Calls : Kept(d)'
<1>a. CallsOK /\ HeldOK /\ Kept(c)
  BY TypeHalves DEF TypeInv
<1>b. ask' = ask /\ visits' = visits /\ Kind(c)' = Kind(c)
  BY DEF OpenSession, UsePage, Kind
<1>1. CASE OpenSession(c)
  <2>1. Alone(c) /\ pc'[c] = "use"
    BY <1>a, <1>1, GoWhere DEF OpenSession
  <2>2. visits'[c] = <<>> /\ Kind(c) = "session" /\ rows[c] = <<>>
    BY <1>a, <1>b, <1>1 DEF OpenSession, Kept, TriesOK, RowsOK
  <2>3. rows'[c] = Opened
    BY <1>a, <1>1, <2>2 DEF OpenSession, CallsOK, Row, Opened
  <2>4. TriesOK(c)'
    BY <2>1, <2>2 DEF TriesOK, Before, Ending
  <2>5. RowsOK(c)'
    BY <1>b, <2>1, <2>2, <2>3 DEF RowsOK, Before
  <2>6. \A d \in Calls \ {c} : rows'[d] = rows[d]
    BY <1>a, <1>1 DEF OpenSession, CallsOK
  <2>7. QED
    BY <1>a, <1>b, <2>1, <2>4, <2>5, <2>6, KeptAlone DEF Kept
<1>2. CASE UsePage(c)
  <2>1. PICK r : Settle(c, r)
    BY <1>2 DEF UsePage
  <2>2. Alone(c) /\ result'[c] = r
    BY <1>a, <2>1, SettleWhere
  <2>3. pc'[c] = Leaving(c, result'[c])
    BY <1>a, <2>1, <2>2 DEF Settle, Go, CallsOK
  <2>4. visits'[c] = <<>> /\ rows' = rows /\ pc[c] = "use"
    BY <1>a, <1>b, <1>2 DEF UsePage, Kept, TriesOK
  <2>5. Kept(c)'
    BY <1>a, <1>b, <2>3, <2>4, KeptLeaving
  <2>6. QED
    BY <1>a, <1>b, <2>2, <2>4, <2>5, KeptAlone
<1>3. QED
  BY <1>1, <1>2

\* What has been tried stays said of a call on its way out, whatever stops it.
LEMMA TriesStay ==
  ASSUME NEW c \in Calls, Kept(c), ask' = ask, visits' = visits,
         pc[c] \in Ending \cup {"close"}, pc'[c] \in Ending \cup {"close"},
         result'[c] = result[c] \/ result'[c] \in Stopped
  PROVE  TriesOK(c)'
<1>1. Fetches(c)' = Fetches(c)
  BY DEF Fetches, Kind
<1>2. \/ visits[c] = <<>>
      \/ \E v \in Visited :
           /\ \/ visits[c] = <<v>>
              \/ Fetches(c) /\ visits[c] = <<"transient", v>>
           /\ \/ result[c] \in Stopped
              \/ /\ result[c] = Verdict(v)
                 /\ v = "transient" => visits[c] = <<"transient", v>>
  BY DEF Kept, TriesOK
<1>3. CASE visits[c] = <<>>
  BY <1>3 DEF TriesOK, Before, Ending
<1>4. ASSUME NEW v \in Visited,
             \/ visits[c] = <<v>>
             \/ Fetches(c) /\ visits[c] = <<"transient", v>>,
             \/ result[c] \in Stopped
             \/ /\ result[c] = Verdict(v)
                /\ v = "transient" => visits[c] = <<"transient", v>>
      PROVE  TriesOK(c)'
  <2>1. /\ \/ visits'[c] = <<v>>
           \/ Fetches(c)' /\ visits'[c] = <<"transient", v>>
        /\ \/ result'[c] \in Stopped
           \/ /\ result'[c] = Verdict(v)
              /\ v = "transient" => visits'[c] = <<"transient", v>>
    BY <1>1, <1>4
  <2>2. pc'[c] \notin Before \cup {"request", "openlog", "use", "visit", "backoff"}
    BY DEF Before, Ending
  <2>3. QED
    BY <2>1, <2>2 DEF TriesOK
<1>5. QED
  BY <1>2, <1>3, <1>4

\* A call that closes its page keeps what it has, be it stopped while it waits.
LEMMA CloseKept ==
  ASSUME NEW c \in Calls, Kept(c), ask' = ask, rows' = rows,
         pc[c] = "close", pc'[c] = AfterClose(c)
  PROVE  RowsOK(c)'
<1>1. Kind(c)' = Kind(c)
  BY DEF Kind
<1>2. rows[c] = <<>> \/ (Kind(c) = "session" /\ rows[c] = Opened)
  BY DEF Kept, RowsOK
<1>3. CASE Kind(c) = "session"
  <2>1. pc'[c] = "end" /\ RowsAtEnd(c)'
    BY <1>1, <1>2, <1>3 DEF AfterClose, RowsAtEnd
  <2>2. QED
    BY <2>1 DEF RowsOK, Before
<1>4. CASE Kind(c) # "session"
  <2>1. pc'[c] = "log" /\ rows'[c] = <<>>
    BY <1>2, <1>4 DEF AfterClose
  <2>2. QED
    BY <1>1, <1>4, <2>1 DEF RowsOK, Before
<1>5. QED
  BY <1>3, <1>4

\* A call that is stopped at its row leaves without it.
LEMMA UnloggedKept ==
  ASSUME CallsOK, NEW c \in Calls, Kept(c), ask' = ask, rows' = rows,
         pc[c] \in {"log", "textlog"}, pc'[c] = AfterLog(c),
         result'[c] \in Stopped
  PROVE  RowsOK(c)'
<1>1. Kind(c)' = Kind(c) /\ Kind(c) \in Kinds
  BY AskType DEF Kind
<1>2. CASE pc[c] = "log"
  <2>1. rows'[c] = <<>> /\ Kind(c) # "session"
    BY <1>2 DEF Kept, RowsOK
  <2>2. pc'[c] = IF Kind(c) = "extract_text" THEN "textlog" ELSE "end"
    BY <1>2 DEF AfterLog
  <2>3. RowsAtEnd(c)'
    BY <1>1, <2>1 DEF RowsAtEnd
  <2>4. QED
    BY <1>1, <2>1, <2>2, <2>3 DEF RowsOK, Before
<1>3. CASE pc[c] = "textlog"
  <2>1. Kind(c) = "extract_text" /\ pc'[c] = "end"
    BY <1>3 DEF Kept, RowsOK, AfterLog
  <2>2. \/ rows[c] = <<>>
        \/ \E s \in Statuses : Honest(c, s) /\ rows[c] = <<Row("fetch", s)>>
    BY <1>3 DEF Kept, RowsOK
  <2>3. RowsAtEnd(c)'
    <3>1. CASE rows[c] = <<>>
      BY <1>1, <2>1, <3>1 DEF RowsAtEnd
    <3>2. ASSUME NEW s \in Statuses, Honest(c, s), rows[c] = <<Row("fetch", s)>>
          PROVE  RowsAtEnd(c)'
      <4>1. Honest(c, s)' /\ "fetch" \in Kinds
        BY <3>2, HonestStays DEF Kinds
      <4>2. QED
        BY <1>1, <2>1, <3>2, <4>1 DEF RowsAtEnd
    <3>3. QED
      BY <2>2, <3>1, <3>2
  <2>4. QED
    BY <2>1, <2>3 DEF RowsOK, Before
<1>4. QED
  BY <1>2, <1>3

\* The row of a call is the one of its kind, or that of its fetch before it.
LEMMA LoggedKept ==
  ASSUME CallsOK, NEW c \in Calls, Kept(c), Log(c)
  PROVE  Alone(c) /\ RowsOK(c)' /\ result' = result /\ pc'[c] \in Ending
<1>1. Kind(c)' = Kind(c) /\ Kind(c) \in Kinds
  BY AskType DEF Kind, Log
<1>2. Alone(c) /\ pc'[c] = AfterLog(c) /\ result' = result
  BY GoWhere DEF Log
<1>s. PICK s \in Statuses : s = Status(result[c])
  BY DEF Status, Statuses
<1>3. Honest(c, s)'
  BY <1>2, <1>s DEF Status, Honest
<1>4. rows'[c] = Append(rows[c], Row(Action(c), s))
  BY <1>s DEF Log, CallsOK, Row
<1>5. CASE pc[c] = "log"
  <2>1. rows[c] = <<>> /\ Kind(c) # "session"
    BY <1>5 DEF Kept, RowsOK
  <2>2. rows'[c] = <<Row(Action(c), s)>>
    BY <1>4, <2>1
  <2>3. CASE Kind(c) = "extract_text"
    <3>1. pc'[c] = "textlog" /\ rows'[c] = <<Row("fetch", s)>>
      BY <1>2, <1>5, <2>2, <2>3 DEF AfterLog, Action
    <3>2. RowsOK(c)'
      BY <1>1, <1>3, <2>3, <3>1 DEF RowsOK, Before
    <3>3. QED
      BY <1>2, <3>1, <3>2 DEF Ending
  <2>4. CASE Kind(c) # "extract_text"
    <3>1. pc'[c] = "end" /\ rows'[c] = <<Row(Kind(c), s)>>
      BY <1>2, <1>5, <2>2, <2>4 DEF AfterLog, Action
    <3>2. RowsAtEnd(c)'
      BY <1>1, <1>3, <2>1, <2>4, <3>1 DEF RowsAtEnd
    <3>3. RowsOK(c)'
      BY <3>1, <3>2 DEF RowsOK, Before
    <3>4. QED
      BY <1>2, <3>1, <3>3 DEF Ending
  <2>5. QED
    BY <2>3, <2>4
<1>6. CASE pc[c] = "textlog"
  <2>1. Kind(c) = "extract_text" /\ pc'[c] = "end" /\ Action(c) = "extract_text"
    BY <1>2, <1>6 DEF Kept, RowsOK, AfterLog, Action
  <2>2. \/ result[c] \in Stopped /\ rows[c] = <<>>
        \/ \E t \in Statuses : Honest(c, t) /\ rows[c] = <<Row("fetch", t)>>
    BY <1>6 DEF Kept, RowsOK
  <2>3. CASE result[c] \in Stopped /\ rows[c] = <<>>
    <3>1. rows'[c] = <<Row("extract_text", s)>> /\ result'[c] \in Stopped
      BY <1>2, <1>4, <2>1, <2>3
    <3>2. RowsAtEnd(c)'
      BY <1>1, <1>3, <2>1, <3>1 DEF RowsAtEnd
    <3>3. QED
      BY <1>2, <2>1, <3>2 DEF RowsOK, Before, Ending
  <2>4. ASSUME NEW t \in Statuses, Honest(c, t), rows[c] = <<Row("fetch", t)>>
        PROVE  RowsOK(c)'
    <3>1. rows'[c] = <<Row("fetch", t), Row("extract_text", s)>>
      BY <1>4, <2>1, <2>4, AppendTwo
    <3>2. Honest(c, t)'
      BY <1>2, <2>4, HonestStays
    <3>3. RowsAtEnd(c)'
      BY <1>1, <1>3, <2>1, <2>4, <3>1, <3>2 DEF RowsAtEnd
    <3>4. QED
      BY <2>1, <3>3 DEF RowsOK, Before
  <2>5. QED
    BY <1>2, <2>1, <2>2, <2>3, <2>4 DEF Ending
<1>7. QED
  BY <1>5, <1>6 DEF Log

\* The end of a call keeps what the calls have.
LEMMA EndKept ==
  ASSUME TypeInv, NEW c \in Calls, \A d \in Calls : Kept(d),
         ClosePage(c) \/ Log(c)
  PROVE  \A d \in Calls : Kept(d)'
<1>a. CallsOK /\ Kept(c) /\ ask' = ask /\ visits' = visits /\ result' = result
  BY TypeHalves DEF TypeInv, ClosePage, Log
<1>1. CASE ClosePage(c)
  <2>1. Alone(c) /\ pc'[c] = AfterClose(c) /\ pc[c] = "close" /\ rows' = rows
    BY <1>a, <1>1, GoWhere DEF ClosePage
  <2>2. Kept(c)'
    BY <1>a, <2>1, TriesStay, CloseKept, AfterWhere DEF Kept
  <2>3. QED
    BY <1>a, <2>1, <2>2, KeptAlone
<1>2. CASE Log(c)
  <2>1. Alone(c) /\ RowsOK(c)' /\ pc'[c] \in Ending
    BY <1>a, <1>2, LoggedKept
  <2>2. pc[c] \in Ending
    BY <1>2 DEF Log, Ending
  <2>3. Kept(c)'
    BY <1>a, <2>1, <2>2, TriesStay DEF Kept
  <2>4. \A d \in Calls \ {c} : rows'[d] = rows[d]
    BY <1>a, <1>2 DEF Log, CallsOK
  <2>5. QED
    BY <1>a, <2>1, <2>3, <2>4, KeptAlone
<1>3. QED
  BY <1>1, <1>2

\* A call that is stopped keeps what the calls have.
LEMMA CancelKept ==
  ASSUME TypeInv, NEW c \in Calls, \A d \in Calls : Kept(d), Cancel(c)
  PROVE  \A d \in Calls : Kept(d)'
<1>a. CallsOK /\ Kept(c)
  BY TypeHalves DEF TypeInv
<1>b. ask' = ask /\ visits' = visits /\ rows' = rows
  BY DEF Cancel, CancelWait, CancelStart, CancelLaunch, CancelPage,
         CancelOpening, CancelEnding, Stop
<1>s. ASSUME NEW r, NEW l, Stop(c, r, l)
      PROVE  Alone(c) /\ pc'[c] = l /\ result'[c] = r
  BY <1>a, <1>s DEF Stop, Go, Alone, CallsOK
<1>1. CASE CancelWait(c) \/ CancelStart(c) \/ CancelLaunch(c) \/ CancelPage(c)
  <2>1. PICK r \in Stopped : Stop(c, r, Leaving(c, r))
    BY <1>1 DEF CancelWait, CancelStart, CancelLaunch, CancelPage, Stopped
  <2>2. Alone(c) /\ result'[c] = r /\ pc'[c] = Leaving(c, result'[c])
    BY <1>s, <2>1
  <2>3. pc[c] \in Before \cup {"request", "visit", "backoff", "use"}
    BY <1>1 DEF CancelWait, CancelStart, CancelLaunch, CancelPage, Before
  <2>4. visits[c] = <<>> \/ (visits[c] = <<"transient">>)
    <3>1. CASE pc[c] \in Before \cup {"request", "use"}
      BY <1>a, <3>1 DEF Kept, TriesOK
    <3>2. CASE pc[c] \in {"visit", "backoff"}
      BY <1>a, <3>2 DEF Kept, TriesOK
    <3>3. QED
      BY <2>3, <3>1, <3>2
  <2>5. "transient" \in Visited /\ visits'[c] = visits[c]
    BY <1>b DEF Visited
  <2>6. Kept(c)'
    BY <1>a, <1>b, <2>2, <2>3, <2>4, <2>5, KeptLeaving
  <2>7. QED
    BY <1>a, <1>b, <2>2, <2>6, KeptAlone
<1>2. CASE CancelOpening(c)
  <2>1. Alone(c) /\ pc'[c] = "end" /\ pc[c] = "openlog"
    BY <1>s, <1>2 DEF CancelOpening
  <2>2. visits'[c] = <<>> /\ rows'[c] = <<>> /\ Kind(c)' = "session"
    BY <1>a, <1>b, <2>1 DEF Kept, TriesOK, RowsOK, Kind
  <2>3. TriesOK(c)'
    BY <2>1, <2>2 DEF TriesOK, Before, Ending
  <2>4. RowsOK(c)'
    BY <2>1, <2>2 DEF RowsOK, RowsAtEnd, Before
  <2>5. QED
    BY <1>a, <1>b, <2>1, <2>3, <2>4, KeptAlone DEF Kept
<1>3. CASE CancelEnding(c)
  <2>1. /\ Alone(c) /\ result'[c] = "cancelled"
        /\ pc'[c] = IF pc[c] = "close" THEN AfterClose(c) ELSE AfterLog(c)
        /\ pc[c] \in {"close", "log", "textlog"}
    BY <1>s, <1>3 DEF CancelEnding
  <2>2. result'[c] \in Stopped /\ pc'[c] \in Ending /\ pc[c] \in Ending \cup {"close"}
    BY <2>1, AfterWhere DEF Stopped, Ending
  <2>3. TriesOK(c)'
    BY <1>a, <1>b, <2>2, TriesStay
  <2>4. RowsOK(c)'
    BY <1>a, <1>b, <2>1, <2>2, CloseKept, UnloggedKept
  <2>5. QED
    BY <1>a, <1>b, <2>1, <2>3, <2>4, KeptAlone DEF Kept
<1>4. QED
  BY <1>1, <1>2, <1>3 DEF Cancel

\* Every step keeps what the calls have.
LEMMA KeptStep ==
  TypeInv /\ (\A d \in Calls : Kept(d)) /\ [Next]_vars => \A d \in Calls : Kept(d)'
<1> SUFFICES ASSUME TypeInv, \A d \in Calls : Kept(d), [Next]_vars
             PROVE  \A d \in Calls : Kept(d)'
  OBVIOUS
<1>1. ASSUME UNCHANGED callVars
      PROVE  \A d \in Calls : Kept(d)'
  <2>1. ask' = ask /\ pc' = pc /\ visits' = visits /\ result' = result /\ rows' = rows
    BY <1>1 DEF callVars
  <2>2. QED
    BY <2>1, KeptStays
<1>2. CASE \/ \E x \in Calls : Crash(x)
           \/ Tick \/ Shutdown \/ CloseContext \/ StopRuntime \/ Quiescent
           \/ UNCHANGED vars
  <2>1. UNCHANGED callVars
    BY <1>2
    DEF Crash, Tick, Shutdown, CloseContext, StopRuntime, Quiescent, vars, callVars
  <2>2. QED
    BY <1>1, <2>1
<1>3. ASSUME NEW c \in Calls, CallStep(c)
      PROVE  \A d \in Calls : Kept(d)'
  BY <1>3, ReachKept, VisitKept, SessionKept, EndKept DEF CallStep
<1>4. ASSUME NEW c \in Calls, Cancel(c)
      PROVE  \A d \in Calls : Kept(d)'
  BY <1>4, CancelKept
<1>5. QED
  BY <1>2, <1>3, <1>4 DEF Next

\* What has been tried is what the policy allows, and the caller hears the last.
LEMMA TriesAreAllowed ==
  ASSUME TypeInv, \A d \in Calls : Kept(d)
  PROVE  RetriesOnce
<1> SUFFICES ASSUME NEW c \in Calls
             PROVE  /\ Len(visits[c]) <= 2
                    /\ \A i \in DOMAIN visits[c] :
                         i < Len(visits[c]) => visits[c][i] = "transient"
                    /\ Over(c) /\ visits[c] # <<>> =>
                         /\ result[c] = "ok" <=> Last(visits[c]) = "ok"
                         /\ Last(visits[c]) = "transient" => Len(visits[c]) = 2
  BY DEF RetriesOnce
<1>a. CallsOK /\ Kept(c)
  BY TypeHalves DEF TypeInv
<1>p. pc[c] \in Before \cup {"request", "openlog", "use"} \cup {"visit", "backoff"}
                  \cup Ending \cup {"close"}
  BY <1>a DEF CallsOK, Pcs, Before, Ending
<1>t. "transient" \in Visited
  BY DEF Visited
<1>1. CASE visits[c] = <<>>
  BY <1>1
<1>2. ASSUME NEW v \in Visited, visits[c] = <<v>>,
             Over(c) => result[c] = Verdict(v) /\ v # "transient"
      PROVE  /\ Len(visits[c]) <= 2
             /\ \A i \in DOMAIN visits[c] :
                  i < Len(visits[c]) => visits[c][i] = "transient"
             /\ Over(c) /\ visits[c] # <<>> =>
                  /\ result[c] = "ok" <=> Last(visits[c]) = "ok"
                  /\ Last(visits[c]) = "transient" => Len(visits[c]) = 2
  <2>1. Len(visits[c]) = 1 /\ Last(visits[c]) = v /\ DOMAIN visits[c] = 1..1
    BY <1>2 DEF Last
  <2>2. Over(c) => (result[c] = "ok" <=> v = "ok")
    BY <1>2 DEF Verdict, Visited
  <2>3. QED
    BY <1>2, <2>1, <2>2
<1>3. ASSUME NEW v \in Visited, Fetches(c), visits[c] = <<"transient", v>>,
             Over(c) => result[c] = Verdict(v)
      PROVE  /\ Len(visits[c]) <= 2
             /\ \A i \in DOMAIN visits[c] :
                  i < Len(visits[c]) => visits[c][i] = "transient"
             /\ Over(c) /\ visits[c] # <<>> =>
                  /\ result[c] = "ok" <=> Last(visits[c]) = "ok"
                  /\ Last(visits[c]) = "transient" => Len(visits[c]) = 2
  <2>1. /\ Len(visits[c]) = 2 /\ Last(visits[c]) = v /\ DOMAIN visits[c] = 1..2
        /\ visits[c][1] = "transient"
    BY <1>3 DEF Last
  <2>2. Over(c) => (result[c] = "ok" <=> v = "ok")
    BY <1>3 DEF Verdict, Visited
  <2>3. QED
    BY <1>3, <2>1, <2>2
<1>4. CASE pc[c] \in Before \cup {"request", "openlog", "use"}
  BY <1>a, <1>1, <1>4 DEF Kept, TriesOK
<1>5. CASE pc[c] \in {"visit", "backoff"}
  <2>1. ~Over(c)
    BY <1>5 DEF Over
  <2>2. visits[c] = <<>> \/ (visits[c] = <<"transient">>)
    BY <1>a, <1>5 DEF Kept, TriesOK
  <2>3. QED
    BY <1>1, <1>2, <1>t, <2>1, <2>2
<1>6. CASE pc[c] \in Ending \cup {"close"}
  <2>1. \/ visits[c] = <<>>
        \/ \E v \in Visited :
             /\ \/ visits[c] = <<v>>
                \/ Fetches(c) /\ visits[c] = <<"transient", v>>
             /\ \/ result[c] \in Stopped
                \/ /\ result[c] = Verdict(v)
                   /\ v = "transient" => visits[c] = <<"transient", v>>
    BY <1>a, <1>6 DEF Kept, TriesOK
  <2>2. ASSUME NEW v \in Visited,
               \/ visits[c] = <<v>>
               \/ Fetches(c) /\ visits[c] = <<"transient", v>>,
               \/ result[c] \in Stopped
               \/ /\ result[c] = Verdict(v)
                  /\ v = "transient" => visits[c] = <<"transient", v>>
        PROVE  \/ Fetches(c) /\ visits[c] = <<"transient", v>>
                  /\ (Over(c) => result[c] = Verdict(v))
               \/ visits[c] = <<v>>
                  /\ (Over(c) => result[c] = Verdict(v) /\ v # "transient")
    <3>1. Over(c) => result[c] \notin Stopped
      BY DEF Over
    <3>2. CASE visits[c] = <<v>>
      <4>1. visits[c] # <<"transient", v>>
        BY <3>2
      <4>2. QED
        BY <2>2, <3>1, <3>2, <4>1
    <3>3. CASE Fetches(c) /\ visits[c] = <<"transient", v>>
      BY <2>2, <3>1, <3>3
    <3>4. QED
      BY <2>2, <3>2, <3>3
  <2>3. QED
    BY <1>1, <1>2, <1>3, <2>1, <2>2
<1>7. QED
  BY <1>p, <1>4, <1>5, <1>6


\* What is logged of a call is what the log's reader expects.
LEMMA RowsAreExpected ==
  ASSUME TypeInv, \A d \in Calls : Kept(d)
  PROVE  OneRowEach
<1> DEFINE Goal(c) ==
      /\ Over(c) /\ Kind(c) # "session" =>
           Logged(c) = IF Kind(c) = "extract_text"
                       THEN <<"fetch", "extract_text">> ELSE <<Kind(c)>>
      /\ Len(rows[c]) <= 2
      /\ \A i \in DOMAIN rows[c] :
           rows[c][i].status = "error" => result[c] \in {"typed"} \cup Stopped
<1> SUFFICES ASSUME NEW c \in Calls
             PROVE  Goal(c)
  BY DEF OneRowEach
<1>a. CallsOK /\ Kept(c) /\ Kind(c) \in Kinds
  BY TypeHalves, AskType DEF TypeInv
<1>o. Over(c) => pc[c] = "end" /\ result[c] \notin Stopped
  BY DEF Over
<1>1. ASSUME rows[c] = <<>>, ~Over(c) \/ Kind(c) = "session"
      PROVE  Goal(c)
  BY <1>1
<1>2. ASSUME NEW a \in Kinds, NEW s \in Statuses, Honest(c, s), rows[c] = <<Row(a, s)>>,
             Over(c) /\ Kind(c) # "session" => Kind(c) # "extract_text" /\ a = Kind(c)
      PROVE  Goal(c)
  <2>1. /\ Len(rows[c]) = 1 /\ DOMAIN rows[c] = 1..1
        /\ rows[c][1].status = s /\ rows[c][1].action = a
    BY <1>2 DEF Row
  <2>2. Logged(c) = <<a>>
    <3>1. Logged(c) = [i \in 1..1 |-> rows[c][i].action]
      BY <2>1 DEF Logged
    <3>2. <<a>> = [i \in 1..1 |-> a]
      OBVIOUS
    <3>3. QED
      BY <2>1, <3>1, <3>2
  <2>3. QED
    BY <1>2, <2>1, <2>2 DEF Honest
<1>3. ASSUME NEW s \in Statuses, NEW t \in Statuses, Honest(c, s), Honest(c, t),
             rows[c] = <<Row("fetch", s), Row("extract_text", t)>>,
             Kind(c) = "extract_text"
      PROVE  Goal(c)
  <2>1. /\ Len(rows[c]) = 2 /\ DOMAIN rows[c] = 1..2
        /\ rows[c][1].status = s /\ rows[c][1].action = "fetch"
        /\ rows[c][2].status = t /\ rows[c][2].action = "extract_text"
    BY <1>3 DEF Row
  <2>2. Logged(c) = <<"fetch", "extract_text">>
    <3>1. Logged(c) = [i \in 1..2 |-> rows[c][i].action]
      BY <2>1 DEF Logged
    <3>2. <<"fetch", "extract_text">>
            = [i \in 1..2 |-> IF i = 1 THEN "fetch" ELSE "extract_text"]
      OBVIOUS
    <3>3. QED
      BY <2>1, <3>1, <3>2
  <2>3. QED
    BY <1>3, <2>1, <2>2 DEF Honest
<1>w. /\ "session" \in Kinds /\ "fetch" \in Kinds /\ "success" \in Statuses
      /\ Honest(c, "success") /\ Opened = <<Row("session", "success")>>
  BY DEF Kinds, Statuses, Honest, Opened
<1>4. CASE pc[c] \in Before \cup {"request", "visit", "backoff", "openlog", "log"}
  <2>1. rows[c] = <<>>
    BY <1>a, <1>4 DEF Kept, RowsOK
  <2>2. ~Over(c)
    BY <1>o, <1>4 DEF Before
  <2>3. QED
    BY <1>1, <2>1, <2>2
<1>5. CASE pc[c] \in {"use", "close"}
  <2>1. \/ rows[c] = <<>>
        \/ Kind(c) = "session" /\ rows[c] = Opened
    BY <1>a, <1>5 DEF Kept, RowsOK
  <2>2. ~Over(c)
    BY <1>o, <1>5
  <2>3. QED
    BY <1>1, <1>2, <1>w, <2>1, <2>2
<1>6. CASE pc[c] = "textlog"
  <2>1. \/ result[c] \in Stopped /\ rows[c] = <<>>
        \/ \E s \in Statuses : Honest(c, s) /\ rows[c] = <<Row("fetch", s)>>
    BY <1>a, <1>6 DEF Kept, RowsOK
  <2>2. ~Over(c)
    BY <1>o, <1>6
  <2>3. QED
    BY <1>1, <1>2, <1>w, <2>1, <2>2
<1>7. CASE pc[c] = "end"
  <2>1. RowsAtEnd(c)
    BY <1>a, <1>7 DEF Kept, RowsOK
  <2>2. CASE Kind(c) = "session" /\ rows[c] \in {<<>>, Opened}
    BY <1>1, <1>2, <1>w, <2>2
  <2>3. CASE Kind(c) # "session" /\ result[c] \in Stopped /\ rows[c] = <<>>
    BY <1>1, <1>o, <2>3
  <2>4. CASE /\ Kind(c) # "session" /\ (Kind(c) = "extract_text" => result[c] \in Stopped)
             /\ \E a \in Kinds, s \in Statuses :
                  /\ Honest(c, s) /\ rows[c] = <<Row(a, s)>>
                  /\ result[c] \in Stopped \/ a = Kind(c)
    <3>1. PICK a \in Kinds, s \in Statuses :
                  /\ Honest(c, s) /\ rows[c] = <<Row(a, s)>>
                  /\ result[c] \in Stopped \/ a = Kind(c)
      BY <2>4
    <3>2. Over(c) => Kind(c) # "extract_text" /\ a = Kind(c)
      BY <1>o, <2>4, <3>1
    <3>3. QED
      BY <1>2, <3>1, <3>2
  <2>5. CASE /\ Kind(c) = "extract_text"
             /\ \E s, t \in Statuses :
                  /\ Honest(c, s) /\ Honest(c, t)
                  /\ rows[c] = <<Row("fetch", s), Row("extract_text", t)>>
    BY <1>3, <2>5
  <2>6. QED
    BY <2>1, <2>2, <2>3, <2>4, <2>5 DEF RowsAtEnd
<1>8. QED
  BY <1>a, <1>4, <1>5, <1>6, <1>7 DEF CallsOK, Pcs, Before

\* What every call has tried and logged is an invariant of the service.
LEMMA KeptInvariant == Spec => [](TypeInv /\ \A c \in Calls : Kept(c))
<1> DEFINE All == \A c \in Calls : Kept(c)
<1>1. Init => All
  <2> SUFFICES ASSUME Init, NEW c \in Calls PROVE Kept(c)
    OBVIOUS
  <2>1. pc[c] = "pace" /\ visits[c] = <<>> /\ rows[c] = <<>>
    BY DEF Init
  <2>2. TriesOK(c)
    BY <2>1 DEF TriesOK, Before, Ending
  <2>3. RowsOK(c)
    BY <2>1 DEF RowsOK, Before
  <2>4. QED
    BY <2>2, <2>3 DEF Kept
<1>2. TypeInv /\ All /\ [Next]_vars => All'
  BY KeptStep
<1> HIDE DEF All
<1>3. Spec => [](TypeInv /\ All)
  BY <1>1, <1>2, InitType, TypeStep, PTL DEF Spec
<1>4. QED
  BY <1>3 DEF All

\* A transient error is tried again once and nothing else is, and the caller
\* hears what the last try said, wherever other callers, crashes, a shutdown or
\* a cancellation come between.
THEOREM RetriesAreBound == Spec => []RetriesOnce
<1>1. TypeInv /\ (\A c \in Calls : Kept(c)) => RetriesOnce
  BY TriesAreAllowed
<1>2. QED
  BY <1>1, KeptInvariant, PTL

\* The log has one row of every call that ran its course, two of extract_text,
\* and an error only of calls that ended with one of the service's own.
THEOREM RowsAreHonest == Spec => []OneRowEach
<1>1. TypeInv /\ (\A c \in Calls : Kept(c)) => OneRowEach
  BY RowsAreExpected
<1>2. QED
  BY <1>1, KeptInvariant, PTL

----
\* The token buckets: what _consume_token grants a domain in any interval.  The
\* inductive invariant balances what was used since some time against what came
\* back.

\* Multiplication distributes over addition.
LEMMA Distribute ==
  ASSUME NEW x \in Int, NEW y \in Int, NEW z \in Int
  PROVE  (x + y) * z = x * z + y * z
BY SMT

\* A product grows with its first factor.
LEMMA ProductMonotone ==
  ASSUME NEW x \in Nat, NEW y \in Nat, NEW z \in Nat, x <= y
  PROVE  x * z <= y * z /\ x * z \in Nat /\ y * z \in Nat
BY SMT

\* The calls that d has had since from.
Since(d, from) == {g \in granted : Domain(g.call) = d /\ from <= g.at}

\* What a domain has used since some time and what its bucket still holds is no
\* more than a full bucket and what came back until it was last filled.
Accounts ==
  /\ IsFiniteSet(granted)
  /\ \A g \in granted : g.at <= buckets[Domain(g.call)].last
  /\ \A d \in Domains : \A from \in Times : from <= buckets[d].last =>
       Cardinality(Since(d, from)) * Unit + buckets[d].tokens
         <= Capacity * Unit + (buckets[d].last - from) * Refill

BucketInv == Accounts /\ BucketBound

\* What a finite history has granted can be counted.
LEMMA SinceFinite ==
  ASSUME IsFiniteSet(granted), NEW d, NEW from, NEW to
  PROVE  /\ IsFiniteSet(Since(d, from)) /\ Cardinality(Since(d, from)) \in Nat
         /\ IsFiniteSet(Grants(d, from, to)) /\ Cardinality(Grants(d, from, to)) \in Nat
<1>1. Since(d, from) \subseteq granted /\ Grants(d, from, to) \subseteq granted
  BY DEF Since, Grants
<1>2. QED
  BY <1>1, FS_Subset, FS_CardinalityType

\* One more grant costs one token.
LEMMA OneMore ==
  ASSUME NEW S, IsFiniteSet(S), NEW x, NEW n \in Nat
  PROVE  /\ IsFiniteSet(S \cup {x})
         /\ Cardinality(S) * n \in Nat /\ Cardinality(S \cup {x}) * n \in Nat
         /\ Cardinality(S \cup {x}) * n <= Cardinality(S) * n + n
<1>1. /\ IsFiniteSet(S \cup {x}) /\ Cardinality(S) \in Nat
      /\ Cardinality(S \cup {x}) \in Nat
      /\ Cardinality(S \cup {x}) <= Cardinality(S) + 1
  BY FS_AddElement, FS_CardinalityType
<1>2. (Cardinality(S) + 1) * n = Cardinality(S) * n + 1 * n
  BY <1>1, Distribute
<1>3. Cardinality(S \cup {x}) * n <= (Cardinality(S) + 1) * n
  BY <1>1, ProductMonotone
<1>4. Cardinality(S) * n \in Nat /\ Cardinality(S \cup {x}) * n \in Nat
  BY <1>1, ProductType
<1>5. QED
  BY <1>1, <1>2, <1>3, <1>4

\* What d has used since from and what its bucket holds once it is filled.
LEMMA FilledUp ==
  ASSUME TypeInv, BucketInv, NEW d \in Domains, NEW from \in Times, from <= now
  PROVE  Cardinality(Since(d, from)) * Unit + Refilled(d)
           <= Capacity * Unit + (now - from) * Refill
<1> DEFINE used == Cardinality(Since(d, from)) * Unit
           full == Capacity * Unit
           last == buckets[d].last
           held == buckets[d].tokens
           back == (now - last) * Refill
           earned == (now - from) * Refill
<1>1. /\ full \in Nat /\ Unit \in Nat /\ Refill \in Nat
      /\ now \in Nat /\ from \in Nat /\ last \in Nat /\ last <= now
      /\ held \in 0..full
  BY BucketAssumption, ProductType, TypeHalves
  DEF TypeInv, HeldOK, FilledPast, Parts, Times
<1>2. back \in Nat /\ earned \in Nat
  <2>1. now - last \in Nat /\ now - from \in Nat
    BY <1>1
  <2>2. QED
    BY <1>1, <2>1, ProductType
<1>3. used \in Nat
  BY <1>1, SinceFinite, ProductType DEF BucketInv, Accounts
<1>4. Refilled(d) <= full /\ Refilled(d) <= held + back /\ Refilled(d) \in Nat
  <2>1. Refilled(d) = Lesser(full, held + back)
    BY DEF Refilled
  <2> HIDE DEF full, held, back
  <2>2. QED
    BY <1>1, <1>2, <2>1 DEF Lesser
<1>5. CASE from <= last
  <2>1. used + held <= full + (last - from) * Refill
    BY <1>5 DEF BucketInv, Accounts
  <2>2. earned = back + (last - from) * Refill
    <3>1. now - from = (now - last) + (last - from)
      BY <1>1
    <3>2. now - last \in Int /\ last - from \in Int
      BY <1>1
    <3>3. QED
      BY <1>1, <3>1, <3>2, Distribute
  <2>3. (last - from) * Refill \in Nat
    <3>1. last - from \in Nat
      BY <1>1, <1>5
    <3>2. QED
      BY <1>1, <3>1, ProductType
  <2> DEFINE before == (last - from) * Refill
  <2>4. used + held <= full + before /\ earned = back + before /\ before \in Nat
    BY <2>1, <2>2, <2>3
  <2>5. used + Refilled(d) <= full + earned
    <3> HIDE DEF before, used, full, held, back, earned
    <3>1. QED
      BY <1>1, <1>2, <1>3, <1>4, <2>4
  <2>6. QED
    BY <2>5
<1>6. CASE last < from
  <2>1. Since(d, from) = {}
    <3>1. ASSUME NEW g \in Since(d, from)
          PROVE  FALSE
      <4>1. g \in granted /\ Domain(g.call) = d /\ from <= g.at /\ g.at \in Nat
        BY <3>1, TypeHalves, BucketAssumption DEF Since, TypeInv, HeldOK, Times
      <4>2. g.at <= last
        BY <4>1 DEF BucketInv, Accounts
      <4>3. QED
        BY <1>1, <1>6, <4>1, <4>2
    <3>2. QED
      BY <3>1
  <2>2. used = 0
    BY <1>1, <2>1, FS_EmptySet
  <2>3. used + Refilled(d) <= full + earned
    <3> HIDE DEF used, full, held, back, earned
    <3>1. QED
      BY <1>1, <1>2, <1>4, <2>2
  <2>4. QED
    BY <2>3
<1>7. QED
  BY <1>1, <1>5, <1>6

\* The accounts bound what a domain gets in an interval that is not over.
LEMMA OpenInterval ==
  ASSUME TypeInv', Accounts', NEW d \in Domains, NEW from \in Times,
         NEW to \in Times, from <= to, buckets'[d].last <= to
  PROVE  Cardinality(Grants(d, from, to)') * Unit
           <= Capacity * Unit + (to - from) * Refill
<1> DEFINE last == buckets'[d].last
           held == buckets'[d].tokens
           full == Capacity * Unit
           S == Since(d, from)'
           G == Grants(d, from, to)'
<1>1. /\ full \in Nat /\ Unit \in Nat /\ Refill \in Nat
      /\ from \in Nat /\ to \in Nat /\ last \in Nat
      /\ held \in 0..full
  BY BucketAssumption, ProductType, TypeHalvesNext DEF TypeInv, HeldOK, Parts, Times
<1>2. G \subseteq S /\ S \subseteq granted' /\ IsFiniteSet(granted')
  BY DEF Since, Grants, Accounts
<1>3. /\ IsFiniteSet(S) /\ Cardinality(S) \in Nat
      /\ IsFiniteSet(G) /\ Cardinality(G) \in Nat
      /\ Cardinality(G) <= Cardinality(S)
  BY <1>2, FS_Subset, FS_CardinalityType
<1>4. CASE from <= last
  <2>1. Cardinality(S) * Unit + held <= full + (last - from) * Refill
    BY <1>4 DEF Accounts
  <2>2. Cardinality(G) * Unit <= Cardinality(S) * Unit
        /\ Cardinality(G) * Unit \in Nat /\ Cardinality(S) * Unit \in Nat
    BY <1>1, <1>3, ProductMonotone
  <2>3. /\ last - from \in Nat /\ to - from \in Nat /\ last - from <= to - from
    BY <1>1, <1>4
  <2>4. /\ (last - from) * Refill <= (to - from) * Refill
        /\ (last - from) * Refill \in Nat /\ (to - from) * Refill \in Nat
    BY <1>1, <2>3, ProductMonotone
  <2> DEFINE g == Cardinality(G) * Unit
             s == Cardinality(S) * Unit
             e == (last - from) * Refill
             f == (to - from) * Refill
  <2>5. g <= s /\ s + held <= full + e /\ e <= f
        /\ g \in Nat /\ s \in Nat /\ e \in Nat /\ f \in Nat
    BY <2>1, <2>2, <2>4
  <2>6. g <= full + f
    <3> HIDE DEF g, s, e, f, full, held
    <3>1. QED
      BY <1>1, <2>5
  <2>7. QED
    BY <2>6
<1>5. CASE last < from
  <2>1. G = {}
    <3>1. ASSUME NEW x \in G
          PROVE  FALSE
      <4>1. x \in granted' /\ Domain(x.call)' = d /\ from <= x.at /\ x.at \in Nat
        BY <3>1, TypeHalvesNext, BucketAssumption DEF Grants, TypeInv, HeldOK, Times
      <4>2. x.at <= last
        BY <4>1 DEF Accounts
      <4>3. QED
        BY <1>1, <1>5, <4>1, <4>2
    <3>2. QED
      BY <3>1
  <2>2. Cardinality(G) * Unit = 0
    BY <1>1, <2>1, FS_EmptySet
  <2>3. to - from \in Nat
    BY <1>1, <1>5
  <2>4. (to - from) * Refill \in Nat
    BY <1>1, <2>3, ProductType
  <2>5. QED
    BY <1>1, <2>2, <2>4
<1>6. QED
  BY <1>1, <1>4, <1>5

\* A step that leaves the buckets alone.
LEMMA BucketsAlone ==
  ASSUME BucketInv, UNCHANGED <<ask, buckets, granted>>
  PROVE  BucketInv'
<1>1. /\ \A g \in granted : Domain(g.call)' = Domain(g.call)
      /\ \A d, from : Since(d, from)' = Since(d, from)
      /\ \A d, from, to : Grants(d, from, to)' = Grants(d, from, to)
  BY DEF Domain, Since, Grants
<1>2. QED
  BY <1>1 DEF BucketInv, Accounts, BucketBound

\* A bucket is filled and, if N is not empty, a token of it handed out.
LEMMA BucketStep ==
  ASSUME TypeInv, TypeInv', BucketInv, NEW d \in Domains, NEW x, NEW N \in SUBSET {x},
         N # {} => x.at = now /\ Domain(x.call) = d,
         granted' = granted \cup N, ask' = ask, now' = now,
         NEW n, buckets' = Bucket(d, n),
         n \in Parts, Refilled(d) = IF N = {} THEN n ELSE n + Unit
  PROVE  BucketInv'
<1> DEFINE full == Capacity * Unit
<1>1. /\ full \in Nat /\ Unit \in Nat /\ Refill \in Nat /\ now \in Nat
      /\ buckets \in [Domains -> [tokens: Parts, last: Times]]
      /\ buckets[d].last <= now /\ buckets[d].last \in Nat
      /\ Refilled(d) \in Nat /\ n \in Nat
  BY BucketAssumption, ProductType, TypeHalves, RefilledType
  DEF TypeInv, HeldOK, FilledPast, Parts, Times
<1>2. \A y : Domain(y)' = Domain(y)
  BY DEF Domain
<1>3. /\ buckets'[d] = [tokens |-> n, last |-> now]
      /\ \A e \in Domains \ {d} : buckets'[e] = buckets[e]
  BY <1>1 DEF Bucket
<1>4. IsFiniteSet(granted')
  <2>1. IsFiniteSet(granted)
    BY DEF BucketInv, Accounts
  <2>2. IsFiniteSet(granted \cup {x})
    BY <2>1, FS_AddElement
  <2>3. granted' = granted \/ granted' = granted \cup {x}
    OBVIOUS
  <2>4. QED
    BY <2>1, <2>2, <2>3
<1>5. \A e \in Domains \ {d} : \A from, to :
        Since(e, from)' = Since(e, from) /\ Grants(e, from, to)' = Grants(e, from, to)
  BY <1>2 DEF Since, Grants
<1>6. \A from : Since(d, from)' \subseteq Since(d, from) \cup N
  BY <1>2 DEF Since
<1>7. \A g \in granted' : g.at <= buckets'[Domain(g.call)'].last
  <2> SUFFICES ASSUME NEW g \in granted'
               PROVE  g.at <= buckets'[Domain(g.call)'].last
    OBVIOUS
  <2>1. CASE g \in N
    BY <1>1, <1>2, <1>3, <2>1
  <2>2. CASE g \in granted
    <3>1. g.call \in Calls /\ g.at \in Nat /\ Domain(g.call) \in Domains
      BY <2>2, TypeHalves, AskType, BucketAssumption DEF TypeInv, HeldOK, Times
    <3>2. g.at <= buckets[Domain(g.call)].last
      BY <2>2 DEF BucketInv, Accounts
    <3>3. QED
      BY <1>1, <1>2, <1>3, <3>1, <3>2
  <2>3. QED
    BY <2>1, <2>2
<1>8. ASSUME NEW from \in Times, from <= now
      PROVE  Cardinality(Since(d, from)') * Unit + n <= full + (now - from) * Refill
  <2> DEFINE S == Since(d, from)
             T == Since(d, from)'
  <2>1. Cardinality(S) * Unit + Refilled(d) <= full + (now - from) * Refill
    BY <1>8, FilledUp
  <2>2. IsFiniteSet(S) /\ Cardinality(S) \in Nat
    BY SinceFinite DEF BucketInv, Accounts
  <2>3. (now - from) * Refill \in Nat
    <3>1. now - from \in Nat
      BY <1>1, <1>8, BucketAssumption DEF Times
    <3>2. QED
      BY <1>1, <3>1, ProductType
  <2>4. Cardinality(S) * Unit \in Nat
    BY <1>1, <2>2, ProductType
  <2>5. CASE N = {}
    <3>1. T \subseteq S
      BY <1>6, <2>5
    <3>2. Cardinality(T) \in Nat /\ Cardinality(T) <= Cardinality(S)
      BY <2>2, <3>1, FS_Subset, FS_CardinalityType
    <3>3. Cardinality(T) * Unit <= Cardinality(S) * Unit /\ Cardinality(T) * Unit \in Nat
      BY <1>1, <2>2, <3>2, ProductMonotone
    <3>4. Refilled(d) = n
      BY <2>5
    <3> DEFINE a == Cardinality(T) * Unit
               b == Cardinality(S) * Unit
               f == (now - from) * Refill
    <3>5. a <= b /\ b + n <= full + f /\ a \in Nat /\ b \in Nat /\ f \in Nat
      BY <2>1, <2>3, <2>4, <3>3, <3>4
    <3>6. a + n <= full + f
      <4> HIDE DEF a, b, f, full
      <4>1. QED
        BY <1>1, <3>5
    <3>7. QED
      BY <3>6
  <2>6. CASE N = {x}
    <3>1. T \subseteq S \cup {x}
      BY <1>6, <2>6
    <3>2. /\ IsFiniteSet(S \cup {x})
          /\ Cardinality(S \cup {x}) * Unit \in Nat
          /\ Cardinality(S \cup {x}) * Unit <= Cardinality(S) * Unit + Unit
      BY <1>1, <2>2, OneMore
    <3>3. Cardinality(T) \in Nat /\ Cardinality(S \cup {x}) \in Nat
          /\ Cardinality(T) <= Cardinality(S \cup {x})
      BY <3>1, <3>2, FS_Subset, FS_CardinalityType
    <3>4. /\ Cardinality(T) * Unit <= Cardinality(S \cup {x}) * Unit
          /\ Cardinality(T) * Unit \in Nat
      BY <1>1, <3>3, ProductMonotone
    <3>5. Refilled(d) = n + Unit
      BY <2>6
    <3> DEFINE a == Cardinality(T) * Unit
               b == Cardinality(S) * Unit
               m == Cardinality(S \cup {x}) * Unit
               f == (now - from) * Refill
    <3>6. /\ a <= m /\ m <= b + Unit /\ b + (n + Unit) <= full + f
          /\ a \in Nat /\ b \in Nat /\ f \in Nat /\ m \in Nat
      BY <2>1, <2>3, <2>4, <3>2, <3>4, <3>5
    <3>7. a + n <= full + f
      <4> HIDE DEF a, b, f, m, full
      <4>1. QED
        BY <1>1, <3>6
    <3>8. QED
      BY <3>7
  <2>7. QED
    BY <2>5, <2>6
<1>9. Accounts'
  <2>1. ASSUME NEW e \in Domains, NEW from \in Times, from <= buckets'[e].last
        PROVE  Cardinality(Since(e, from)') * Unit + buckets'[e].tokens
                 <= full + (buckets'[e].last - from) * Refill
    <3>1. CASE e = d
      BY <1>3, <1>8, <2>1, <3>1
    <3>2. CASE e # d
      <4>1. buckets'[e] = buckets[e] /\ Since(e, from)' = Since(e, from)
        BY <1>3, <1>5, <3>2
      <4>2. QED
        BY <2>1, <4>1 DEF BucketInv, Accounts
    <3>3. QED
      BY <3>1, <3>2
  <2>2. QED
    BY <1>4, <1>7, <2>1 DEF Accounts
<1>10. BucketBound'
  <2> SUFFICES ASSUME NEW e \in Domains, NEW from \in Times, NEW to \in Times,
                      from <= to
               PROVE  Cardinality(Grants(e, from, to)') * Unit
                        <= full + (to - from) * Refill
    BY DEF BucketBound
  <2>1. CASE e # d
    <3>1. Grants(e, from, to)' = Grants(e, from, to)
      BY <1>5, <2>1
    <3>2. QED
      BY <3>1 DEF BucketInv, BucketBound
  <2>2. CASE e = d /\ now <= to
    <3>1. buckets'[d].last <= to
      BY <1>3, <2>2
    <3>2. QED
      BY <1>9, <2>2, <3>1, OpenInterval
  <2>3. CASE e = d /\ ~(now <= to)
    <3>1. Grants(d, from, to)' = Grants(d, from, to)
      BY <1>2, <2>3 DEF Grants
    <3>2. QED
      BY <2>3, <3>1 DEF BucketInv, BucketBound
  <2>4. QED
    BY <2>1, <2>2, <2>3
<1>11. QED
  BY <1>9, <1>10 DEF BucketInv

\* Every step of the service keeps the accounts of _buckets and their bound.
LEMMA BucketInvStep == TypeInv /\ BucketInv /\ [Next]_vars => BucketInv'
<1> SUFFICES ASSUME TypeInv, BucketInv, [Next]_vars PROVE BucketInv'
  OBVIOUS
<1>a. TypeInv'
  BY TypeStep
<1>1. CASE UNCHANGED <<ask, buckets, granted>>
  BY <1>1, BucketsAlone
<1>2. ASSUME NEW c \in Calls, Dispatch(c), Limited(c)
      PROVE  BucketInv'
  <2> DEFINE d == Domain(c)
             x == [call |-> c, at |-> now]
             n == Refilled(d) - Unit
  <2>1. d \in Domains
    BY AskType, TypeHalves DEF TypeInv
  <2>2. /\ granted' = granted \cup {x} /\ ask' = ask /\ now' = now
        /\ buckets' = Bucket(d, n) /\ HasToken(d)
    BY <1>2 DEF Dispatch
  <2>3. n \in Parts /\ Refilled(d) \in Parts
    BY <2>1, <2>2, RefilledType
  <2>4. Refilled(d) = n + Unit
    BY <2>3, BucketAssumption, ProductType DEF Parts
  <2>5. x.at = now /\ Domain(x.call) = d
    OBVIOUS
  <2> HIDE DEF d, x, n
  <2>6. QED
    BY <1>a, <2>1, <2>2, <2>3, <2>4, <2>5, BucketStep
<1>3. ASSUME NEW c \in Calls, Refuse(c)
      PROVE  BucketInv'
  <2> DEFINE d == Domain(c)
             n == Refilled(d)
  <2>1. d \in Domains
    BY AskType, TypeHalves DEF TypeInv
  <2>2. /\ granted' = granted \cup {} /\ ask' = ask /\ now' = now
        /\ buckets' = Bucket(d, n)
    BY <1>3 DEF Refuse
  <2>3. n \in Parts
    BY <2>1, RefilledType
  <2>4. {} \in SUBSET {c}
    OBVIOUS
  <2>5. Refilled(d) = n
    OBVIOUS
  <2> HIDE DEF d, n
  <2>6. QED
    BY <1>a, <2>1, <2>2, <2>3, <2>4, <2>5, BucketStep
<1>4. ASSUME NEW c \in Calls, CallStep(c)
      PROVE  BucketInv'
  <2>1. CASE Dispatch(c)
    BY <1>1, <1>2, <2>1 DEF Dispatch
  <2>2. CASE Refuse(c)
    BY <1>3, <2>2
  <2>3. CASE ~Dispatch(c) /\ ~Refuse(c)
    BY <1>1, <1>4, <2>3
    DEF CallStep, EnterLock, StartRuntime, StartFails, Launch, Breaks, OpenPage,
        Visit, Backoff, OpenSession, UsePage, ClosePage, Log
  <2>4. QED
    BY <2>1, <2>2, <2>3
<1>5. ASSUME NEW c \in Calls, Cancel(c)
      PROVE  UNCHANGED <<ask, buckets, granted>>
  BY <1>5
  DEF Cancel, CancelWait, CancelStart, CancelLaunch, CancelPage, CancelOpening,
      CancelEnding, Stop
<1>6. ASSUME \/ \E x \in Calls : Crash(x)
             \/ Tick \/ Shutdown \/ CloseContext \/ StopRuntime \/ Quiescent
             \/ UNCHANGED vars
      PROVE  UNCHANGED <<ask, buckets, granted>>
  BY <1>6
  DEF Crash, Tick, Shutdown, CloseContext, StopRuntime, Quiescent, vars, callVars
<1>7. QED
  BY <1>1, <1>4, <1>5, <1>6 DEF Next

\* Before the first call the buckets are full and nothing is granted.
LEMMA BucketInit == Init => BucketInv
<1> SUFFICES ASSUME Init PROVE BucketInv
  OBVIOUS
<1>1. /\ IsFiniteSet(granted) /\ granted = {}
      /\ \A d, from : Since(d, from) = {}
      /\ \A d, from, to : Grants(d, from, to) = {}
      /\ Cardinality({}) = 0
  BY FS_EmptySet DEF Init, Since, Grants
<1>2. Capacity * Unit \in Nat /\ 0 * Unit = 0 /\ Unit \in Nat /\ Refill \in Nat
  BY BucketAssumption, ProductType
<1>3. \A d \in Domains : buckets[d] = Full
  BY DEF Init
<1>4. Accounts
  <2> SUFFICES ASSUME NEW d \in Domains, NEW from \in Times, from <= 0
               PROVE  0 * Unit + Capacity * Unit <= Capacity * Unit + (0 - from) * Refill
    BY <1>1, <1>3 DEF Accounts, Full
  <2>1. from = 0
    BY BucketAssumption DEF Times
  <2>2. (0 - from) * Refill = 0
    BY <1>2, <2>1
  <2>3. QED
    BY <1>2, <2>2
<1>5. BucketBound
  <2> SUFFICES ASSUME NEW from \in Times, NEW to \in Times, from <= to
               PROVE  0 * Unit <= Capacity * Unit + (to - from) * Refill
    BY <1>1 DEF BucketBound
  <2>1. to - from \in Nat
    BY BucketAssumption DEF Times
  <2>2. (to - from) * Refill \in Nat
    BY <1>2, <2>1, ProductType
  <2>3. QED
    BY <1>2, <2>2
<1>6. QED
  BY <1>4, <1>5 DEF BucketInv

\* The token bucket keeps its promise for every capacity, rate and number of
\* callers: in no interval is a domain called more often than a full bucket and
\* what comes back in the interval allow.
THEOREM BucketsBound == Spec => []BucketBound
<1>1. BucketInv => BucketBound
  BY DEF BucketInv
<1>2. Spec => []TypeInv
  BY InitType, TypeStep, PTL DEF Spec
<1>3. Spec => []BucketInv
  BY <1>2, BucketInit, BucketInvStep, PTL DEF Spec
<1>4. QED
  BY <1>1, <1>3, PTL
====

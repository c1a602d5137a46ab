---- MODULE BrowserService ----
(***************************************************************************)
(* BrowserService (services/browser/service.py): the primitives search,    *)
(* fetch, extract_text, screenshot, download and session as concurrent     *)
(* callers of one asyncio process use them, beside a shutdown, and the     *)
(* Playwright runtime, contexts and pages they hold.  A step is one await; *)
(* awaits in a row that touch only the call's own page are one step.       *)
(*                                                                         *)
(* A runtime is named after the call that started it, a context after the  *)
(* call that launched it, a page after the call that opened it.            *)
(***************************************************************************)
EXTENDS Integers, Sequences, FiniteSets, SequencesExt

CONSTANTS
  Calls,      \* calls of a primitive
  Profiles,   \* profile names that _PROFILE_NAME_RE accepts
  BadProfile, \* one that it rejects
  Domains,    \* domains of the urls
  Loads,      \* the calls that callers may make side by side
  None,       \* no runtime, no context, lock not held
  Capacity,   \* capacity of a bucket, in tokens
  Unit,       \* the model counts tokens in parts: Unit of them are a token
  Refill,     \* parts that come back in a unit of the clock
  MaxTime,    \* bound on the clock
  Crashes,    \* a Chromium process may crash
  Shutdowns,  \* shutdown may be called, once
  MaxCancels  \* bound on the calls that are cancelled

Kinds == {"search", "fetch", "extract_text", "screenshot", "download", "session"}
Ask == [kind: Kinds, profile: Profiles \cup {BadProfile}, domain: Domains]

ASSUME AskAssumption ==
  /\ Loads \subseteq [Calls -> Ask]
  /\ BadProfile \notin Profiles
  /\ None \notin Calls

ASSUME BucketAssumption ==
  /\ Capacity \in Nat \ {0}
  /\ Unit \in Nat \ {0}
  /\ Refill \in Nat
  /\ MaxTime \in Nat

ASSUME ModesAssumption ==
  /\ Crashes \in BOOLEAN
  /\ Shutdowns \in BOOLEAN
  /\ MaxCancels \in Nat

VARIABLES
  now,        \* time.monotonic()
  ask,        \* the arguments of each call
  pc,         \* what the call awaits next
  runtime,    \* _playwright
  initLock,   \* the holder of _init_lock
  contexts,   \* _contexts
  buckets,    \* _buckets
  alive,      \* Playwright runtimes that run
  open,       \* contexts whose Chromium runs
  crashed,    \* contexts whose Chromium crashed
  pages,      \* pages that are open
  rt,         \* the runtime a call launches its context under
  ctx,        \* the context a call works in
  visits,     \* what came of the navigations of a call
  result,     \* what the caller gets
  rows,       \* rows that the call has logged
  granted,    \* tokens handed out, a history
  closing,    \* where shutdown is
  toClose     \* contexts that shutdown has still to close

callVars == <<ask, pc, rt, ctx, visits, result, rows>>
playwright == <<alive, open, crashed, pages>>
service == <<runtime, initLock, contexts>>
shut == <<closing, toClose>>
vars == <<now, callVars, playwright, service, buckets, granted, shut>>

Times == 0..MaxTime
Outcome == {"none", "ok", "degraded", "typed", "raw", "cancelled", "abandoned"}
Visited == {"ok", "empty", "transient", "captcha", "refused", "raw"}
LogRow == [action: Kinds, status: {"success", "degraded", "error"}]

Kind(c) == ask[c].kind
Profile(c) == ask[c].profile
Domain(c) == ask[c].domain

\* extract_text runs fetch; the others navigate for themselves.
Fetches(c) == Kind(c) \in {"fetch", "extract_text"}

Stopped == {"cancelled", "abandoned"}
Abandoned == {c \in Calls : result[c] = "abandoned"}

----
\* Init

Full == [tokens |-> Capacity * Unit, last |-> 0]

Init ==
  /\ now = 0
  /\ ask \in Loads
  /\ pc = [c \in Calls |-> "pace"]
  /\ runtime = None
  /\ initLock = None
  /\ contexts = [p \in Profiles |-> None]
  /\ buckets = [d \in Domains |-> Full]
  /\ alive = {}
  /\ open = {}
  /\ crashed = {}
  /\ pages = {}
  /\ rt = [c \in Calls |-> None]
  /\ ctx = [c \in Calls |-> None]
  /\ visits = [c \in Calls |-> <<>>]
  /\ result = [c \in Calls |-> "none"]
  /\ rows = [c \in Calls |-> <<>>]
  /\ granted = {}
  /\ closing = "ready"
  /\ toClose = {}

----
\* Helpers

Go(c, l) == pc' = [pc EXCEPT ![c] = l]

\* The first await in a context.
InContext(c) == IF Kind(c) = "download" THEN "request" ELSE "page"

\* Seeded bug: the finally block closes the page only if the call succeeded.
Leaving_OnSuccess(c, r) ==
  CASE pc[c] \in {"visit", "backoff", "use"} /\ r \in {"ok", "degraded"} -> "close"
    [] Kind(c) = "session" -> "end"
    [] OTHER -> "log"

\* Where the finally blocks lead when a call ends with r: to page.close()
\* once there is a page, then to the log; session logs only when it opens.
Leaving(c, r) ==
  CASE pc[c] \in {"visit", "backoff", "use"} -> "close"
    [] pc[c] \notin {"visit", "backoff", "use"} /\ Kind(c) = "session" -> "end"
    [] OTHER -> "log"

Settle(c, r) ==
  /\ result' = [result EXCEPT ![c] = r]
  /\ Go(c, Leaving(c, r))

\* The log status: only a BrowserError turns it to error.
Status(r) ==
  CASE r = "typed" -> "error" [] r = "degraded" -> "degraded" [] OTHER -> "success"

\* The pages of contexts that are not in S are gone.
Within(S) == {c \in pages : ctx[c] \in S}

----
\* _consume_token, which has no await

Lesser(x, y) == IF x < y THEN x ELSE y

\* Seeded bug: the tokens that came back are not capped.
Refilled_NoCap(d) == buckets[d].tokens + (now - buckets[d].last) * Refill

Refilled(d) ==
  Lesser(Capacity * Unit, buckets[d].tokens + (now - buckets[d].last) * Refill)

\* Seeded bug: tokens <= 0.0 instead of tokens < 1.0.
HasToken_Some(d) == Refilled(d) > 0

HasToken(d) == Refilled(d) >= Unit

Bucket(d, tokens) == [buckets EXCEPT ![d] = [tokens |-> tokens, last |-> now]]

Limited(c) == Kind(c) # "session"

----
\* _get_context and _ensure_playwright, up to the next await

Cached(c) == contexts[Profile(c)] # None

LockFree == initLock = None

GetContext(c) ==
  \/ /\ Profile(c) = BadProfile
     /\ Settle(c, "typed")
     /\ UNCHANGED <<initLock, rt, ctx>>
  \/ /\ Profile(c) # BadProfile /\ Cached(c)
     /\ ctx' = [ctx EXCEPT ![c] = contexts[Profile(c)]]
     /\ Go(c, InContext(c))
     /\ UNCHANGED <<initLock, rt, result>>
  \/ /\ Profile(c) # BadProfile /\ ~Cached(c) /\ runtime # None
     /\ rt' = [rt EXCEPT ![c] = runtime]
     /\ Go(c, "launch")
     /\ UNCHANGED <<initLock, ctx, result>>
  \/ /\ Profile(c) # BadProfile /\ ~Cached(c) /\ runtime = None /\ LockFree
     /\ initLock' = c
     /\ Go(c, "start")
     /\ UNCHANGED <<rt, ctx, result>>
  \/ /\ Profile(c) # BadProfile /\ ~Cached(c) /\ runtime = None /\ ~LockFree
     /\ Go(c, "lock")
     /\ UNCHANGED <<initLock, rt, ctx, result>>

----
\* Steps of a call

\* Every call begins with a pause of its own.  Then it takes a token, and looks
\* for its context.
Dispatch(c) ==
  /\ pc[c] = "pace"
  /\ ~Limited(c) \/ HasToken(Domain(c))
  /\ IF Limited(c)
     THEN /\ buckets' = Bucket(Domain(c), Refilled(Domain(c)) - Unit)
          /\ granted' = granted \cup {[call |-> c, at |-> now]}
     ELSE UNCHANGED <<buckets, granted>>
  /\ GetContext(c)
  /\ UNCHANGED <<now, ask, visits, rows, playwright, runtime, contexts, shut>>

\* BrowserRateLimited
Refuse(c) ==
  /\ pc[c] = "pace"
  /\ Limited(c) /\ ~HasToken(Domain(c))
  /\ buckets' = Bucket(Domain(c), Refilled(Domain(c)))
  /\ Settle(c, "typed")
  /\ UNCHANGED <<now, ask, rt, ctx, visits, rows, playwright, service,
                 granted, shut>>

\* Seeded bug: whoever gets the lock starts a runtime.
LookAgain_Never == None

\* Whoever gets the lock looks at _playwright again.
LookAgain == runtime

EnterLock(c) ==
  /\ pc[c] = "lock"
  /\ LockFree
  /\ IF LookAgain = None
     THEN /\ initLock' = c
          /\ Go(c, "start")
          /\ UNCHANGED rt
     ELSE /\ rt' = [rt EXCEPT ![c] = runtime]
          /\ Go(c, "launch")
          /\ UNCHANGED initLock
  /\ UNCHANGED <<now, ask, ctx, visits, result, rows, playwright, runtime,
                 contexts, buckets, granted, shut>>

\* async_playwright().start()
StartRuntime(c) ==
  /\ pc[c] = "start"
  /\ alive' = alive \cup {c}
  /\ runtime' = c
  /\ initLock' = None
  /\ rt' = [rt EXCEPT ![c] = c]
  /\ Go(c, "launch")
  /\ UNCHANGED <<now, ask, ctx, visits, result, rows, open, crashed, pages,
                 contexts, buckets, granted, shut>>

StartFails(c) ==
  /\ pc[c] = "start"
  /\ initLock' = None
  /\ Settle(c, "raw")
  /\ UNCHANGED <<now, ask, rt, ctx, visits, rows, playwright, runtime,
                 contexts, buckets, granted, shut>>

\* launch_persistent_context, then the entry of _contexts: whatever is there
\* by now is overwritten.
Launch(c) ==
  /\ pc[c] = "launch"
  /\ rt[c] \in alive
  /\ open' = open \cup {c}
  /\ contexts' = [contexts EXCEPT ![Profile(c)] = c]
  /\ ctx' = [ctx EXCEPT ![c] = c]
  /\ Go(c, InContext(c))
  /\ UNCHANGED <<now, ask, rt, visits, result, rows, alive, crashed, pages,
                 runtime, initLock, buckets, granted, shut>>

\* Playwright refuses: the runtime is stopped, the profile is in use, or the
\* context is closed.  Its errors are not BrowserErrors.
Breaks(c) ==
  /\ pc[c] \in {"launch", "page"}
  /\ Settle(c, "raw")
  /\ UNCHANGED <<now, ask, rt, ctx, visits, rows, playwright, service,
                 buckets, granted, shut>>

\* ctx.new_page()
OpenPage(c) ==
  /\ pc[c] = "page"
  /\ ctx[c] \in open
  /\ pages' = pages \cup {c}
  /\ Go(c, IF Kind(c) = "session" THEN "openlog" ELSE "visit")
  /\ UNCHANGED <<now, ask, rt, ctx, visits, result, rows, alive, open,
                 crashed, service, buckets, granted, shut>>

\* What comes of a navigation with all that is read from the page.  fetch maps
\* timeouts, Playwright errors and statuses of 500 and more to its own errors;
\* search and screenshot let Playwright's errors pass.
Landings(c) ==
  IF ctx[c] \in open
  THEN CASE Fetches(c) -> {"ok", "transient", "captcha"}
         [] Kind(c) = "search" -> {"ok", "empty", "raw"}
         [] Kind(c) = "download" -> {"ok", "refused", "raw"}
         [] OTHER -> {"ok", "raw"}
  ELSE IF Fetches(c) THEN {"transient"} ELSE {"raw"}

Verdict(v) ==
  CASE v = "empty" -> "degraded"
    [] v \in {"transient", "captcha", "refused"} -> "typed"
    [] OTHER -> v

\* Seeded bug: attempt <= 2.
Again_OnceMore(n) == n < 3

\* attempt < 2, after n attempts
Again(n) == n < 2

Visit(c) ==
  /\ pc[c] \in {"visit", "request"}
  /\ \E v \in Landings(c) :
       /\ visits' = [visits EXCEPT ![c] = Append(@, v)]
       /\ IF v = "transient" /\ Again(Len(visits[c]) + 1)
          THEN Go(c, "backoff") /\ UNCHANGED result
          ELSE Settle(c, Verdict(v))
  /\ UNCHANGED <<now, ask, rt, ctx, rows, playwright, service, buckets,
                 granted, shut>>

Backoff(c) ==
  /\ pc[c] = "backoff"
  /\ Go(c, "visit")
  /\ UNCHANGED <<now, ask, rt, ctx, visits, result, rows, playwright,
                 service, buckets, granted, shut>>

\* session: one row when the page is there, then the caller's block.
OpenSession(c) ==
  /\ pc[c] = "openlog"
  /\ rows' = [rows EXCEPT ![c] =
                Append(@, [action |-> "session", status |-> "success"])]
  /\ Go(c, "use")
  /\ UNCHANGED <<now, ask, rt, ctx, visits, result, playwright, service,
                 buckets, granted, shut>>

UsePage(c) ==
  /\ pc[c] = "use"
  /\ \E r \in {"ok", "raw"} : Settle(c, r)
  /\ UNCHANGED <<now, ask, rt, ctx, visits, rows, playwright, service,
                 buckets, granted, shut>>

AfterClose(c) == IF Kind(c) = "session" THEN "end" ELSE "log"

\* page.close(); its errors are swallowed.
ClosePage(c) ==
  /\ pc[c] = "close"
  /\ pages' = pages \ {c}
  /\ Go(c, AfterClose(c))
  /\ UNCHANGED <<now, ask, rt, ctx, visits, result, rows, alive, open,
                 crashed, service, buckets, granted, shut>>

\* Seeded bug: extract_text relies on the row of fetch.
AfterLog_Once(c) == "end"

AfterLog(c) == IF pc[c] = "log" /\ Kind(c) = "extract_text" THEN "textlog" ELSE "end"

\* The row that a primitive logs; below extract_text the first one is fetch's.
Action(c) ==
  IF pc[c] = "log" /\ Kind(c) = "extract_text" THEN "fetch" ELSE Kind(c)

Log(c) ==
  /\ pc[c] \in {"log", "textlog"}
  /\ rows' = [rows EXCEPT ![c] =
                Append(@, [action |-> Action(c), status |-> Status(result[c])])]
  /\ Go(c, AfterLog(c))
  /\ UNCHANGED <<now, ask, rt, ctx, visits, result, playwright, service,
                 buckets, granted, shut>>

----
\* The environment

\* The caller's task is cancelled at an await; finally blocks still run.  What
\* Playwright was asked for is carried out although nobody takes the answer.
Stop(c, r, l) ==
  /\ result' = [result EXCEPT ![c] = r]
  /\ Go(c, l)
  /\ UNCHANGED <<now, ask, rt, ctx, visits, rows, crashed, runtime,
                 contexts, buckets, granted, shut>>

Cancellable(c) ==
  /\ result[c] \notin Stopped
  /\ Cardinality({d \in Calls : result[d] \in Stopped}) < MaxCancels

CancelWait(c) ==
  /\ Cancellable(c)
  /\ pc[c] \in {"pace", "lock", "visit", "request", "backoff", "use"}
  /\ Stop(c, "cancelled", Leaving(c, "cancelled"))
  /\ UNCHANGED <<alive, open, pages, initLock>>

CancelStart(c) ==
  /\ Cancellable(c)
  /\ pc[c] = "start"
  /\ initLock' = None
  /\ alive' \in {alive, alive \cup {c}}
  /\ Stop(c, "abandoned", Leaving(c, "abandoned"))
  /\ UNCHANGED <<open, pages>>

CancelLaunch(c) ==
  /\ Cancellable(c)
  /\ pc[c] = "launch"
  /\ open' \in {open} \cup (IF rt[c] \in alive THEN {open \cup {c}} ELSE {})
  /\ Stop(c, "abandoned", Leaving(c, "abandoned"))
  /\ UNCHANGED <<alive, pages, initLock>>

CancelPage(c) ==
  /\ Cancellable(c)
  /\ pc[c] = "page"
  /\ pages' \in {pages} \cup (IF ctx[c] \in open THEN {pages \cup {c}} ELSE {})
  /\ Stop(c, "abandoned", Leaving(c, "abandoned"))
  /\ UNCHANGED <<alive, open, initLock>>

\* The first row of a session is written outside its try block.
CancelOpening(c) ==
  /\ Cancellable(c)
  /\ pc[c] = "openlog"
  /\ Stop(c, "abandoned", "end")
  /\ UNCHANGED <<alive, open, pages, initLock>>

CancelEnding(c) ==
  /\ Cancellable(c)
  /\ pc[c] \in {"close", "log", "textlog"}
  /\ pages' = IF pc[c] = "close" THEN pages \ {c} ELSE pages
  /\ Stop(c, "cancelled", IF pc[c] = "close" THEN AfterClose(c) ELSE AfterLog(c))
  /\ UNCHANGED <<alive, open, initLock>>

\* The Chromium of a context crashes.  Nothing tells the service.
Crash(x) ==
  /\ Crashes
  /\ x \in open
  /\ open' = open \ {x}
  /\ crashed' = crashed \cup {x}
  /\ pages' = Within(open')
  /\ UNCHANGED <<now, callVars, alive, service, buckets, granted, shut>>

Tick ==
  /\ now < MaxTime
  /\ now' = now + 1
  /\ UNCHANGED <<callVars, playwright, service, buckets, granted, shut>>

----
\* shutdown

\* What follows when every context of the list is closed.
Cleared ==
  /\ contexts' = [p \in Profiles |-> None]
  /\ closing' = IF runtime = None THEN "over" ELSE "stopping"

Listed == {contexts[p] : p \in Profiles} \ {None}

Shutdown ==
  /\ Shutdowns
  /\ closing = "ready"
  /\ toClose' = Listed
  /\ IF Listed = {} THEN Cleared ELSE closing' = "closing" /\ UNCHANGED contexts
  /\ UNCHANGED <<now, callVars, playwright, runtime, initLock, buckets, granted>>

CloseContext ==
  /\ closing = "closing"
  /\ \E x \in toClose :
       /\ open' = open \ {x}
       /\ toClose' = toClose \ {x}
  /\ pages' = Within(open')
  /\ IF toClose' = {} THEN Cleared ELSE UNCHANGED <<contexts, closing>>
  /\ UNCHANGED <<now, callVars, alive, crashed, runtime, initLock, buckets, granted>>

\* _playwright.stop() ends every Chromium of the runtime.
StopRuntime ==
  /\ closing = "stopping"
  /\ alive' = alive \ {runtime}
  /\ open' = {x \in open : rt[x] # runtime}
  /\ pages' = Within(open')
  /\ runtime' = None
  /\ closing' = "over"
  /\ UNCHANGED <<now, callVars, crashed, initLock, contexts, buckets, granted,
                 toClose>>

----
\* The specification

Quiescent ==
  /\ \A c \in Calls : pc[c] = "end"
  /\ closing \in {"ready", "over"}
  /\ UNCHANGED vars

CallStep(c) ==
  \/ Dispatch(c) \/ Refuse(c) \/ EnterLock(c) \/ StartRuntime(c)
  \/ StartFails(c) \/ Launch(c) \/ Breaks(c) \/ OpenPage(c) \/ Visit(c)
  \/ Backoff(c) \/ OpenSession(c) \/ UsePage(c) \/ ClosePage(c) \/ Log(c)

Cancel(c) ==
  \/ CancelWait(c) \/ CancelStart(c) \/ CancelLaunch(c) \/ CancelPage(c)
  \/ CancelOpening(c) \/ CancelEnding(c)

Next ==
  \/ \E c \in Calls : CallStep(c) \/ Cancel(c) \/ Crash(c)
  \/ Tick
  \/ Shutdown \/ CloseContext \/ StopRuntime
  \/ Quiescent

Spec == Init /\ [][Next]_vars

----
\* Properties

\* Type invariant.
TypeOK ==
  /\ now \in Times
  /\ ask \in Loads
  /\ pc \in [Calls -> {"pace", "lock", "start", "launch", "page",
                       "request", "visit", "backoff", "openlog", "use",
                       "close", "log", "textlog", "end"}]
  /\ runtime \in Calls \cup {None}
  /\ initLock \in Calls \cup {None}
  /\ contexts \in [Profiles -> Calls \cup {None}]
  /\ buckets \in [Domains -> [tokens: 0..(Capacity * Unit), last: Times]]
  /\ alive \subseteq Calls
  /\ open \subseteq Calls
  /\ crashed \subseteq Calls
  /\ pages \subseteq Calls
  /\ rt \in [Calls -> Calls \cup {None}]
  /\ ctx \in [Calls -> Calls \cup {None}]
  /\ visits \in [Calls -> Seq(Visited)]
  /\ result \in [Calls -> Outcome]
  /\ rows \in [Calls -> Seq(LogRow)]
  /\ granted \subseteq [call: Calls, at: Times]
  /\ closing \in {"ready", "closing", "stopping", "over"}
  /\ toClose \subseteq Calls

\* _ensure_playwright, "Idempotent, concurrency-safe": however callers race,
\* fail to start, are cancelled or run into a shutdown, every Playwright
\* runtime that runs is the one shutdown will stop, except one whose starter
\* was cancelled while it started.
OneRuntime == alive \ {runtime} \subseteq Abandoned

\* A call that is over leaves no page behind, whatever it ended with, unless
\* it was cancelled while its page was being opened or a session logged it.
PagesClosed == \A c \in pages : pc[c] = "end" => c \in Abandoned

\* The token bucket: in no interval does a domain get more calls than the
\* bucket holds and what comes back meanwhile, refused calls in between or not.
Grants(d, from, to) ==
  {g \in granted : Domain(g.call) = d /\ from <= g.at /\ g.at <= to}

BucketBound ==
  \A d \in Domains : \A from, to \in Times :
    from <= to => Cardinality(Grants(d, from, to)) * Unit
                    <= Capacity * Unit + (to - from) * Refill

\* The retry policy as fetch has it, and extract_text through it: transient
\* errors are tried again once, nothing is tried more often and nothing else is
\* tried again; what the caller hears is what the last try said.  The other
\* primitives do not try again, although the design has them retry: the errors
\* of search, screenshot and download are Playwright's own and pass through.
Over(c) == pc[c] = "end" /\ result[c] \notin Stopped

RetriesOnce ==
  \A c \in Calls :
    /\ Len(visits[c]) <= 2
    /\ \A i \in DOMAIN visits[c] :
         i < Len(visits[c]) => visits[c][i] = "transient"
    /\ Over(c) /\ visits[c] # <<>> =>
         /\ result[c] = "ok" <=> Last(visits[c]) = "ok"
         /\ Last(visits[c]) = "transient" => Len(visits[c]) = 2

\* Every call of a primitive logs one row, and extract_text also that of its
\* fetch, ahead of its own; an error is logged only of a BrowserError.
Logged(c) == [i \in DOMAIN rows[c] |-> rows[c][i].action]

OneRowEach ==
  \A c \in Calls :
    /\ Over(c) /\ Kind(c) # "session" =>
         Logged(c) = IF Kind(c) = "extract_text"
                     THEN <<"fetch", "extract_text">> ELSE <<Kind(c)>>
    /\ Len(rows[c]) <= 2
    /\ \A i \in DOMAIN rows[c] :
         rows[c][i].status = "error" => result[c] \in {"typed"} \cup Stopped

\* Design: "lazy re-init on next call after crash".  A context that has crashed
\* is not handed to a call that comes after.
ReinitAfterCrash ==
  [][\A c \in Calls : ctx'[c] # ctx[c] => ctx'[c] \notin crashed]_vars
====

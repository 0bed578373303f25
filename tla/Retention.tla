------------------------------ MODULE Retention ------------------------------
(***************************************************************************)
(* The retention boundary of a site: discovery, the daily check and the    *)
(* probe_retention service (manager.py), one API request per step, under   *)
(* the account's call budget (CallBudget).                                 *)
(*                                                                         *)
(* A search is a question asked of one day, and what follows each answer;  *)
(* the constants of the search (89, 30, 15 and 8) are those of const.py.   *)
(* Amber holds usage from the day `held` on, but for one missing day.      *)
(***************************************************************************)
EXTENDS CallBudget, FiniteSets

CONSTANTS
  FirstDate,    \* the date at the start of the instance
  Outages,      \* by how many days the date may move on between two runs
  HeldFrom,     \* where Amber's usage may start
  Missing,      \* days Amber may have no usage for (0: none)
  ActiveFrom,   \* the start dates the site may have (0: not known)
  MaxTick,      \* bound: how often the date moves on
  MaxFail,      \* bound: requests that fail
  MaxProbe,     \* bound: calls of probe_retention
  MaxReload     \* bound: reloads of the account

FallbackDays == 89   \* RETENTION_FALLBACK_DAYS

\* Days are numbered from well before any a search asks for; the site has started.
ASSUME RetentionAssumption ==
  /\ FirstDate \in Nat /\ FirstDate > FallbackDays
  /\ Outages \subseteq Nat /\ HeldFrom \subseteq Nat \ {0}
  /\ Missing \subseteq Nat /\ ActiveFrom \subseteq 0..FirstDate
  /\ MaxTick \in Nat /\ MaxFail \in Nat /\ MaxProbe \in Nat /\ MaxReload \in Nat

MaxProbes    == 8    \* RETENTION_DISCOVERY_MAX_CALLS
BracketDaysLong == 33   \* mutant: the bisection takes one probe more
BracketDays  == 30   \* RETENTION_BRACKET_DAYS
Reverify     == 15   \* RETENTION_REVERIFY_BRACKET_DAYS

VARIABLES
  today,      \* nem_today()
  held,       \* the first day Amber holds usage for
  missing,    \* a day without usage
  activeFrom, \* the site's start date
  store,      \* retention_boundary and the retention record of the Store
  client,     \* the AmberClient: the run's budget and the remembered figures
  account,    \* Amber's count for the account: requests remaining, responses lost
  run,        \* the active run or service call
  left        \* the bounded events that may still happen

world == <<today, held, missing, activeFrom>>
vars == <<world, store, client, account, run, left>>

NoDay == 0
HasUsage(d) == held <= d /\ d < today /\ d # missing

-----------------------------------------------------------------------------
(* The record and the run *)

Nothing == [boundary |-> NoDay, measured |-> NoDay, verified |-> NoDay,
            needs |-> FALSE, provisional |-> FALSE]

Questions == {"start", "guess", "before", "lo", "after", "hi", "bisect",
              "at", "at_before", "forward", "forward_end", "rolling", "rolling_before",
              "back", "back_end"}

\* found: NoDay while nothing was found; exact: bracketed by an empty day.
Search(ask, lo, hi) ==
  [ask |-> ask, lo |-> lo, hi |-> hi, yes |-> FALSE, found |-> NoDay, exact |-> FALSE]

Found(d)     == [Search("done", 0, 0) EXCEPT !.found = d, !.exact = TRUE]
FoundEnd(d)  == [Search("done", 0, 0) EXCEPT !.found = d]      \* has data, not bracketed
NotFound     == Search("done", 0, 0)

Idle == [pc |-> "idle", service |-> FALSE, discovery |-> FALSE, date |-> NoDay,
         search |-> NotFound, yeses |-> {}, noes |-> {}, calls |-> 0, previous |-> Nothing]

Init ==
  /\ today = FirstDate
  /\ held \in HeldFrom /\ missing \in Missing /\ activeFrom \in ActiveFrom
  /\ missing = NoDay \/ activeFrom = NoDay     \* bound: not both at once
  /\ store = Nothing
  /\ client = [budget |-> Start(NotSeen), last |-> NotSeen]
  /\ account = [remaining |-> Limit, lost |-> 0]
  /\ run = Idle
  /\ left = [tick |-> MaxTick, fail |-> MaxFail, probe |-> MaxProbe, reload |-> MaxReload]

TypeOK ==
  /\ store.needs \in BOOLEAN /\ store.provisional \in BOOLEAN
  /\ store.boundary <= today /\ store.verified <= today /\ store.measured <= today
  /\ store.boundary = NoDay <=> store.verified = NoDay
  /\ client.budget \in Budget /\ client.last \in Seen
  /\ account.remaining \in 0..Limit /\ account.lost \in 0..Requests
  /\ run.pc \in {"idle", "probe", "conclude", "work"} /\ run.calls \in 0..MaxProbes
  /\ run.search.ask \in Questions \cup {"done"}

-----------------------------------------------------------------------------
(* Where a search starts, which day it asks about, and what follows an answer *)

Guess(date) == date - FallbackDays
YoungSite(date) == activeFrom # NoDay /\ activeFrom > Guess(date)

DiscoverySearch(date) == IF YoungSite(date) THEN Search("start", 0, 0) ELSE Search("guess", 0, 0)

DailySearch == Search("at", 0, 0)

\* The candidate of a rolling boundary: as many days back as at the last verification.
Rolling == today - (store.verified - store.boundary)

Midpoint(s) == s.lo + (s.hi - s.lo) \div 2

DayAsked(s) ==
  LET b == store.boundary
      g == Guess(run.date) IN
  CASE s.ask = "start"          -> activeFrom
    [] s.ask = "guess"          -> g
    [] s.ask = "before"         -> g - 1
    [] s.ask = "lo"             -> g - 1 - BracketDays
    [] s.ask = "after"          -> g + 1
    [] s.ask = "hi"             -> g + 1 + BracketDays
    [] s.ask = "bisect"         -> Midpoint(s)
    [] s.ask = "at"             -> b
    [] s.ask = "at_before"      -> b - 1
    [] s.ask = "forward"        -> b + 1
    [] s.ask = "forward_end"    -> b + 1 + Reverify
    [] s.ask = "rolling"        -> s.hi
    [] s.ask = "rolling_before" -> s.hi - 1
    [] s.ask = "back"           -> b - 2
    [] s.ask = "back_end"       -> b - 2 - Reverify

\* lo has no data, hi has: ask between them until they are neighbours.
BisectShort(lo, hi) ==   \* mutant: stops a day early
  IF hi - lo > 2 THEN Search("bisect", lo, hi) ELSE Found(hi)
Bisect(lo, hi) == IF hi - lo > 1 THEN Search("bisect", lo, hi) ELSE Found(hi)

\* A forward move beyond the bracket.
TryRolling(knownEmpty) ==
  IF Rolling <= knownEmpty THEN NotFound ELSE Search("rolling", 0, Rolling)

AfterYes(s) ==
  LET b == store.boundary
      g == Guess(run.date) IN
  CASE s.ask = "start"          -> Found(activeFrom)
    [] s.ask = "guess"          -> Search("before", 0, 0)
    [] s.ask = "before"         -> Search("lo", 0, 0)
    [] s.ask = "lo"             -> FoundEnd(g - 1 - BracketDays)
    [] s.ask = "after"          -> Found(g + 1)
    [] s.ask = "hi"             -> Bisect(g + 1, g + 1 + BracketDays)
    [] s.ask = "bisect"         -> Bisect(s.lo, Midpoint(s))
    [] s.ask = "at"             -> [Search("at_before", 0, 0) EXCEPT !.yes = TRUE]
    [] s.ask = "at_before"      -> IF s.yes THEN Search("back", 0, 0)
                                   ELSE FoundEnd(b)        \* a gap on the boundary day
    [] s.ask = "forward"        -> Found(b + 1)
    [] s.ask = "forward_end"    -> Bisect(b + 1, b + 1 + Reverify)
    [] s.ask = "rolling"        -> Search("rolling_before", 0, s.hi)
    [] s.ask = "rolling_before" -> NotFound
    [] s.ask = "back"           -> Search("back_end", 0, 0)
    [] s.ask = "back_end"       -> FoundEnd(b - 2 - Reverify)

AfterNo(s) ==
  LET b == store.boundary
      g == Guess(run.date) IN
  CASE s.ask = "start"          -> NotFound
    [] s.ask = "guess"          -> Search("after", 0, 0)
    [] s.ask = "before"         -> Found(g)
    [] s.ask = "lo"             -> Bisect(g - 1 - BracketDays, g - 1)
    [] s.ask = "after"          -> Search("hi", 0, 0)
    [] s.ask = "hi"             -> NotFound
    [] s.ask = "bisect"         -> Bisect(Midpoint(s), s.hi)
    [] s.ask = "at"             -> Search("at_before", 0, 0)
    [] s.ask = "at_before"      -> IF s.yes THEN Found(b) ELSE Search("forward", 0, 0)
    [] s.ask = "forward"        -> Search("forward_end", 0, 0)
    [] s.ask = "forward_end"    -> TryRolling(b + 1 + Reverify)
    [] s.ask = "rolling"        -> NotFound
    [] s.ask = "rolling_before" -> Found(s.hi)
    [] s.ask = "back"           -> Found(b - 1)
    [] s.ask = "back_end"       -> Bisect(b - 2 - Reverify, b - 2)

-----------------------------------------------------------------------------
(* Writing the record *)

\* No usage before the site's start date.
FromStart(boundary) ==
  IF activeFrom # NoDay /\ boundary < activeFrom THEN activeFrom ELSE boundary

StoreRetention(boundary, needs, provisional, verified) ==
  store' = [boundary |-> FromStart(boundary), measured |-> today, verified |-> verified,
            needs |-> needs, provisional |-> provisional]

\* A failed rediscovery keeps the record and asks for discovery again.
KeepRetention == [store EXCEPT !.measured = today, !.needs = TRUE]

-----------------------------------------------------------------------------
(* Starting and ending a run or a service call *)

BeginSearch(service, discovery, search) ==
  /\ client' = [client EXCEPT !.budget = Start(client.last)]
  /\ run' = [Idle EXCEPT !.pc = "probe", !.service = service, !.date = today,
                         !.discovery = discovery, !.search = search,
                         !.previous = IF service THEN store ELSE Nothing]

BeginWork ==
  /\ client' = [client EXCEPT !.budget = Start(client.last)]
  /\ run' = [Idle EXCEPT !.pc = "work"]

\* mutant: every rediscovery waits for the next day
DiscoveryDueDaily ==
  store.boundary = NoDay \/ (store.needs /\ store.measured # today)

DiscoveryDue ==
  \/ store.boundary = NoDay
  \/ store.needs /\ ~(store.provisional /\ store.measured = today)

VerifyDue == ~DiscoveryDue /\ ~store.needs /\ store.verified # today

\* async_run: the retention step comes before the work of the run.
StartRun ==
  /\ run.pc = "idle"
  /\ \/ DiscoveryDue /\ BeginSearch(FALSE, TRUE, DiscoverySearch(today))
     \/ VerifyDue /\ BeginSearch(FALSE, FALSE, DailySearch)
     \/ ~DiscoveryDue /\ ~VerifyDue /\ BeginWork
  /\ UNCHANGED <<world, store, account, left>>

\* The probe_retention service: a discovery, whatever the record says.
ProbeRetention ==
  /\ run.pc = "idle" /\ left.probe > 0
  /\ left' = [left EXCEPT !.probe = @ - 1]
  /\ BeginSearch(TRUE, TRUE, DiscoverySearch(today))
  /\ UNCHANGED <<world, store, account>>

\* end_run: the budget is remembered for the next run.
EndRun ==
  /\ client' = [budget |-> Start(NotSeen), last |-> client.budget.seen]
  /\ run' = Idle

-----------------------------------------------------------------------------
(* Requests: sent under the budget, answered, lost, or refused *)

\* Amber charges the request; the response reports what remains.
Send ==
  /\ Allows(client.budget)
  /\ account.remaining > 0
  /\ account' = [account EXCEPT !.remaining = @ - 1]
  /\ client' = [client EXCEPT !.budget = Record(Charge(@), account.remaining - 1)]

\* The response is lost: Amber charged the request, the client saw no figure.
SendLost ==
  /\ Allows(client.budget)
  /\ left.fail > 0 /\ account.remaining > 0 /\ account.lost < Requests
  /\ left' = [left EXCEPT !.fail = @ - 1]
  /\ account' = [remaining |-> account.remaining - 1, lost |-> account.lost + 1]
  /\ client' = [client EXCEPT !.budget = Charge(@)]

\* HTTP 429: nothing remains; the response says so.
SendLimited ==
  /\ Allows(client.budget) /\ account.remaining = 0
  /\ client' = [client EXCEPT !.budget = Record(Charge(@), 0)]
  /\ UNCHANGED account

-----------------------------------------------------------------------------
(* One probe (the prober's has_data) *)

Day == DayAsked(run.search)
Probing == run.pc = "probe" /\ run.search.ask # "done"

Known(d) == d \in run.yeses \cup run.noes \/ (activeFrom # NoDay /\ d < activeFrom)

Follow(answer) == IF answer THEN AfterYes(run.search) ELSE AfterNo(run.search)

\* A day asked before, or before the site's start date, costs no request.
ProbeKnown ==
  /\ Probing /\ Known(Day)
  /\ run' = [run EXCEPT !.search = Follow(Day \in run.yeses)]
  /\ UNCHANGED <<world, store, client, account, left>>

ProbeAsk ==
  /\ Probing /\ ~Known(Day) /\ run.calls < MaxProbes
  /\ Send
  /\ LET yes == HasUsage(Day) IN
       run' = [run EXCEPT !.calls = @ + 1, !.search = Follow(yes),
                          !.yeses = IF yes THEN @ \cup {Day} ELSE @,
                          !.noes = IF yes THEN @ ELSE @ \cup {Day}]
  /\ UNCHANGED <<world, store, left>>

\* The search could not finish.  A rejected key and a spent budget also end the run;
\* with a stored boundary nothing of it changes, without one the fallback is stored.
DiscoveryFails(fatal) ==
  /\ run.discovery
  /\ IF store.boundary # NoDay
     THEN store' = IF run.service THEN run.previous ELSE KeepRetention
     ELSE IF ~fatal /\ YoungSite(run.date)
          THEN StoreRetention(activeFrom, TRUE, TRUE, today)
          ELSE StoreRetention(Guess(run.date), TRUE, TRUE, today)

\* A daily check that cannot finish verified nothing; the fatal ones store nothing.
\* mutant: steps over the bracket instead of keeping the boundary
VerifyStepsOver == StoreRetention(store.boundary + 1 + Reverify, TRUE, FALSE, store.verified)
VerifyUnresolved ==
  StoreRetention(store.boundary, TRUE, FALSE, store.verified)

VerifyFails(fatal) ==
  ~run.discovery /\ IF fatal THEN UNCHANGED store ELSE VerifyUnresolved

Fails(fatal) == DiscoveryFails(fatal) \/ VerifyFails(fatal)

\* After a failure that is not fatal a run goes on to its work; the service ends.
GoOn == IF run.service THEN EndRun ELSE run' = [Idle EXCEPT !.pc = "work"] /\ UNCHANGED client

ProbeLost ==
  /\ Probing /\ ~Known(Day) /\ run.calls < MaxProbes
  /\ SendLost
  /\ run' = [Idle EXCEPT !.pc = "conclude", !.service = run.service]
  /\ Fails(FALSE)
  /\ UNCHANGED world

\* 429 and 401: the first is an error like another, the second is fatal.
ProbeLimited ==
  /\ Probing /\ ~Known(Day) /\ run.calls < MaxProbes
  /\ SendLimited
  /\ run' = [Idle EXCEPT !.pc = "conclude", !.service = run.service]
  /\ Fails(FALSE)
  /\ UNCHANGED <<world, left>>

ProbeRejected ==
  /\ Probing /\ ~Known(Day) /\ run.calls < MaxProbes
  /\ left.fail > 0 /\ left' = [left EXCEPT !.fail = @ - 1]
  /\ Allows(client.budget) /\ account.remaining > 0
  /\ account' = [account EXCEPT !.remaining = @ - 1]
  /\ Fails(TRUE)
  /\ run' = Idle
  /\ client' = [budget |-> Start(NotSeen),
                 last |-> Record(Charge(client.budget), account.remaining - 1).seen]
  /\ UNCHANGED world

\* The cap on probes (an error like another) or the budget refuses: nothing is sent.
ProbeRefused ==
  /\ Probing /\ ~Known(Day)
  /\ run.calls = MaxProbes \/ ~Allows(client.budget)
  /\ Fails(run.calls < MaxProbes)
  /\ IF run.calls < MaxProbes THEN EndRun ELSE GoOn
  /\ UNCHANGED <<world, account, left>>

\* After a failed request: the run goes on, the service ends with the error.
AfterFailure ==
  /\ run.pc = "conclude"
  /\ GoOn
  /\ UNCHANGED <<world, store, account, left>>

-----------------------------------------------------------------------------
(* The end of a search *)

Searched == run.pc = "probe" /\ run.search.ask = "done"

FoundBoundary ==
  /\ Searched /\ run.search.found # NoDay
  /\ StoreRetention(run.search.found, FALSE, FALSE, today)
  /\ GoOn
  /\ UNCHANGED <<world, account, left>>

\* Nothing within the bracket has usage: the start date of a young site, or the fallback.
NothingBracketed ==
  /\ Searched /\ run.discovery /\ run.search.found = NoDay
  /\ IF YoungSite(run.date) THEN StoreRetention(activeFrom, FALSE, FALSE, today)
     ELSE StoreRetention(Guess(run.date), TRUE, TRUE, today)
  /\ GoOn
  /\ UNCHANGED <<world, account, left>>

VerifyNotFound ==
  /\ Searched /\ ~run.discovery /\ run.search.found = NoDay
  /\ VerifyUnresolved
  /\ GoOn
  /\ UNCHANGED <<world, account, left>>

-----------------------------------------------------------------------------
(* The rest of the run sends requests under the same budget *)

WorkRequest ==
  /\ run.pc = "work"
  /\ Send
  /\ UNCHANGED <<world, store, run, left>>

WorkEnds ==
  /\ run.pc = "work"
  /\ EndRun
  /\ UNCHANGED <<world, store, account, left>>

-----------------------------------------------------------------------------
(* Environment *)

\* The date moves on, by one day also during a run (bound: a search, at most eight requests,
\* is over before the second midnight).  Amber's usage starts where it did, as many days later
\* (a rolling window), or somewhere else.
Tick(days) ==
  /\ left.tick > 0 /\ left' = [left EXCEPT !.tick = @ - 1]
  /\ days > 1 => run.pc = "idle"
  /\ run.pc = "probe" => run.date = today
  /\ today' = today + days
  /\ held' \in {held, held + days} \cup IF run.pc = "idle" THEN HeldFrom ELSE {}
  /\ UNCHANGED <<missing, activeFrom, store, client, account, run>>

\* Amber's rate-limit window ends, and with it every window end the client knows.  Bound:
\* not while a run still has requests to send (a run would only see more remaining).
WindowEnds ==
  /\ run.pc = "idle" \/ account.remaining < Reserve
  /\ \/ account.remaining < Limit
     \/ client.budget.seen.window = "open" \/ client.last.window = "open"
  /\ account' = [account EXCEPT !.remaining = Limit]
  /\ client' = [client EXCEPT !.budget.seen = WindowOver(@), !.last = WindowOver(@)]
  /\ UNCHANGED <<world, store, run, left>>

\* A reload of the account makes a new client; one that had seen figures forgets them.
Reload ==
  /\ left.reload > 0 /\ run.pc = "idle" /\ client.last # NotSeen
  /\ left' = [left EXCEPT !.reload = @ - 1]
  /\ client' = [budget |-> Start(NotSeen), last |-> NotSeen]
  /\ UNCHANGED <<world, store, account, run>>

-----------------------------------------------------------------------------
Probe == ProbeKnown \/ ProbeAsk \/ ProbeLost \/ ProbeLimited
         \/ ProbeRejected \/ ProbeRefused \/ AfterFailure
Conclude == FoundBoundary \/ NothingBracketed \/ VerifyNotFound
Step == Probe \/ Conclude \/ WorkEnds

Next == StartRun \/ ProbeRetention \/ Step \/ WorkRequest
        \/ (\E days \in Outages : Tick(days)) \/ WindowEnds \/ Reload

Spec == Init /\ [][Next]_vars

\* The schedule starts runs, a run goes on, and Amber's windows end.
FairSpec == Spec /\ WF_vars(StartRun) /\ WF_vars(Step) /\ WF_vars(WindowEnds)
=============================================================================

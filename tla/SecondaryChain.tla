--------------------------- MODULE SecondaryChain ---------------------------
(***************************************************************************)
(* One secondary chain of a site (an appliance's solar-aware cost, or an   *)
(* own sensor's cost): ChainState (storage.py) and the chain's part of a   *)
(* run (manager.py), with what it shares with the usage chain: the run's   *)
(* fetched days, the revision set, the days' statuses and the record of    *)
(* empty answers.                                                          *)
(*                                                                         *)
(* The usage chain itself is abstract here: it resolves its days in order, *)
(* each in one step (UsageImport has the detail).  A chain's day is one    *)
(* row [state, sum], committed in one step.                                *)
(***************************************************************************)
EXTENDS AmberStore

CONSTANTS
  SolarAware,   \* is the sensor's role solar_aware?
  Modes,        \* "full", or "pricing": no usage statistics
  Patience,     \* patience_days
  Retention,    \* how many days back Amber answers for
  Gaps,         \* days Amber never publishes
  SensorFrom,   \* where the sensor's history may start (Absent: no statistics)
  Missing,      \* days without sensor data, and, until the upgrade, ...
  Nights,       \* ... days an earlier version could not work out
  CrashPoints,  \* where a run may be cut off
  Budgets       \* bounds on the events of one behaviour: how many of each kind

ASSUME SecondaryChainAssumption ==
  /\ SolarAware \in BOOLEAN /\ Modes \subseteq {"full", "pricing"}
  /\ Patience \in Nat \ {0} /\ Retention \in Nat \ {0}
  /\ Gaps \subseteq Day /\ Missing \subseteq Day /\ Nights \subseteq Day
  /\ SensorFrom \subseteq Day \cup {Absent}
  /\ Budgets \subseteq [{"crash", "revise", "remove", "toggle"} -> Nat]

VARIABLES
  today,     \* nem_today()
  amber,     \* what Amber holds for each day
  store,     \* the Store on disk: the usage chain and what is shared
  written,   \* the amount of the usage statistics of each day (0: none)
  chain,     \* the ChainState on disk
  rows,      \* the statistics of the chain
  site,      \* its sensor and settings: mapped, since, flows, upgraded, mode
  run,       \* the active run, in memory
  left,      \* the bounded events that may still happen
  lapses     \* history: what the chain had to make good and has lost the means to

usage == <<store, written>>
setup == <<today, amber, site, lapses>>
vars == <<setup, usage, chain, rows, run, left>>

-----------------------------------------------------------------------------
(* The record of a chain *)

ChainSkipped == {"unavailable", "gap", "sensor"}
ChainStatus  == {"none", "imported"} \cup ChainSkipped

NoRewrite == [next |-> NoDay, to |-> NoDay, retry |-> FALSE]

ChainRecord ==
  [marker : Day \cup {NoDay}, lastWritten : Day \cup {NoDay}, pending : Day \cup {NoDay},
   status : [Day -> ChainStatus], rewrite : [next : 0..MaxDay, to : 0..MaxDay, retry : BOOLEAN],
   retried : BOOLEAN]

NewChain == [marker |-> NoDay, lastWritten |-> NoDay, pending |-> NoDay,
             status |-> [d \in Day |-> "none"], rewrite |-> NoRewrite, retried |-> FALSE]

SetPendingInMemory(c, day) == c   \* mutant: the pending day is not saved
ChainSetPending(c, day) == [c EXCEPT !.pending = day]

Adopt(c, last) == [c EXCEPT !.marker = last, !.lastWritten = last]

MarkWritten(c, day) ==
  [c EXCEPT !.marker = Later(@, day), !.lastWritten = Later(@, day), !.pending = NoDay,
            !.status[day] = "imported"]

ChainMarkSkippedBack(c, first, last, how) ==   \* mutant: the marker moves back
  [c EXCEPT !.marker = last,
            !.status = [d \in Day |-> IF d \in first..last /\ @[d] # "imported"
                                      THEN how ELSE @[d]]]
ChainMarkSkipped(c, first, last, how) ==
  [c EXCEPT !.marker = Later(@, last),
            !.status = [d \in Day |-> IF d \in first..last /\ @[d] # "imported"
                                      THEN how ELSE @[d]]]

SetRewriteAhead(c, next, to) ==   \* mutant: the progress is a day ahead of the write
  [c EXCEPT !.rewrite.next = next + 1, !.rewrite.to = to]
SetRewrite(c, next, to) == [c EXCEPT !.rewrite.next = next, !.rewrite.to = to]
EndRewrite(c) == [c EXCEPT !.rewrite = NoRewrite]

\* async_start_retry: the retry and its progress in one save.
StartRetry(c, progress) == [c EXCEPT !.retried = TRUE, !.rewrite = progress]

ChainLastImportedBefore(day) ==
  MaxOf({d \in Day : d < day /\ chain.status[d] = "imported"})

SensorSkips(boundary) == {d \in Day : d >= boundary /\ chain.status[d] = "sensor"}

-----------------------------------------------------------------------------
(* Amber, the sensor, the statistics *)

Nothing   == [quality |-> "none", amount |-> 0]
Unfetched == [quality |-> "unfetched", amount |-> 0]
Answer    == {Nothing} \cup [quality : {"estimated", "actual"}, amount : Amount]
Empty(a)  == a.quality = "none"

Boundary == Later(1, today - Retention)     \* the retention boundary, verified today
Usage(d) == IF d < Boundary THEN Nothing ELSE amber[d]

\* Can the sensor's energy on the day be worked out?
SensorData(d) ==
  site.since <= d /\ d \notin Missing /\ (d \in Nights => site.upgraded)

NoRow == [state |-> 0, sum |-> 0]
HasRow(d) == rows[d] # NoRow
LastRow == MaxOf({d \in Day : HasRow(d)})

PCs == {"idle", "revisions", "revised", "checked", "usage", "guard", "resume", "start", "ready",
        "walk", "rewrite", "rows", "mark", "track"}

RunRecord ==
  [pc : PCs, yesterday : 0..MaxDay, day : 0..(MaxDay + 1),
   recovery : Day \cup {NoDay}, start : 0..(MaxDay + 1),
   cache : [Day -> Answer \cup {Unfetched}], last : 0..MaxDay, rewriting : BOOLEAN,
   after : {"checked", "start", "walk"}]

Idle == [pc |-> "idle", yesterday |-> 0, day |-> 0, recovery |-> NoDay, start |-> 0,
         cache |-> [d \in Day |-> Unfetched], last |-> 0, rewriting |-> FALSE,
         after |-> "checked"]

StateOK ==
  /\ today \in Date /\ amber \in [Day -> Answer]
  /\ store \in StoreRecord /\ written \in [Day -> Amount \cup {0}]
  /\ chain \in ChainRecord
  /\ rows \in [Day -> [state : Nat, sum : Nat]]
  /\ run \in RunRecord
  /\ site \in [mapped : BOOLEAN, since : SensorFrom, flows : BOOLEAN, upgraded : BOOLEAN,
             mode : Modes]
  /\ left \in [{"crash", "revise", "remove", "toggle"} -> Nat]

TypeOK == StateOK /\ lapses \subseteq {"recovery", "revision"}

Init ==
  /\ today = 1 /\ amber = [d \in Day |-> Nothing]
  /\ store = EmptyStore({}) /\ written = [d \in Day |-> 0]
  /\ chain = NewChain /\ rows = [d \in Day |-> NoRow]
  /\ site \in [mapped : {TRUE}, since : SensorFrom, flows : {TRUE}, upgraded : {FALSE},
             mode : Modes]
  /\ run = Idle
  /\ left \in Budgets /\ lapses = {}

At(pc)   == run.pc = pc
Goto(pc) == run' = [run EXCEPT !.pc = pc]
EndRun   == run' = Idle

Spend(event) ==
  /\ left[event] > 0
  /\ left' = [left EXCEPT ![event] = @ - 1]

-----------------------------------------------------------------------------
(* Environment and user *)

\* An append was interrupted: the last row is not recorded as written.  The pending day
\* explains it to the guard, until a rewrite or a skip forgets it (_async_write of
\* storage.py): where the guard has not read it by then, it stops every later run.
Interrupted == chain.marker # NoDay /\ LastRow > chain.lastWritten

Lapse(recovery, revision) ==
  lapses' = lapses \cup (IF recovery THEN {"recovery"} ELSE {})
                   \cup (IF revision THEN {"revision"} ELSE {})

\* The interrupted day leaves Amber's retention, and will be skipped.
Tick ==
  /\ today <= MaxDay /\ At("idle")
  /\ today' = today + 1
  /\ Lapse(Interrupted /\ LastRow <= today - Retention, FALSE)
  /\ UNCHANGED <<amber, site, usage, chain, rows, run, left>>

\* The chain has, or is about to write, a day that the usage chain has not: a revision of
\* it is not seen as one by the usage chain, which stores the new amount.
Ahead(d) ==
  /\ site.mode = "full" /\ store.status[d] \in {"none", "empty"}
  /\ chain.status[d] = "imported" \/ ~At("idle")

\* Amber publishes a day after its end, and revises it while it is estimated; the next run
\* rewrites before it reads the pending day.  Bounds: a day is published with the least
\* amount, so that only revisions tell days apart, and a revised amount is final; while a
\* run is active, Amber moves only between the usage chain and the secondary chain (within
\* each, the run's cache hides what it does).
Revised(d, a) == ~Empty(amber[d]) /\ a.amount # amber[d].amount
Publish(d) ==
  /\ run.pc \in {"idle", "guard"}
  /\ d < today /\ d \notin Gaps /\ amber[d].quality # "actual"
  /\ \E a \in Answer \ {Nothing, amber[d]} :
       /\ amber' = [amber EXCEPT ![d] = a]
       /\ IF Revised(d, a) THEN a.quality = "actual" /\ Spend("revise")
          ELSE (Empty(amber[d]) => a.amount = MinOf(Amount)) /\ UNCHANGED left
       /\ Lapse(Revised(d, a) /\ Interrupted, Revised(d, a) /\ Ahead(d))
  /\ UNCHANGED <<today, site, usage, chain, rows, run>>

RevisionWaits == \E d \in RevisionDaysOf(store) : amber[d].amount # store.revisions[d].hash

\* A rewrite that has not saved its progress yet is not resumed.
Unsaved == At("rewrite") /\ (chain.rewrite = NoRewrite \/ run.day < chain.rewrite.next)

\* Where a rewrite comes between an interrupted append and the guard: during a retry, after
\* it until the walk sets the day pending again, or when a revision waits for the next run.
PendingAtRisk ==
  Interrupted /\ \/ run.rewriting \/ RevisionWaits
                 \/ At("walk") /\ chain.pending # chain.marker + 1

\* Home Assistant stops: memory is lost, the Store and the committed rows stay.
Crash ==
  /\ Spend("crash") /\ run.pc \in CrashPoints
  /\ EndRun
  /\ Lapse(PendingAtRisk, Unsaved)
  /\ UNCHANGED <<today, amber, site, usage, chain, rows>>

\* The mapping is removed (its state is forgotten, its statistic kept), and added again.
RemoveMapping ==
  /\ At("idle") /\ site.mapped /\ Spend("remove")
  /\ site' = [site EXCEPT !.mapped = FALSE]
  /\ chain' = NewChain
  /\ UNCHANGED <<today, amber, lapses, usage, rows, run>>

AddMapping ==
  /\ At("idle") /\ ~site.mapped
  /\ site' = [site EXCEPT !.mapped = TRUE]
  /\ UNCHANGED <<today, amber, lapses, usage, chain, rows, run, left>>

\* The site's solar sensor or grid meter is mapped or unmapped; the entry reloads.
ToggleFlows ==
  /\ At("idle") /\ SolarAware /\ Spend("toggle")
  /\ site' = [site EXCEPT !.flows = ~@]
  /\ UNCHANGED <<today, amber, lapses, usage, chain, rows, run>>

\* The version that works out the nights of a solar sensor (2.2.0b4) is installed.
Upgrade ==
  /\ At("idle") /\ ~site.upgraded /\ Nights # {}
  /\ site' = [site EXCEPT !.upgraded = TRUE]
  /\ UNCHANGED <<today, amber, lapses, usage, chain, rows, run, left>>

-----------------------------------------------------------------------------
(* Fetching: a window reaches to the last day asked for *)

Fetch(first, last) ==
  [d \in Day |-> IF d \in first..last THEN Usage(d) ELSE run.cache[d]]

\* The cache with day fetched, if it is not there yet.
CacheWith(day, last) ==
  IF run.cache[day] = Unfetched THEN Fetch(day, Later(day, last)) ELSE run.cache

LaterHasData(cache, day) ==
  \E d \in Day : d > day /\ cache[d] # Unfetched /\ ~Empty(cache[d])

\* _async_track_revision: an estimated day is in the revision set, another is not.
Track(st, day, a) ==
  IF a.quality = "estimated" THEN SetRevision(st, day, today, a.amount)
  ELSE DropRevisions(st, {day})

-----------------------------------------------------------------------------
(* The run: the revision check *)

StartRun ==
  /\ At("idle")
  /\ run' = [Idle EXCEPT !.pc = IF store.checked = today THEN "usage" ELSE "revisions",
                         !.yesterday = today - 1]
  /\ UNCHANGED <<setup, usage, chain, rows, left>>

Changed(cache, d) == ~Empty(cache[d]) /\ cache[d].amount # store.revisions[d].hash
Final(cache, d) ==
  ~Empty(cache[d]) /\ ~Changed(cache, d) /\ cache[d].quality # "estimated"

CheckRevisions ==
  /\ At("revisions")
  /\ LET days    == RevisionDaysOf(store)
         cache   == IF days = {} THEN run.cache ELSE Fetch(MinOf(days), run.yesterday)
         changed == {d \in days : Changed(cache, d)} IN
     /\ store' = DropRevisions(store, {d \in days : Final(cache, d)})
     /\ run' = [run EXCEPT !.cache = cache, !.day = MinOf(changed),
                           !.pc = IF changed = {} THEN "checked" ELSE "revised"]
  /\ UNCHANGED <<setup, written, chain, rows, left>>

\* The usage chain's tail is rewritten from the first changed day (in one step).
UsageRewritten ==
  LET tail == {d \in Day : d >= run.day /\ store.status[d] = "imported"}
      update(st, d) == Track(st, d, run.cache[d]) IN
  [store EXCEPT !.revisions =
     [d \in Day |-> IF d \in tail THEN update(store, d).revisions[d] ELSE @[d]]]

ChainRewriteDueEarlier ==   \* mutant: a revision of the last written day is left out
  chain.lastWritten # NoDay /\ run.day < chain.lastWritten
ChainRewriteDue == chain.lastWritten # NoDay /\ run.day <= chain.lastWritten

\* Where a rewrite that starts now ends: where an interrupted one was to end.
RewriteLast == IF chain.rewrite # NoRewrite THEN chain.rewrite.to ELSE chain.lastWritten

BeginRewrite(first, last, after) ==
  run' = [run EXCEPT !.pc = "rewrite", !.day = first, !.last = last, !.rewriting = TRUE,
                     !.after = after]

RewriteAfterRevision ==
  /\ At("revised")
  /\ IF site.mode = "full"
     THEN /\ store' = UsageRewritten
          /\ written' = [d \in Day |-> IF d >= run.day /\ store.status[d] = "imported"
                                       THEN run.cache[d].amount ELSE written[d]]
     ELSE UNCHANGED usage
  /\ IF site.mapped /\ ChainRewriteDue THEN BeginRewrite(run.day, RewriteLast, "checked")
     ELSE Goto("checked")
  /\ UNCHANGED <<setup, chain, rows, left>>

RevisionsChecked ==
  /\ At("checked")
  /\ store' = SetChecked(store, today)
  /\ Goto("usage")
  /\ UNCHANGED <<setup, written, chain, rows, left>>

-----------------------------------------------------------------------------
(* The run: the usage chain, a day per step *)

NextUsageDay == IF store.marker = NoDay THEN Boundary ELSE store.marker + 1

UsageBehind == site.mode = "full" /\ NextUsageDay <= run.yesterday

\* An empty day: noted once a date; a gap after enough dates with data behind it.
PatientEnough(st, day) == Cardinality(st.emptySeen[day]) >= Patience

ImportUsageDay ==
  /\ At("usage") /\ UsageBehind /\ NextUsageDay >= Boundary
  /\ LET day   == NextUsageDay
         cache == CacheWith(day, run.yesterday)
         noted == NoteEmpty(store, day, today) IN
     IF ~Empty(cache[day])
     THEN /\ store' = Track(MarkImported(store, day), day, cache[day])
          /\ written' = [written EXCEPT ![day] = cache[day].amount]
          /\ run' = [run EXCEPT !.cache = cache]
     ELSE /\ UNCHANGED written
          /\ IF PatientEnough(noted, day) /\ LaterHasData(cache, day)
             THEN /\ store' = MarkSkipped(noted, day, day, "gap")
                  /\ run' = [run EXCEPT !.cache = cache]
             ELSE /\ store' = noted
                  /\ run' = [run EXCEPT !.cache = cache, !.pc = "guard"]
  /\ UNCHANGED <<setup, chain, rows, left>>

\* Days that have left Amber's retention.
SkipUnavailableUsage ==
  /\ At("usage") /\ UsageBehind /\ NextUsageDay < Boundary
  /\ store' = MarkSkipped(store, NextUsageDay, Earlier(Boundary - 1, run.yesterday), "unavailable")
  /\ UNCHANGED <<setup, written, chain, rows, run, left>>

UsageDone ==
  /\ At("usage") /\ ~UsageBehind
  /\ IF site.mapped THEN Goto("guard") ELSE EndRun
  /\ UNCHANGED <<setup, usage, chain, rows, left>>

-----------------------------------------------------------------------------
(* The chain: its guard *)

Adoptable == chain.marker = NoDay /\ chain.lastWritten = NoDay /\ LastRow # NoDay

ChainMarkerProblem ==
  \/ chain.marker < chain.lastWritten
  \/ /\ chain.lastWritten # NoDay
     /\ \E d \in (chain.lastWritten + 1)..chain.marker : chain.status[d] \notin ChainSkipped

ChainAgrees == LastRow = chain.lastWritten

ChainPendingExplains ==
  /\ chain.pending # NoDay
  /\ chain.marker # NoDay => chain.pending = chain.marker + 1
  /\ LastRow \in {chain.lastWritten, chain.pending}

ChainGuardStops == ~Adoptable /\ (ChainMarkerProblem \/ ~(ChainAgrees \/ ChainPendingExplains))

GuardAdopts ==
  /\ At("guard") /\ site.mapped /\ Adoptable
  /\ chain' = Adopt(chain, LastRow)
  /\ run' = [run EXCEPT !.pc = "resume", !.recovery = NoDay]
  /\ UNCHANGED <<setup, usage, rows, left>>

GuardAccepts ==
  /\ At("guard") /\ site.mapped /\ ~Adoptable /\ ~ChainGuardStops
  /\ chain' = IF ChainAgrees THEN ChainSetPending(chain, NoDay) ELSE chain
  /\ run' = [run EXCEPT !.pc = "resume",
                        !.recovery = IF ChainAgrees THEN NoDay ELSE chain.pending]
  /\ UNCHANGED <<setup, usage, rows, left>>

\* marker_mismatch; or there is no chain.
GuardEnds ==
  /\ At("guard") /\ (ChainGuardStops \/ ~site.mapped)
  /\ EndRun
  /\ UNCHANGED <<setup, usage, chain, rows, left>>

-----------------------------------------------------------------------------
(* The chain: what comes before its walk *)

Flows == site.flows \/ ~SolarAware

ResumeRewrite ==
  /\ At("resume")
  /\ IF chain.rewrite # NoRewrite /\ Flows
     THEN BeginRewrite(chain.rewrite.next, chain.rewrite.to, "start")
     ELSE Goto("start")
  /\ UNCHANGED <<setup, usage, chain, rows, left>>

\* The day a chain starts from: the sensor's first day, not before the boundary.
ChainStart == IF site.since = Absent THEN NoDay ELSE Later(site.since, Boundary)

FirstDay ==
  IF run.recovery # NoDay THEN run.recovery
  ELSE IF chain.marker # NoDay THEN chain.marker + 1 ELSE ChainStart

\* Days older than retention are skipped first; without history the chain waits.
ChainFirstDay ==
  /\ At("start")
  /\ LET last == Earlier(Boundary - 1, run.yesterday) IN
     IF FirstDay = NoDay THEN EndRun /\ UNCHANGED chain
     ELSE IF FirstDay < Boundary
     THEN /\ chain' = ChainMarkSkipped(chain, FirstDay, last, "unavailable")
          /\ run' = [run EXCEPT !.pc = "ready", !.day = last + 1]
     ELSE /\ run' = [run EXCEPT !.pc = "ready", !.day = FirstDay]
          /\ UNCHANGED chain
  /\ UNCHANGED <<setup, usage, rows, left>>

RetryDue == SolarAware /\ site.upgraded /\ ~chain.retried

\* A solar-aware chain waits for the site's flows; then it retries, once, the days it
\* skipped for sensor data.
ChainReady ==
  /\ At("ready")
  /\ LET skips == SensorSkips(Boundary) IN
     IF ~Flows THEN EndRun /\ UNCHANGED chain
     ELSE IF ~RetryDue THEN Goto("walk") /\ UNCHANGED chain
     ELSE IF skips = {} THEN chain' = StartRetry(chain, chain.rewrite) /\ Goto("walk")
     ELSE /\ chain' = StartRetry(chain, [next |-> MinOf(skips), to |-> chain.marker,
                                         retry |-> TRUE])
          /\ run' = [run EXCEPT !.pc = "rewrite", !.last = chain.marker, !.rewriting = TRUE,
                                !.after = "walk", !.start = run.day, !.day = MinOf(skips)]
  /\ UNCHANGED <<setup, usage, rows, left>>

-----------------------------------------------------------------------------
(* The chain: its walk *)

ChainEmptyDayImpatient(cache) ==   \* mutant: a gap as soon as later data exists
  /\ UNCHANGED store
  /\ IF LaterHasData(cache, run.day)
     THEN /\ chain' = ChainMarkSkipped(chain, run.day, run.day, "gap")
          /\ run' = [run EXCEPT !.cache = cache, !.day = @ + 1]
     ELSE EndRun /\ UNCHANGED chain
\* The day is skipped as for the usage data, or follows patience on its own.
ChainEmptyDay(cache) ==
  LET day    == run.day
      shared == store.status[day]
      noted  == NoteEmpty(store, day, today)
      skip(how) == /\ chain' = ChainMarkSkipped(chain, day, day, how)
                   /\ run' = [run EXCEPT !.cache = cache, !.day = day + 1] IN
  IF shared \in {"gap", "unavailable"} THEN skip(shared) /\ UNCHANGED store
  ELSE /\ store' = noted
       /\ IF PatientEnough(noted, day) /\ LaterHasData(cache, day) THEN skip("gap")
          ELSE EndRun /\ UNCHANGED chain

WalkEmpty ==
  /\ At("walk") /\ run.day <= run.yesterday
  /\ LET cache == CacheWith(run.day, run.yesterday) IN
       Empty(cache[run.day]) /\ ChainEmptyDay(cache)
  /\ UNCHANGED <<setup, written, rows, left>>

\* Appending a day: the pending day is saved before its rows are written.
Appending == run.day > chain.lastWritten

WalkDay ==
  /\ At("walk") /\ run.day <= run.yesterday
  /\ LET cache == CacheWith(run.day, run.yesterday) IN
     /\ ~Empty(cache[run.day])
     /\ IF SensorData(run.day)
        THEN /\ chain' = IF Appending THEN ChainSetPending(chain, run.day) ELSE chain
             /\ run' = [run EXCEPT !.cache = cache, !.pc = "rows", !.rewriting = FALSE]
        ELSE /\ chain' = ChainMarkSkipped(chain, run.day, run.day, "sensor")
             /\ run' = [run EXCEPT !.cache = cache, !.day = @ + 1]
  /\ UNCHANGED <<setup, usage, rows, left>>

WalkDone ==
  /\ At("walk") /\ run.day > run.yesterday
  /\ EndRun
  /\ UNCHANGED <<setup, usage, chain, rows, left>>

-----------------------------------------------------------------------------
(* The chain: writing one day *)

PrevFromLastWritten(day) == chain.lastWritten   \* mutant: of a rewritten day too
Prev(day) ==
  IF chain.lastWritten # NoDay /\ chain.lastWritten < day THEN chain.lastWritten
  ELSE ChainLastImportedBefore(day)

Baseline(day) == IF Prev(day) = NoDay THEN 0 ELSE rows[Prev(day)].sum

\* partial_history refuses; otherwise the recorder commits the day's rows.
WriteRows ==
  /\ At("rows")
  /\ LET day == run.day
         amount == run.cache[day].amount IN
     IF Prev(day) # NoDay /\ ~HasRow(Prev(day)) THEN EndRun /\ UNCHANGED rows
     ELSE /\ rows' = [rows EXCEPT ![day] = [state |-> amount, sum |-> Baseline(day) + amount]]
          /\ Goto("mark")
  /\ UNCHANGED <<setup, usage, chain, left>>

MarkDayWritten ==
  /\ At("mark")
  /\ chain' = MarkWritten(chain, run.day)
  /\ Goto("track")
  /\ UNCHANGED <<setup, usage, rows, left>>

TrackDay ==
  /\ At("track")
  /\ store' = Track(store, run.day, run.cache[run.day])
  /\ run' = [run EXCEPT !.pc = IF run.rewriting THEN "rewrite" ELSE "walk", !.day = @ + 1]
  /\ UNCHANGED <<setup, written, chain, rows, left>>

-----------------------------------------------------------------------------
(* The chain: a rewrite, its progress saved before each day *)

Rewritten(day) ==
  \/ chain.status[day] = "imported"
  \/ chain.rewrite.retry /\ chain.status[day] = "sensor"

RewriteDay ==
  /\ At("rewrite") /\ run.day <= run.last
  /\ LET day   == run.day
         saved == SetRewrite(chain, day, run.last)
         cache == CacheWith(day, run.last) IN
     IF ~Rewritten(day)
     THEN chain' = saved /\ run' = [run EXCEPT !.day = @ + 1]
     ELSE IF Empty(cache[day]) \/ ~Flows     \* tail_unavailable; an assertion fails
     THEN chain' = saved /\ EndRun
     ELSE IF SensorData(day)
     THEN chain' = saved /\ run' = [run EXCEPT !.cache = cache, !.pc = "rows"]
     ELSE /\ chain' = ChainMarkSkipped(saved, day, day, "sensor")
          /\ run' = [run EXCEPT !.cache = cache, !.day = @ + 1]
  /\ UNCHANGED <<setup, usage, rows, left>>

RewriteDone ==
  /\ At("rewrite") /\ run.day > run.last
  /\ chain' = EndRewrite(chain)
  /\ run' = [run EXCEPT !.pc = run.after, !.rewriting = FALSE,
                        !.day = IF run.after = "walk" THEN run.start ELSE @]
  /\ UNCHANGED <<setup, usage, rows, left>>

-----------------------------------------------------------------------------
Revise == CheckRevisions \/ RewriteAfterRevision \/ RevisionsChecked
UsageStep == ImportUsageDay \/ SkipUnavailableUsage \/ UsageDone
ChainStep == GuardAdopts \/ GuardAccepts \/ GuardEnds \/ ResumeRewrite \/ ChainFirstDay
             \/ ChainReady \/ WalkEmpty \/ WalkDay \/ WalkDone
             \/ WriteRows \/ MarkDayWritten \/ TrackDay \/ RewriteDay \/ RewriteDone
RunStep == Revise \/ UsageStep \/ ChainStep

Environment == Tick \/ (\E d \in Day : Publish(d)) \/ Crash
User == RemoveMapping \/ AddMapping \/ ToggleFlows \/ Upgrade

Next == StartRun \/ RunStep \/ Environment \/ User

Spec == Init /\ [][Next]_vars
=============================================================================

---------------------------- MODULE UsageImport ----------------------------
(***************************************************************************)
(* The usage import of one site: ImportManager.async_run (guard 1, the     *)
(* resumed rewrite, retention, the revision check, the walk or a backfill) *)
(* and async_import_day (manager.py), the shared per-day write path        *)
(* (importer.py) and the Store they share, with the recorder's statistics  *)
(* table, the Amber API and the calendar as the environment.               *)
(*                                                                         *)
(* One step is what happens between two points at which another actor is   *)
(* visible: a durable Store save, an API answer, a recorder commit.  Runs  *)
(* and import_day hold the account's lock from start to end, so at most    *)
(* one is active; the recorder, Amber, the clock and a crash interleave    *)
(* with it anywhere.                                                       *)
(*                                                                         *)
(* A day's usage is abstracted to its quality and one amount, a day's 24   *)
(* rows of a statistic to one row [state, sum].                            *)
(***************************************************************************)
EXTENDS AmberStore, Sequences

CONSTANTS
  LateStat,       \* statistics of a channel that is added after setup
  Window,         \* FETCH_WINDOW_DAYS
  Patience,       \* patience_days
  RevisionDays,   \* revision_days
  Retention,      \* how many days back Amber answers for
  Modes,          \* the usage modes the site may be in
  Quality,        \* the qualities Amber publishes in this instance
  Gaps,           \* days Amber never publishes
  Services,       \* the user's operations of this instance
  CrashPoints,    \* where a run may be cut off
  Regress,        \* may a complete day become incomplete (an unexpected channel)?
  MaxCrash,       \* bound: crashes
  MaxFail,        \* bound: failing API requests
  MaxCall,        \* bound: calls that change something (run_now is free)
  MaxSlow         \* bound: commits that outlast VERIFY_TIMEOUT

ASSUME UsageImportAssumption ==
  /\ LateStat \subseteq Stat
  /\ Window \in Nat \ {0} /\ Patience \in Nat \ {0}
  /\ RevisionDays \in Nat /\ Retention \in Nat \ {0}
  /\ Modes \subseteq {"full", "recovery", "pricing"}
  /\ Quality \subseteq {"partial", "estimated", "actual"}
  /\ Gaps \subseteq Day
  /\ Services \subseteq {"run_now", "backfill", "import_day", "add_channels", "set_mode"}
  /\ Regress \in BOOLEAN
  /\ MaxCrash \in Nat /\ MaxFail \in Nat /\ MaxCall \in Nat /\ MaxSlow \in Nat

VARIABLES
  today,    \* nem_today()
  amber,    \* what Amber holds for each day
  store,    \* the Store on disk
  rows,     \* the statistics table: rows[s][d]
  queue,    \* the recorder's queue of days to import, in memory
  run,      \* the active run or import_day, in memory
  mode,     \* the usage mode option
  added,    \* the first day of every channel as the Store has it (channel_since)
  late,     \* history: has a channel been loaded after a day of its own was recorded?
  budget    \* how many crashes, failures, calls and timeouts are left

vars == <<today, amber, store, rows, queue, run, mode, added, late, budget>>

-----------------------------------------------------------------------------
(* Amber *)

Nothing   == [quality |-> "none", amount |-> 0]
Partial   == [quality |-> "partial", amount |-> 0]
Unfetched == [quality |-> "unfetched", amount |-> 0]
Answer    == {Nothing, Partial} \cup [quality : {"estimated", "actual"}, amount : Amount]

Complete(a) == a.quality \in {"estimated", "actual"}   \* check_completeness passes
Empty(a)    == a.quality = "none"

\* The answer to a /usage request for day d now.
Usage(d) == IF d + Retention < today THEN Nothing ELSE amber[d]

-----------------------------------------------------------------------------
(* The statistics table and the recorder's queue *)

NoRow == [state |-> 0, sum |-> 0]
Row   == {r \in [state : Nat, sum : Nat] : r.state <= r.sum}
Batch == [day : Day, rows : [Stat -> Row], todo : SUBSET Stat]

HasRow(s, d) == rows[s][d] # NoRow
Latest(s)    == MaxOf({d \in Day : HasRow(s, d)})

\* Does statistic s exist on day d?
Active(s, d) == store.since[s] <= d

-----------------------------------------------------------------------------
(* The run in memory *)

PCs == {"idle", "guard", "resume", "retention", "revisions", "compare", "checked",
        "work", "backfill", "walk", "rewrite", "plan", "fetch_day", "write", "verify",
        "track", "advance"}

RunRecord ==
  [pc : PCs,
   job : {"run", "backfill", "import_day"},
   from : Day \cup {NoDay}, upto : Day \cup {NoDay},   \* the service's arguments
   recovery : Day \cup {NoDay},
   yesterday : 0..MaxDay,               \* fixed when the walk or check starts
   day : 0..(MaxDay + 1),               \* the day at hand
   windowEnd : 0..MaxDay,
   leading : Day \cup {NoDay},
   cache : [Day -> Answer \cup {Unfetched}],
   base : [Stat -> Nat],                \* the baselines of the day being written
   caller : {"walk", "rewrite", "append", "reimport"},
   after : {"retention", "checked", "end"}]

Idle ==
  [pc |-> "idle", job |-> "run", from |-> NoDay, upto |-> NoDay, recovery |-> NoDay,
   yesterday |-> 0, day |-> 0, windowEnd |-> 0, leading |-> NoDay,
   cache |-> [d \in Day |-> Unfetched], base |-> [s \in Stat |-> 0],
   caller |-> "walk", after |-> "end"]

Budget == [crash : 0..MaxCrash, fail : 0..MaxFail, call : 0..MaxCall, slow : 0..MaxSlow]

TypeOK ==
  /\ today \in Date
  /\ amber \in [Day -> Answer]
  /\ store \in StoreRecord
  /\ rows \in [Stat -> [Day -> Row]]
  /\ queue \in Seq(Batch)
  /\ run \in RunRecord
  /\ mode \in Modes
  /\ added \in [Stat -> 0..Absent]
  /\ late \in BOOLEAN
  /\ budget \in Budget

Init ==
  /\ today = 1
  /\ amber = [d \in Day |-> Nothing]
  /\ store = EmptyStore(LateStat)
  /\ rows = [s \in Stat |-> [d \in Day |-> NoRow]]
  /\ queue = <<>>
  /\ run = Idle
  /\ mode \in Modes
  /\ added = store.since
  /\ late = FALSE
  /\ budget = [crash |-> MaxCrash, fail |-> MaxFail, call |-> MaxCall, slow |-> MaxSlow]

UsageActive == mode # "pricing"
Yesterday == today - 1

Goto(pc) == run' = [run EXCEPT !.pc = pc]
Stop     == run' = Idle                 \* the run ends: whatever it held is gone
At(pc)   == run.pc = pc

environment == <<today, amber, mode, added, late>>
table == <<rows, queue>>

\* An API request fails (no answer, 429, budget, authentication): async_run ends.
RequestFails ==
  /\ budget.fail > 0
  /\ budget' = [budget EXCEPT !.fail = @ - 1]
  /\ Stop

-----------------------------------------------------------------------------
(* Environment: the calendar, Amber, the recorder, crashes *)

Tick ==
  /\ today <= MaxDay
  /\ today' = today + 1
  /\ UNCHANGED <<amber, store, table, run, mode, added, late, budget>>

\* Amber publishes a day after its end, completes it, and revises it while estimated.
Publish(d) ==
  /\ d < today /\ d \notin Gaps
  /\ amber[d].quality # "actual"
  /\ \E a \in {x \in Answer : x.quality \in Quality} :
       /\ a # amber[d]
       /\ Complete(amber[d]) => Complete(a) /\ today <= MaxDay
       /\ amber' = [amber EXCEPT ![d] = a]
  /\ UNCHANGED <<today, store, table, run, mode, added, late, budget>>

\* A channel the integration is not configured for appears in a published day.
UnexpectedChannel(d) ==
  /\ Regress /\ Complete(amber[d])
  /\ amber' = [amber EXCEPT ![d] = Partial]
  /\ UNCHANGED <<today, store, table, run, mode, added, late, budget>>

\* The recorder imports one statistic of the batch at the head of its queue.
Commit(s) ==
  /\ queue # <<>>
  /\ s \in Head(queue).todo
  /\ LET b == Head(queue) IN
       /\ rows' = [rows EXCEPT ![s][b.day] = b.rows[s]]
       /\ queue' = IF b.todo = {s} THEN Tail(queue)
                   ELSE [queue EXCEPT ![1].todo = @ \ {s}]
  /\ UNCHANGED <<environment, store, run, budget>>

\* Home Assistant stops: the run and the recorder's queue are lost.
Crash ==
  /\ budget.crash > 0
  /\ run.pc \in CrashPoints
  /\ run.pc # "idle" \/ queue # <<>>
  /\ budget' = [budget EXCEPT !.crash = @ - 1]
  /\ queue' = <<>>
  /\ Stop
  /\ UNCHANGED <<environment, store, rows>>

-----------------------------------------------------------------------------
(* Starting: the schedule, run_now and the services *)

Begin ==
  /\ At("idle")
  /\ run' = [run EXCEPT !.pc = "guard"]
  /\ UNCHANGED <<environment, store, table, budget>>

\* Yesterday is resolved, or the mode does not import by itself.
CaughtUp == mode = "full" => store.marker >= Yesterday

ScheduledRun == mode # "recovery" /\ ~CaughtUp /\ Begin

\* The run_now service and the run at startup (first setup, or an interrupted run).
RunNow == "run_now" \in Services /\ Begin

Serve(service) ==
  /\ service \in Services /\ budget.call > 0
  /\ budget' = [budget EXCEPT !.call = @ - 1]

StartBackfill(from, upto) ==
  /\ At("idle") /\ Serve("backfill") /\ UsageActive /\ from <= upto
  /\ run' = [run EXCEPT !.pc = "guard", !.job = "backfill", !.from = from, !.upto = upto]
  /\ UNCHANGED <<environment, store, table>>

StartImportDay(day) ==
  /\ At("idle") /\ Serve("import_day")
  /\ run' = [run EXCEPT !.pc = "guard", !.job = "import_day", !.from = day]
  /\ UNCHANGED <<environment, store, table>>

\* The reconfigure flow records that new channels start at the day after the marker.  It
\* takes no lock: a run may be on that very day, for the channels it began with.
AddChannels ==
  /\ Serve("add_channels")
  /\ LateStat # {} /\ \A s \in LateStat : added[s] = Absent
  /\ LET first == IF store.marker = NoDay THEN 0 ELSE store.marker + 1 IN
       added' = [s \in Stat |-> IF s \in LateStat THEN first ELSE added[s]]
  /\ UNCHANGED <<today, amber, mode, late, store, table, run>>

InTime(s) == store.lastWritten = NoDay \/ store.lastWritten < added[s]

\* The reload after it: from now on the runs have the new channels.  (A run that the
\* reload cuts off is a Crash before it.)
LoadChannels ==
  /\ At("idle") /\ store.since # added
  /\ store' = [store EXCEPT !.since = added]
  /\ late' = (late \/ \E s \in Stat : store.since[s] # added[s] /\ ~InTime(s))
  /\ UNCHANGED <<today, amber, mode, added, table, run, budget>>

\* The options flow applies a new mode at once, whatever a run is doing.
SetMode(m) ==
  /\ Serve("set_mode") /\ m # mode
  /\ mode' = m
  /\ UNCHANGED <<today, amber, store, table, run, added, late>>

-----------------------------------------------------------------------------
(* Guard 1: last_written against the statistics table *)

\* The marker may only be ahead of last_written by days recorded as skipped.
MarkerProblem ==
  LET m == store.marker
      w == store.lastWritten IN
  \/ (w # NoDay /\ m < w)
  \/ w = NoDay /\ \E d \in Day : d <= m /\ store.status[d] = "imported"
  \/ w # NoDay /\ \E d \in (w + 1)..m : store.status[d] \notin Skipped

ExpectedEndAlways(s) == store.lastWritten   \* mutant: late channels forgotten
ExpectedEnd(s) == IF Active(s, store.lastWritten) THEN store.lastWritten ELSE NoDay

NextDay == IF store.marker = NoDay THEN store.pending ELSE store.marker + 1

StatisticsAgree == \A s \in Stat : Latest(s) = ExpectedEnd(s)

\* The one disagreement guard 1 accepts: the pending day was written in part.
PendingExplains ==
  /\ store.pending # NoDay /\ store.pending = NextDay
  /\ \A s \in Stat : \/ Latest(s) = ExpectedEnd(s)
                     \/ Latest(s) = store.pending /\ Active(s, store.pending)

GuardStops == MarkerProblem \/ ~(StatisticsAgree \/ PendingExplains)

GuardRefuses ==
  /\ At("guard") /\ (run.job = "import_day" \/ UsageActive) /\ GuardStops
  /\ Stop
  /\ UNCHANGED <<environment, store, table, budget>>

\* Agreement forgets a pending day; otherwise the pending day is to be rewritten.
GuardAccepts ==
  /\ At("guard") /\ (run.job = "import_day" \/ UsageActive) /\ ~GuardStops
  /\ store' = IF StatisticsAgree THEN ClearPending(store) ELSE store
  /\ run' = [run EXCEPT !.pc = IF run.job = "import_day" THEN "plan" ELSE "resume",
                        !.recovery = IF StatisticsAgree THEN NoDay ELSE store.pending]
  /\ UNCHANGED <<environment, table, budget>>

GuardSkipped ==
  /\ At("guard") /\ run.job # "import_day" /\ ~UsageActive
  /\ Goto("resume")
  /\ UNCHANGED <<environment, store, table, budget>>

-----------------------------------------------------------------------------
(* An interrupted range rewrite is resumed before anything else is written *)

ResumeTail ==
  /\ At("resume")
  /\ IF UsageActive /\ store.tail # NoTail
     THEN run' = [run EXCEPT !.pc = "rewrite", !.after = "retention"]
     ELSE Goto("retention")
  /\ UNCHANGED <<environment, store, table, budget>>

-----------------------------------------------------------------------------
(* The retention boundary, as the run sees it *)

Fallback == Later(1, today - Retention)   \* today - RETENTION_FALLBACK_DAYS

\* What discovery and the daily check find: the first day Amber answers for.
MeasuredBoundary ==
  LET held == {d \in Day : d < today /\ ~Empty(Usage(d))} IN
  IF held = {} THEN Fallback ELSE MinOf(held)

BoundaryKnown == store.boundary # NoDay /\ store.verified = today

GoOn == run' = [run EXCEPT !.pc = "revisions", !.yesterday = Yesterday]

RetentionDone ==
  /\ At("retention")
  /\ store' = IF BoundaryKnown THEN store ELSE SetRetention(store, MeasuredBoundary, today)
  /\ GoOn
  /\ UNCHANGED <<environment, table, budget>>

\* A failed probe keeps the stored boundary (a new site takes the fallback); only a
\* rejected key or a spent budget ends the run.
RetentionFails ==
  /\ At("retention") /\ ~BoundaryKnown /\ budget.fail > 0
  /\ budget' = [budget EXCEPT !.fail = @ - 1]
  /\ store' = IF store.boundary = NoDay THEN SetRetention(store, Fallback, today) ELSE store
  /\ GoOn \/ Stop
  /\ UNCHANGED <<environment, table>>

-----------------------------------------------------------------------------
(* Fetching a window of days into the run's cache *)

WindowFrom(first, last) == first..Earlier(first + Window - 1, last)

Fetched(window) == [d \in Day |-> IF d \in window THEN Usage(d) ELSE run.cache[d]]

Uncached(d) == run.cache[d] = Unfetched

\* Does any cached day after day hold records?
LaterHasData(day) ==
  \E d \in Day : d > day /\ ~Uncached(d) /\ ~Empty(run.cache[d])

-----------------------------------------------------------------------------
(* The daily revision check *)

Expired(st) ==
  {d \in RevisionDaysOf(st) : st.revisions[d].since + RevisionDays < run.yesterday + 1}

\* Expired entries leave the set; the others are fetched, window by window.
FetchRevisions ==
  /\ At("revisions") /\ store.checked # run.yesterday + 1
  /\ LET st == DropRevisions(store, Expired(store))
         wanted == {d \in RevisionDaysOf(st) : Uncached(d)} IN
     /\ store' = st
     /\ IF wanted = {} THEN Goto("compare") /\ UNCHANGED budget
        ELSE LET first == MinOf(wanted) IN
             \/ /\ run' = [run EXCEPT !.cache =
                              Fetched(WindowFrom(first, Later(first, run.yesterday)))]
                /\ UNCHANGED budget
             \/ RequestFails
  /\ UNCHANGED <<environment, table>>

RevisionsAlreadyChecked ==
  /\ At("revisions") /\ store.checked = run.yesterday + 1
  /\ Goto("work")
  /\ UNCHANGED <<environment, store, table, budget>>

\* mutant: looks at the quality only
ChangedByQuality(d) == ~Empty(run.cache[d]) /\ run.cache[d].quality # "estimated"
Changed(d) == ~Empty(run.cache[d]) /\ run.cache[d].amount # store.revisions[d].hash
FinalUnchanged(d) == ~Empty(run.cache[d]) /\ ~Changed(d)   \* mutant: estimates included
Final(d)   == ~Empty(run.cache[d]) /\ ~Changed(d) /\ run.cache[d].quality # "estimated"

BeginRewriteOneDay(st, first, last, requestedEnd, onEmpty) ==   \* mutant: no tail
  SetTail(st, [next |-> first, to |-> first, requestedEnd |-> requestedEnd,
               onEmpty |-> onEmpty])

\* A stored rewrite lends its range to the new one: only its next day changes.
BeginRewrite(st, first, last, requestedEnd, onEmpty) ==
  IF st.tail # NoTail THEN [st EXCEPT !.tail.next = first]
  ELSE SetTail(st, [next |-> first, to |-> last, requestedEnd |-> requestedEnd,
                    onEmpty |-> onEmpty])

\* Unchanged final days leave the set; a changed day starts a rewrite of the tail.
CompareRevisions ==
  /\ At("compare")
  /\ LET final == {d \in RevisionDaysOf(store) : Final(d)}
         changed == {d \in RevisionDaysOf(store) : Changed(d)}
         st == DropRevisions(store, final)
         first == MinOf(changed) IN
     IF changed # {} /\ UsageActive /\ first <= store.lastWritten
     THEN /\ store' = BeginRewrite(st, first, st.lastWritten, st.lastWritten, "error")
          /\ run' = [run EXCEPT !.pc = "rewrite", !.after = "checked"]
     ELSE /\ store' = st
          /\ Goto("checked")
  /\ UNCHANGED <<environment, table, budget>>

RevisionsChecked ==
  /\ At("checked")
  /\ store' = SetChecked(store, run.yesterday + 1)
  /\ Goto("work")
  /\ UNCHANGED <<environment, table, budget>>

-----------------------------------------------------------------------------
(* The walk from marker + 1 to yesterday *)

\* Days older than retention are skipped, except a day being recovered.
WalkStart ==
  /\ At("work") /\ run.job = "run" /\ mode = "full"
  /\ LET b == store.boundary
         start == IF run.recovery # NoDay THEN run.recovery
                  ELSE IF store.marker # NoDay THEN store.marker + 1 ELSE b
         last == Earlier(b - 1, Yesterday)
         from == IF start < b THEN last + 1 ELSE start IN
     IF start < b /\ run.recovery # NoDay
     THEN Stop /\ UNCHANGED store                       \* recovery_unavailable
     ELSE /\ store' = IF start < b THEN MarkSkipped(store, start, last, "unavailable")
                      ELSE store
          /\ run' = [run EXCEPT !.pc = "walk", !.yesterday = Yesterday, !.day = from,
                                !.windowEnd = from - 1, !.leading = NoDay]
  /\ UNCHANGED <<environment, table, budget>>

NothingToWalk ==
  /\ At("work") /\ run.job = "run" /\ mode # "full"
  /\ Stop
  /\ UNCHANGED <<environment, store, table, budget>>

WalkAt(d) == At("walk") /\ d = run.day /\ d <= run.yesterday

WalkFetch ==
  /\ WalkAt(run.day) /\ run.day > run.windowEnd
  /\ LET window == WindowFrom(run.day, run.yesterday) IN
     \/ /\ run' = [run EXCEPT !.cache = Fetched(window), !.windowEnd = MaxOf(window)]
        /\ UNCHANGED budget
     \/ RequestFails
  /\ UNCHANGED <<environment, store, table>>

WalkDay(d) == WalkAt(d) /\ d <= run.windowEnd

\* Empty days before the first day with data need no patience.
WalkLeading ==
  \E d \in Day :
    /\ WalkDay(d) /\ Empty(run.cache[d]) /\ store.lastWritten = NoDay
    /\ run' = [run EXCEPT !.leading = IF @ = NoDay THEN d ELSE @, !.day = d + 1]
    /\ UNCHANGED <<environment, store, table, budget>>

WalkSkipsLeading ==
  \E d \in Day :
    /\ WalkDay(d) /\ ~Empty(run.cache[d]) /\ run.leading # NoDay
    /\ store' = SetRetention(MarkSkipped(store, run.leading, d - 1, "unavailable"), d, today)
    /\ run' = [run EXCEPT !.leading = NoDay]
    /\ UNCHANGED <<environment, table, budget>>

PatientEnoughEarly(st, d) == Cardinality(st.emptySeen[d]) + 1 >= Patience   \* mutant
PatientEnough(st, d) == Cardinality(st.emptySeen[d]) >= Patience

\* Guard 2: an empty day waits, or is a gap once later days have data.
WalkPatience ==
  \E d \in Day :
    /\ WalkDay(d) /\ Empty(run.cache[d]) /\ store.lastWritten # NoDay
    /\ LET st == NoteEmpty(store, d, today)
           inWindow == \E e \in (d + 1)..run.windowEnd : ~Empty(run.cache[e])
           probes == ~inWindow /\ run.windowEnd < run.yesterday
           probed == \E e \in (run.windowEnd + 1)..Earlier(run.windowEnd + Window, run.yesterday) :
                       ~Empty(Usage(e)) IN
       \/ /\ PatientEnough(st, d) /\ (inWindow \/ (probes /\ probed))
          /\ store' = MarkSkipped(st, d, d, "gap")
          /\ run' = [run EXCEPT !.day = d + 1]
          /\ UNCHANGED budget
       \/ /\ ~PatientEnough(st, d) \/ ~(inWindow \/ (probes /\ probed))
          /\ store' = st
          /\ Stop
          /\ UNCHANGED budget
       \/ /\ PatientEnough(st, d) /\ probes
          /\ store' = st
          /\ RequestFails
    /\ UNCHANGED <<environment, table>>

WalkDone ==
  /\ At("walk") /\ run.day > run.yesterday
  /\ Stop
  /\ UNCHANGED <<environment, store, table, budget>>

-----------------------------------------------------------------------------
(* Writing one day through the shared path *)

\* The last day with statistics before day.
PreviousDay(day) ==
  IF store.lastWritten # NoDay /\ store.lastWritten < day THEN store.lastWritten
  ELSE LastImportedBefore(store, day)

BaselineYesterday(s, day) ==   \* mutant: a gap restarts the sum
  IF day > 1 THEN rows[s][day - 1].sum ELSE 0

Baseline(s, day) ==
  LET prev == PreviousDay(day) IN
  IF prev # NoDay THEN rows[s][prev].sum
  ELSE IF day > 1 THEN rows[s][day - 1].sum ELSE 0

\* A channel that existed on the previous day has no row at its end.
PartialHistory(day) ==
  LET prev == PreviousDay(day) IN
  prev # NoDay /\ \E s \in Stat : Active(s, day) /\ Active(s, prev) /\ ~HasRow(s, prev)

Baselines(day) == [s \in Stat |-> IF Active(s, day) THEN Baseline(s, day) ELSE 0]

InsideHistory(day) == store.lastWritten # NoDay /\ day <= store.lastWritten

BeginWriteUnannounced(day, caller) ==   \* mutant: no pending day
  IF PartialHistory(day) THEN Stop /\ UNCHANGED store
  ELSE /\ UNCHANGED store
       /\ run' = [run EXCEPT !.pc = "write", !.day = day, !.caller = caller,
                             !.base = Baselines(day)]

BeginWrite(day, caller) ==
  IF PartialHistory(day) THEN Stop /\ UNCHANGED store
  ELSE /\ store' = IF InsideHistory(day) THEN store ELSE SetPending(store, day)
       /\ run' = [run EXCEPT !.pc = "write", !.day = day, !.caller = caller,
                             !.base = Baselines(day)]

WalkWrite ==
  \E d \in Day :
    /\ WalkDay(d) /\ ~Empty(run.cache[d]) /\ run.leading = NoDay
    /\ BeginWrite(d, "walk")
    /\ UNCHANGED <<environment, table, budget>>

Records == run.cache[run.day]

NewRowsFromZero ==   \* mutant: the baseline is not added
  [s \in Stat |-> IF Active(s, run.day)
                  THEN [state |-> Records.amount, sum |-> Records.amount] ELSE NoRow]

NewRows ==
  [s \in Stat |-> IF Active(s, run.day)
                  THEN [state |-> Records.amount, sum |-> run.base[s] + Records.amount]
                  ELSE NoRow]

ActiveStats(day) == {s \in Stat : Active(s, day)}

\* Guard 3 fails: nothing is written.
WriteRefused ==
  /\ At("write") /\ ~Complete(Records)
  /\ LET forgets == run.caller \in {"append", "reimport"} \/ ~InsideHistory(run.day) IN
       store' = MarkDay(IF forgets THEN ClearPending(store) ELSE store, run.day, "failed")
  /\ Stop
  /\ UNCHANGED <<environment, table, budget>>

WriteRowsEveryChannel ==   \* mutant: channels are not limited to those of the day
  /\ At("write") /\ Complete(Records)
  /\ queue' = Append(queue, [day |-> run.day, todo |-> Stat,
       rows |-> [s \in Stat |-> [state |-> Records.amount,
                                sum |-> run.base[s] + Records.amount]]])
  /\ Goto("verify")
  /\ UNCHANGED <<environment, store, rows, budget>>

\* Every statistic's day goes to the recorder, each as an import of its own.
WriteRows ==
  /\ At("write") /\ Complete(Records)
  /\ queue' = IF ActiveStats(run.day) = {} THEN queue
              ELSE Append(queue, [day |-> run.day, rows |-> NewRows,
                                  todo |-> ActiveStats(run.day)])
  /\ Goto("verify")
  /\ UNCHANGED <<environment, store, rows, budget>>

ReadsBackSome == \E s \in ActiveStats(run.day) : rows[s][run.day] = NewRows[s]   \* mutant

ReadsBack ==
  \A s \in ActiveStats(run.day) :
    /\ rows[s][run.day] = NewRows[s]
    /\ ~InsideHistory(run.day) \/ run.caller = "reimport" => Latest(s) = run.day

VerifyPasses ==
  /\ At("verify") /\ ReadsBack
  /\ store' = MarkImported(store, run.day)
  /\ Goto("track")
  /\ UNCHANGED <<environment, table, budget>>

\* VERIFY_TIMEOUT: the rows do not read back (in time).  The pending day stays.
VerifyTimesOut ==
  /\ At("verify") /\ ~ReadsBack
  /\ \/ queue = <<>> /\ UNCHANGED budget
     \/ /\ queue # <<>> /\ budget.slow > 0
        /\ budget' = [budget EXCEPT !.slow = @ - 1]
  /\ store' = MarkDay(store, run.day, "failed")
  /\ Stop
  /\ UNCHANGED <<environment, table>>

\* A save of its own, after the import is recorded.
TrackRevision ==
  /\ At("track")
  /\ store' = IF Records.quality = "estimated"
              THEN SetRevision(store, run.day, today, Records.amount)
              ELSE DropRevisions(store, {run.day})
  /\ Goto("advance")
  /\ UNCHANGED <<environment, table, budget>>

Advance ==
  /\ At("advance")
  /\ \/ /\ run.caller = "walk"
        /\ run' = [run EXCEPT !.pc = "walk", !.day = @ + 1]
        /\ UNCHANGED store
     \/ /\ run.caller = "rewrite"
        /\ Goto("rewrite")
        /\ store' = [store EXCEPT !.tail.next = run.day + 1]
     \/ /\ run.caller \in {"append", "reimport"}
        /\ Stop
        /\ UNCHANGED store
  /\ UNCHANGED <<environment, table, budget>>

-----------------------------------------------------------------------------
(* The range rewrite: revisions, backfills and their resumption *)

Requested(d) == d <= store.tail.requestedEnd

RewriteSkips(d) ==
  \/ store.status[d] \in Skipped /\ ~(store.status[d] = "not_requested" /\ Requested(d))
  \/ store.status[d] # "imported" /\ ~Requested(d)

RewriteAt(d) == At("rewrite") /\ d = store.tail.next /\ d <= store.tail.to

RewriteSkip ==
  \E d \in Day :
    /\ RewriteAt(d) /\ RewriteSkips(d)
    /\ store' = [store EXCEPT !.tail.next = d + 1]
    /\ UNCHANGED <<environment, table, run, budget>>

RewriteFetch ==
  \E d \in Day :
    /\ RewriteAt(d) /\ ~RewriteSkips(d) /\ Uncached(d)
    /\ \/ /\ run' = [run EXCEPT !.cache = Fetched(WindowFrom(d, store.tail.to))]
          /\ UNCHANGED budget
       \/ RequestFails
    /\ UNCHANGED <<environment, store, table>>

RewriteDay(d) == RewriteAt(d) /\ ~RewriteSkips(d) /\ ~Uncached(d)

\* An imported day that Amber no longer answers for stops the rewrite.
RewriteUnavailable ==
  \E d \in Day :
    /\ RewriteDay(d) /\ Empty(run.cache[d])
    /\ store.status[d] = "imported" \/ store.tail.onEmpty = "error"
    /\ Stop
    /\ UNCHANGED <<environment, store, table, budget>>

\* An empty requested day follows the patience rule.
RewritePatience ==
  \E d \in Day :
    /\ RewriteDay(d) /\ Empty(run.cache[d])
    /\ store.status[d] # "imported" /\ store.tail.onEmpty = "patience"
    /\ LET st == NoteEmpty(store, d, today) IN
       IF PatientEnough(st, d) /\ LaterHasData(d)
       THEN /\ store' = [MarkSkipped(st, d, d, "gap") EXCEPT !.tail.next = d + 1]
            /\ UNCHANGED run
       ELSE store' = st /\ Stop
    /\ UNCHANGED <<environment, table, budget>>

RewriteWrite ==
  \E d \in Day :
    /\ RewriteDay(d) /\ ~Empty(run.cache[d])
    /\ BeginWrite(d, "rewrite")
    /\ UNCHANGED <<environment, table, budget>>

RewriteDone ==
  /\ At("rewrite") /\ store.tail.next > store.tail.to
  /\ store' = SetTail(store, NoTail)
  /\ IF run.after = "end" THEN Stop ELSE Goto(run.after)
  /\ UNCHANGED <<environment, table, budget>>

-----------------------------------------------------------------------------
(* Backfill *)

BackfillEnd == Earlier(run.upto, run.yesterday)
BackfillFirst == Later(run.from, store.boundary)

\* Days older than the boundary are skipped; in Recovery-only mode so are the days
\* between the history and the range.
BackfillSkips ==
  /\ At("work") /\ run.job = "backfill"
  /\ LET end == Earlier(run.upto, Yesterday)
         oldLast == Earlier(end, store.boundary - 1)
         st == IF run.from <= oldLast THEN MarkSkipped(store, run.from, oldLast, "unavailable")
               ELSE store
         first == BackfillFirst
         forward == st.lastWritten # NoDay /\ first > st.lastWritten + 1
         gapFirst == IF st.marker # NoDay THEN st.marker + 1 ELSE first IN
     IF run.from > end THEN Stop /\ UNCHANGED store              \* backfill_range
     ELSE IF first > end \/ (forward /\ mode = "full")           \* backfill_forward
     THEN store' = st /\ Stop
     ELSE /\ store' = IF forward /\ gapFirst < first
                      THEN MarkSkipped(st, gapFirst, first - 1, "not_requested") ELSE st
          /\ run' = [run EXCEPT !.pc = "backfill", !.yesterday = Yesterday]
  /\ UNCHANGED <<environment, table, budget>>

BackfillBeginsRangeOnly ==   \* mutant: the days after the range keep their sums
  /\ At("backfill")
  /\ store' = BeginRewrite(store, BackfillFirst, BackfillEnd, BackfillEnd, "patience")
  /\ run' = [run EXCEPT !.pc = "rewrite", !.after = "end"]
  /\ UNCHANGED <<environment, table, budget>>

BackfillBegins ==
  /\ At("backfill")
  /\ store' = BeginRewrite(store, BackfillFirst, Later(BackfillEnd, store.lastWritten),
                           BackfillEnd, "patience")
  /\ run' = [run EXCEPT !.pc = "rewrite", !.after = "end"]
  /\ UNCHANGED <<environment, table, budget>>

-----------------------------------------------------------------------------
(* import_day: the day after the marker, or the latest day again *)

\* async_plan_day: every statistic ends at day and continues from the row before it.
Reimportable(day) ==
  \A s \in ActiveStats(day) :
    /\ Latest(s) = day
    /\ day > 1 /\ HasRow(s, day - 1) =>
         rows[s][day].sum - rows[s][day].state = rows[s][day - 1].sum

ReimportBase(day) ==
  [s \in Stat |-> IF Active(s, day) THEN rows[s][day].sum - rows[s][day].state ELSE 0]

PlanAppendAnyDay ==   \* mutant: not only the day after the marker
  /\ At("plan")
  /\ IF PartialHistory(run.from) THEN Stop
     ELSE run' = [run EXCEPT !.pc = "fetch_day", !.day = run.from, !.caller = "append",
                             !.base = Baselines(run.from)]
  /\ UNCHANGED <<environment, store, table, budget>>

PlanAppend ==
  /\ At("plan")
  /\ \/ run.recovery # NoDay /\ run.from = run.recovery
     \/ run.recovery = NoDay /\ (store.marker = NoDay \/ run.from = store.marker + 1)
  /\ IF PartialHistory(run.from) THEN Stop
     ELSE run' = [run EXCEPT !.pc = "fetch_day", !.day = run.from, !.caller = "append",
                             !.base = Baselines(run.from)]
  /\ UNCHANGED <<environment, store, table, budget>>

PlanReimport ==
  /\ At("plan") /\ run.recovery = NoDay
  /\ run.from = store.lastWritten /\ store.marker = store.lastWritten
  /\ IF ~Reimportable(run.from) THEN Stop
     ELSE run' = [run EXCEPT !.pc = "fetch_day", !.day = run.from, !.caller = "reimport",
                             !.base = ReimportBase(run.from)]
  /\ UNCHANGED <<environment, store, table, budget>>

\* recovery_pending or not_next_day.
PlanRefused ==
  /\ At("plan")
  /\ IF run.recovery # NoDay THEN run.from # run.recovery
     ELSE /\ store.marker # NoDay /\ run.from # store.marker + 1
          /\ run.from # store.lastWritten \/ store.marker # store.lastWritten
  /\ Stop
  /\ UNCHANGED <<environment, store, table, budget>>

FetchDay ==
  /\ At("fetch_day")
  /\ \/ /\ run' = [run EXCEPT !.pc = "write", !.cache[run.day] = Usage(run.day)]
        /\ store' = IF run.caller = "append" THEN SetPending(store, run.day) ELSE store
        /\ UNCHANGED budget
     \/ RequestFails /\ UNCHANGED store
  /\ UNCHANGED <<environment, table>>

-----------------------------------------------------------------------------
Walk == WalkStart \/ WalkFetch \/ WalkLeading \/ WalkSkipsLeading \/ WalkPatience
        \/ WalkWrite \/ WalkDone \/ NothingToWalk
Rewrite == ResumeTail \/ RewriteSkip \/ RewriteFetch \/ RewriteUnavailable
           \/ RewritePatience \/ RewriteWrite \/ RewriteDone
Revise == FetchRevisions \/ RevisionsAlreadyChecked \/ CompareRevisions \/ RevisionsChecked
Write == WriteRefused \/ WriteRows \/ VerifyPasses \/ VerifyTimesOut \/ TrackRevision \/ Advance
Guard == GuardRefuses \/ GuardAccepts \/ GuardSkipped
ImportDay == PlanAppend \/ PlanReimport \/ PlanRefused \/ FetchDay
Backfill == BackfillSkips \/ BackfillBegins
RetentionStep == RetentionDone \/ RetentionFails

\* Steps of the active run, in the order async_run takes them.
RunStep == Guard \/ RetentionStep \/ Revise \/ Walk \/ Rewrite \/ Write \/ Backfill \/ ImportDay

Environment ==
  \/ Tick
  \/ \E d \in Day : Publish(d) \/ UnexpectedChannel(d)
  \/ \E s \in Stat : Commit(s)
  \/ Crash

User ==
  \/ \E from, upto \in Day : StartBackfill(from, upto)
  \/ \E day \in Day : StartImportDay(day)
  \/ AddChannels \/ LoadChannels
  \/ \E m \in Modes : SetMode(m)

Next == ScheduledRun \/ RunNow \/ RunStep \/ Environment \/ User

Spec == Init /\ [][Next]_vars

-----------------------------------------------------------------------------
(* Fairness.  The recorder and the steps of a run go on; the schedule attempts a run   *)
(* several times a day until the site is caught up, and an interrupted run is resumed   *)
(* when Home Assistant is back, so no day ends before a run that is due has ended;      *)
(* Amber completes a day within two days.                                               *)

LongDay ==
  /\ CaughtUp \/ (At("idle") /\ store.checked = today /\ store.pending = NoDay)
  /\ \A d \in Day \ Gaps : d < today - 1 => Complete(amber[d])

NextDayComes == Tick /\ LongDay

Fairness ==
  /\ WF_vars(ScheduledRun) /\ WF_vars(RunStep) /\ SF_vars(NextDayComes)
  /\ \A s \in Stat : WF_vars(Commit(s))
  /\ \A d \in Day : WF_vars(Publish(d))

FairSpec == Init /\ [][Next /\ (today' # today => LongDay)]_vars /\ Fairness
=============================================================================

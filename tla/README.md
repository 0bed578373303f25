# Verification of the Amber Energy Dashboard integration

TLA+ models of `custom_components/amber_energy_dashboard`, the TLC instances that check them
and TLAPS proofs about them. The integration imports a site's electricity usage from Amber's
API into Home Assistant's long-term statistics, one NEM day (00:00 to 24:00 AEST) at a time.
Its hard part is not arithmetic but bookkeeping: cumulative sums in a table it can only append
to or overwrite through an asynchronous recorder, progress in a Store of its own, and runs that
may stop anywhere.

`PROJECT.json` lists the components, the runs, the lines each definition models (`map`), a
mutant for every checked property, the findings, the hazards and the theorems. File names below
are relative to `custom_components/amber_energy_dashboard/`.

## Inventory

| Component | State | Operations | Hard because | Correct if |
|---|---|---|---|---|
| Site Store, `storage.py` `AmberStore` | marker, last_written, pending, day records, empty dates, revision set, tail rewrite, retention, last run | one setter per change, each an atomic save | several saves make one logical step; records capped at 400 days | days are resolved once, in order |
| Import run, `manager.py` `async_run` | the run's cache and locals; everything durable is in the Store | guard 1, resume rewrite, retention, revision check, walk or backfill, export days, chains, derived | stops anywhere: API error, budget, crash, restart | guard 1 accepts the next run; sums cumulative; nothing stale is forgotten; catches up |
| Per-day importer, `importer.py` | none | guard 3, hourly rows, queue the write, read back, 60 s timeout | the recorder commits one statistic at a time, later | all statistics of a day from one set of records |
| Schedule, `schedule.py` | next attempt, evening retries | attempt times, final attempt | local time, daylight saving | an attempt every day; one final attempt |
| Retention boundary, `manager.py` 1095-1375 | boundary date, method, flags | discover, verify daily, step, bisect, self-heal | at most 8 calls, gaps, failures | never moves forward unmeasured |
| Secondary chains, `manager.py` 1632-2088, `chains.py`, `solar.py` | per chain: marker, pending, rewrite, days | own guard, adopt, walk, rewrite, one-off retry | share empty dates, revision set, cache and retention with the usage chain | as the usage chain; no damage to it |
| Derived statistics, `derived.py` | rows of a statistic | clear, rewrite from the first difference | bases change under rewrites | sum of the bases plus charges |
| Export aggregates, `manager.py` 1527-1619, `export.py` | a record per day | measure missing or revised days | outside runs too, under the lock | matches the usage it was measured from |
| API client, `api.py` | RunBudget: calls, remaining, window end | check, record, carry over | shared by the account's sites | never below the reserve, never stuck |
| Setup, services, reload, `__init__.py` | runtime, one lock per account | services, startup run, update listener, unload | a reload makes a new lock and Store copy | one writer |
| Migration of the YAML kit, `migration.py`, `energy.py` | record with steps, progress, changes | copy, re-base, switch Energy, turn automations off, undo, delete | resumed by the user, imports in between | resumed steps once; undo restores |
| Sites and entry migration, `sites.py` | entry, sub-entries, Store location | move, retried at start | crash half-way | found again, nothing twice |
| Meters, appliances, conversion, `meters.py`, `repairs.py` | sub-entries, chain keys | convert, rename chains | under the lock, then reload | state follows the key |
| Flows, `config_flow.py` | options | add channels, mode, options | applied during runs | see the run |
| Today so far, `today.py` | today's energy and cost | 5-minute tick, save, restore | meter resets, gaps | display only |
| Calibration, bill, sensors, buttons, diagnostics, statistics IDs, sources | none or caches | read-only computations | - | - |

The state of each component is durable (a Store, the statistics table, config entries) or is in
the memory of a run, a service call or a manager, which a stop loses.

Interactions. Runs, `import_day`, `probe_retention`, export measurement, derived syncs,
conversion and migration steps take the account's one `asyncio.Lock`, so at most one of them is
active per loaded entry. Outside the lock are: the recorder (its queue, its commits), Amber (days appear, are
completed, revised, and age out of retention), the clock, the options flow
(`async_update_settings`, `async_add_channels`), a reload, a crash.

## Modules

| Module | Contents |
|---|---|
| `AmberStore` | The Store record and its setters as operators; one application is one save. |
| `UsageImport` | The usage import of one site: environment, starts, and one action per stage of a run between two visible points (a save, an answer, a commit). |
| `UsageImportProperties` | Its invariants, action property and liveness, and the mapping to `ImportLedger`. |
| `ImportLedger` | Abstract specification: what the history of days promises. |
| `MCUsageImport` | The instance for TLC (symmetry of the statistics). |
| `AmberStoreProofs`, `UsageImportProofs`, `UsageHistoryProofs`, `ImportLedgerProofs`, `RetentionProofs`, `SecondaryChainProofs`, `MigrationProofs`, `AccountProofs` | Theorems and proofs. |
| `CallBudget` | `RunBudget` and its use by the client, as operators: count, reserve, the window's end, what the next run inherits. |
| `Retention`, `RetentionProperties`, `MCRetention` | The retention boundary: discovery, daily check, stepping, bracketing, bisection and their failures, one request a step, over `CallBudget`. |
| `SecondaryChain`, `SecondaryChainProperties`, `MCSecondaryChain` | One secondary chain beside an abstract usage chain, over `AmberStore`. |
| `LegacyHistory` | What the migration computes from the kit's statistics: implausible rows, copied rows, net, parity. |
| `Derived` | The rows of the cost including fixed charges and the sync by difference. |
| `Migration`, `MigrationProperties`, `MCMigration` | The migration from the YAML kit among runs, kit days, stops and undo, over `LegacyHistory` and `Derived`. |
| `AttemptTimes` | When attempts are due and which is the final one. |
| `Account`, `AccountProperties`, `MCAccount` | An account's entry with one site: upgrade, setup, timer, queue of runs, reload, conversion, stops, over `AttemptTimes`. |

### How `UsageImport` corresponds to the code

- `store` is the Store on disk. Every setter saves at once, so the copy in memory and on disk
  are the same at every step; a crash keeps it. Two setters in a row are two steps
  (`VerifyPasses`, then `TrackRevision`) wherever something can happen in between that matters.
  Three pairs are merged because what lies between them makes no difference to a later run's
  reads: `async_mark_skipped` with the boundary move of `_async_skip_leading`, noting an empty day
  with the skip it leads to, and clearing the pending day with marking the day failed.
- `rows` is the statistics table, `queue` the recorder's queue in memory. `WriteRows` queues a
  day, `Commit(s)` imports one statistic of the head of the queue, `Crash` drops the queue.
- `run` is what a run holds in memory: stage (`pc`), fetched days, baselines, its loop
  variables. `Stop` forgets it, for every way a run can end: done, waiting, refused, failed.
- `amber` is what Amber holds; `Usage(d)` is its answer, empty beyond retention.
- A day's usage is a quality and one amount; one amount stands for one fingerprint
  (`revision_fingerprint` leaves quality out as well). The 24 rows of a statistic are one row
  `[state, sum]`. Guard 3 passes or fails as a whole (`partial`, which also stands for an
  unexpected channel).
- A run reads the mode again at each stage; `SetMode` changes it at any time.
- `RunNow` is the service and also the run at startup: first setup, or an interrupted run.
- Dates: yesterday is computed when a stage computes it, so midnight may pass during a run.

Abstractions a reader should know:

- Retention is found in one step and exactly (`MeasuredBoundary`), or not at all (`Fallback`, or
  the stored boundary kept). The fallback of 89 days is the instance's `Retention`. The search and
  the site's start date (`active_from`) are in module `Retention`.
- `AddChannels` takes no lock (`manager.py:2196`), so it happens at any stage of a run, which goes on with the channels it has:
  `added` is the channels' first days as stored, `store.since` the ones that runs go by. The reload that follows
  (`_async_entry_updated`) is `LoadChannels`, at rest. A reload that cuts a run off is a `Crash` before it; the rest of
  reloading is in `Account`. The history variable `late` remembers that a channel was loaded after a day of its own was recorded.
- Secondary chains, export days and derived statistics run after the usage steps of a run and
  are left out here; `SecondaryChain` has a chain's marks in the shared empty dates and revision set.
- Records beyond 400 days are not dropped.
- A negative amount (a feed-in cost can be a charge) is not distinguished from a positive one;
  an amount is a natural number different from 0, so "no row" and "a row" never look the same.

### `CallBudget` and `Retention`

- One rate-limit counter stands for both of Amber's (they are handled alike). Amber's own count is
  `account`; the client knows only what responses told it (`client`), and inherits it from run to run.
  The end of a window is "unknown", "open" or "over" instead of a time.
- A search is a question (`run.search.ask`) about a day; `AfterYes` and `AfterNo` give what the code
  does next. The numbers 89, 30, 15 and 8 are those of `const.py`.
- Every request can be answered, lost, limited (429), rejected (401) or refused by the budget or the
  cap. A run may do other requests afterwards (`"work"`), which is what empties the budget.
- `probe_retention` is a discovery whose record is put back on failure.

### `SecondaryChain`

- The chain's record is `ChainState`; the usage chain of the same site is abstract: it resolves its
  days in order, one a step, as the ledger promises. They share the run's fetched days, the revision
  set, the day records and the empty dates of the Store, and this sharing is the module's subject.
- One row `[state, sum]` a day; its write and commit are one step (the partial commits of a day are
  in `UsageImport`).
- The code loses things here: the recovery of an interrupted day, and the knowledge that a day was revised. No guard
  keeps the steps away on which it does; the history variable `lapses` (set by `Tick`, `Publish` and `Crash`, read by properties only)
  remembers that one was taken.
- A run goes through the stages of `_async_chain_steps`: guard, resumed rewrite, adoption of
  rows found, one-off retry, walk. The solar flows, when the role needs them, can be missing for a day.

### `LegacyHistory`, `Derived` and `Migration`

- A day's hourly rows are one row with the sum at the end of the day. Amounts are whole units, above
  the code's tolerances. A total that does not exist is the empty set.
- The plan is made before the lock is taken (`Migrate`), and used after (`Begin`). Each step's work
  and the save that records it are separate actions where a stop between them differs
  (`RebaseDay`/`SaveProgress`, `SwitchEnergy`/`SaveEnergy`, `TurnOff`/`SaveAutomations`).
- The kit goes on writing a row a day until it is turned off; it may stall, miss days for good, take
  them in later at once, leave out the row of one cost series, or write corrupt rows. Its cost series need not begin
  on the same day (`CostFrom`).
- `NetRows` starts both sums at 0, as `_net_rows` does: an older row of one side is not carried to the first common day.
- A run's import of a day, or its rewrite after a revision, is one step and ends with the sync of the
  derived statistic, as `_async_run_steps` does. Derived rows: one a day; a day's hourly charges add
  up to the daily amount. The first row of all, which adds one hour's charge, adds a day's here.

### `AttemptTimes` and `Account`

- A day has `Slots` instants, numbered through from the first day. Daylight saving, the random
  offset and the distance of the local calendar from the market's are left out.
- `entry` is the config entry in memory, `saved` the one on disk: Home Assistant saves it some time
  later (`Persist`). The Stores are on disk at once.
- A run only advances markers here: a success takes usage to the last published day, a failure
  stops anywhere, a chain may stop by itself. What it does to the statistics is in the other modules.
- Chain keys are `OldKey` (a mapping's sub-entry) and `NewKey` (a side of a grid meter). No mapping is
  called like the grid meter, or `"usage"`, the name of the usage chain's marker among theirs.
- An entry of version 1 may have imported a day before the upgrade, and chains with it (`StoreOf`).

## Runs

| Run | Instance | Question |
|---|---|---|
| `usage_append` | 4 days, day 2 never published, patience 3, two statistics, a crash around the write, a failing request, an `import_day` | Does guard 1 accept every state a stop can leave? Do sums and history continue over retries and the gap? |
| `usage_revise` | 3 days, two amounts, estimated and final, revision window 1 day, retention 2, a crash in a rewrite or a write | Do interrupted tail rewrites, revisions of revisions and expiry keep sums, days and tracking right? |
| `usage_services` | 3 days, three modes, two calls of backfill, mode switch or a late channel, each also in the middle of a run | Do the user's operations keep sums and channels right? Does a run that ends by itself leave the site unlocked, but for a channel loaded late? |
| `usage_faults` | 3 days, incomplete days, an unexpected channel, two verification timeouts | Do late commits and refused days do damage? |
| `usage_live` | 4 days, a gap, a crash during a write, revisions; fair | Does the site catch up and settle on Amber's final figures? |
| `retention` | the real constants of the search around a start of data 130 to 55 days ago, or a missing day, or a site's start date; outages of 1 and 20 days; a lost request, a probe, a reload | Is the first day with usage found within 8 requests? Does a failure ever move the boundary over usage, or spend the reserve? Is a kept boundary looked for again? |
| `chain` | 4 days, day 2 a gap, a sensor with a missing day, history from day 1 or none, full and Pricing-only; two stops with a revision, or a removal with a mode switch | Do chain and usage chain, which share records, agree? Do sums and history survive whatever is lost? Does the guard lock the chain out, or a stale day go untracked, for any reason but the named lapses? |
| `migration` | 6 days, the integration from day 4, Amber's gap on day 5, compensation from day 2; two kinds of events at a time (below) | Is the joined history unbroken, is net the difference, is a corrupt row ever copied, does undo restore, can a miscounted day pass the parity check, does the derived cost follow? |
| `account` | 3 days of 7 instants, two daytime attempts, one evening retry, two mappings | Is the timer always set, is the issue right, does any marker or chain get lost in upgrade, conversion or reload, does an interrupted run run again? |
| `pending_lost`, `old_backfill`, `revision_lost` | 2 or 3 days | The findings below. |

Bounds. Three days are the fewest with a day before, at and after the one a stage
works on; gaps and windows need a fourth. `Window` is 2, so that a walk crosses windows. Two
statistics are the fewest that can disagree or be committed in part. Two amounts are the fewest
with which a revision changes something. `MaxCrash`, `MaxFail`, `MaxCall` and `MaxSlow`
bound crashes, failing requests, the user's changing calls and late commits. `CrashPoints` limits crashes to the
stages that leave something different behind: at `write` (pending saved, nothing queued), `verify` (any part
committed), `rewrite` (between two days), `track` (imported, not tracked). `track` is
in `revision_lost` only, where it is the finding. A passing run leaves out what would only show
a finding again: in `usage_append` days are final when published, in `usage_services` retention
exceeds the calendar, in `usage_revise` there is one stop and guard 1 is not asked about it.
Statistics are interchangeable, so symmetry is used in safety runs without a late channel.

`retention`: dates are numbered from day 1; `FirstDate` 300 leaves room for every bracket. `MCHeldFrom`
has starts outside, at the end of, and within the discovery bracket and the daily one. `Limit` 10
and `Reserve` 2 make a search meet the reserve. `MaxTick`, `MaxFail`, `MaxProbe`, `MaxReload` and
`Requests` (lost responses) are 1: each is enough to break what follows, and the state is Amber's and
the client's view, which one lost response already separates.

`chain`: `Budgets` gives each behaviour its events: two stops and a revision, or a removal and a switch of mode. Stops come
anywhere but at `track` (Finding 3). Four days with a gap and a missing day give every order of usage skip, chain skip and write.

`migration`: `Openings` gives a behaviour its events: a corrupt row with an undo or with a stall (also a left-out cost row); a
pause and a revision; a stop with a stall or with an undo; two undos and a change that does not read back; a revision
and a change of charges. The kit is in the Energy dashboard at first, but for a second opening with a stop and an undo. A
spike, jump or reset exceeds `EnergyCap` 5; a day counted wrongly does not, so only parity can find it. Three days are copied,
so a row after a flagged one is copied with the offset of the one before. `Partial` is how many of the five statistics
an interrupted write reached. The bounds `Resumable`, `Unrecorded`, `MayUndo` and `Passed` are described below.

`account`: `Slots` 7 leaves instants before, between and after the three attempts; three days let
an interrupted day be followed by an undisturbed one. `MayPass`: due timers fire and runs end within two
instants. `Cancels`, `Split` and `Disturbs` are described below.

Deadlock is checked in every safety run but `migration` and `account`, whose calendars end. `usage_live` has no services, so it stops when the last
day of the calendar is imported and final; it says `CHECK_DEADLOCK FALSE` for that reason.

Fairness (`FairSpec`). The steps of a run and the recorder's commits are weakly fair: nothing
blocks them. `ScheduledRun` is weakly fair: the timer is re-armed at each attempt (`_on_timer`).
A day is long compared with a run: there are several attempts a day (`schedule.py`), an interrupted run is resumed at
startup (`needs_startup_run`) and a run is bounded by its budget, so the date only
changes when the site is caught up or a run has ended on that date with nothing pending
(`LongDay`). Amber publishes (weak fairness on `Publish`) and completes a day within two days unless it is a gap. The calendar
moves on (strong fairness, because `LongDay` comes and goes).

`Account.FairSpec`: Home Assistant sets an entry up (and retries an upgrade), runs its tasks, fires its
timers and performs a scheduled reload: weak fairness on `Upgrading`, `Setup`, `Running`, and on `Unload` once a
reload is scheduled. Nothing obliges it to stop, Amber to publish, or the user to act.
`Retention.FairSpec`: the schedule starts runs (`StartRun`), a run goes on (`Step`), and Amber's
rate-limit window ends (`WindowEnds`), each weakly fair.

## Properties

- `KeepsLedger`: `UsageImport` implements `ImportLedger` without backfills. The marker only
  moves to the next day or over skipped ones, an imported day stays imported.
- `GuardNeverLocksOut`, `RestsUnlocked`: guard 1's condition holds whatever was interrupted (the second: whenever no
  run is active, until a channel is loaded after a day of its own was recorded; then the code does lock the site out,
  see "What the bounds leave out").
- `SumsContinuous`: sums are cumulative; during a range rewrite there is at most one seam, at or
  after the day the rewrite has reached.
- `StatisticsMatch`: an imported day's statistics come from one set of records.
- `StaleDayIsTracked`: an imported day whose statistics are out of date is in the revision set
  or ahead of a rewrite, until its time in the set is over.
- `NoRowBeforeStart`: a late channel has no rows before its first day.
- `GapOnlyAfterPatience`: a gap is given up on a date at least `patience_days` after the day.
- `CatchesUp`, `HistoryConverges`: liveness, see the fairness above.
- `ProbesFit`: no search needs a ninth request, so the cap of 8 never ends one.
- `ReserveKept`: the runs together leave Amber's reserve alone, although each counts afresh; each lost
  response and each reload may cost one request of it.
- `BracketedIsFirst`, `ForwardSkipsNoUsage`: a bracketed search ends at the first day with usage; the
  boundary never moves forward over a day Amber answers for.
- `KeptBoundaryIsRechecked`: a boundary kept after a failure is looked for again (liveness: the
  reserve must let requests through again).
- `ChainSumsContinuous`, `ChainKeepsHistory`: the chain's sums and history, as for the usage chain, whatever was lost.
- `ChainNeverLocksOut`, `ChainStaleIsTracked`: the chain's guard and revisions, until one of the steps in `lapses` is taken. The
  instance takes them, and without the condition TLC finds the lockout (a retry, a stop before its recovery, a
  skip over the day) and the forgotten revision in it.
- `GapsAgree`: a chain gives up a day as a gap only `patience_days` after it, and, where the usage chain has
  not given it up, only when the shared count of empty dates is complete.
- `Joined`, `NetIsDifference`, `CopiedIsPlausible`: kit and integration form one unbroken series
  in every statistic; net is cost minus compensation; no implausible energy row is copied.
- `OriginRestored`: after an undo, preferences and automations are as before the first run.
- `MiscountIsRefused`: no migration starts on a kit that counted a day wrongly within the days compared, whatever lumps, flat
  rows and gaps stand around it.
- `FixedFollows`: after every sync the cost with fixed charges is the cost plus the amount in
  force on each day, days without a row included.
- `ArmedForNextAttempt`, `BehindIsReported`: the timer never misses an attempt; after the last
  attempt of an undisturbed day the issue is there exactly when the import is behind.
- `KeptThrough`, `UpgradedWhole`: no marker or chain is lost by upgrade, move, conversion, reload
  or stop; an entry saved as upgraded needs no more repair.
- `InterruptedRunsAgain`: a run cut off is not the last word (liveness).

## Findings

1. `pending_lost`. `async_mark_imported` clears `pending` whichever day it records. A run that
   resumes after a crash during an append checks revisions before the walk recovers the pending
   day. If a revised earlier day is rewritten first, and the run stops again before the append
   is repeated, statistics exist past `last_written` with no pending day: every later run stops with
   `marker_mismatch`. `CHANGELOG.md:285` promises that "an interrupted write is recovered on the
   next run". A secondary chain is exposed to more of it, for its rewrite after a revision
   (`manager.py:961`) comes before its guard (`manager.py:1717`) in the same run, and
   `ChainState.async_mark_written` (`storage.py:576`) clears the pending day as well: one stop during an
   append and a revision of an earlier day are enough. Run `chain` reaches that lockout, and those of a second stop and of retention; `ChainNeverLocksOut` says that
   it is only after one of these (`lapses`).
2. `old_backfill`. A backfill that starts before the retention boundary marks imported days
   before the boundary as skipped. The rewrite that follows takes its first baseline from
   whatever is still recorded as imported, and the sums break at the boundary.
   `docs/DESIGN.md:377` says that every later sum is re-derived.
3. `revision_lost`. A stop between recording an estimated day as imported and putting it in the
   revision set: the day is never checked again. `README.md:185` says estimated days are
   re-checked daily.

## Proofs

Every theorem holds for every value of the constants under the named assumptions of the modules
(`MaxDayAssumption`, `UsageImportAssumption`, ...: numbers are naturals, `MaxDay`, `Window`, `Patience` and `Retention`
not zero, amounts positive, sets are subsets of what the code knows): every number of days, of crashes, revisions and calls,
every set of statistics, amounts, gaps, mappings, modes and services. Each invariant below is the part that
the property needs in order to be inductive; each says what the stages of a run, or runs after a stop, hand to each
other.

The usage import:

- `TypeCorrect` (`UsageImportProofs`): `Spec => []TypeOK`. Type correctness is not inductive:
  that no step marks, writes or skips a day outside the calendar depends on what
  the stages hand to each other. The invariant is `TypeInv`, which adds `DayAtHand` (stages that
  write a day have a day in the calendar, fetched if they use its records), `DayRequested` (a backfill or
  `import_day` has its arguments) and `BoundarySet` (after the retention stage there is a boundary). The
  proof has one lemma per stage (`GuardTypes`, `WalkTypes`, `RewriteTypes`, ...), on the lemmas
  of `AmberStoreProofs` about every setter.
- `GapsWaitForPatience`: `Spec => GapOnlyAfterPatience`. The count of empty dates is the
  cardinality of a set of dates, all of them after the day and none in the future; `Patience`
  of them need as many days (`PatienceTakesDays`, by the cardinality of an interval). The
  invariant `PastInv` says so of the Store (`StorePast`) and, because the dates come from what a run
  holds, of Amber and the run (`PublishedPast`, `RunPast`).
- `StoreImplementsLedger` (`UsageHistoryProofs`): `Spec => KeepsLedger`, the refinement of `ImportLedger`, if
  `"backfill" \notin Services`. `HistoryInv` adds to `PastInv` that the Store is in order (no day after the
  marker is resolved, the resolved ones have no hole, the pending day follows), that the boundary is not in the future, and
  that what a run is about to save follows the marker (`RunInOrder`: the day it recovers, walks,
  or skips). Each save is then a step of the ledger or none (`Extends`). A backfill resolves days before
  the first one, marks them "not requested" and re-marks others (Finding 2): it does not implement the ledger, and
  the runs that check `KeepsLedger` have none either.
- `StoreHistoryHasNoHole`: under the same hypothesis, `HistoryHasNoHole` of `ImportLedgerProofs` instantiated with the
  Store, so that the days the Store has resolved are one unbroken range up to the marker.
- `LateChannelsStayEmpty`: `Spec => []NoRowBeforeStart`, with every service. `LateInv` extends the property to the
  recorder's queue (`RowsAfterStart`: an import queued before a channel was added is committed after), and says that a channel is
  stored before it is loaded (`AddedFirst`).
- `HistoryHasNoHole` and `OutcomeOfADayIsFinal` (`ImportLedgerProofs`): what follows from the
  abstract specification, so whatever implements it has it as well.

What is in the statistics table (`UsageHistoryProofs`). These five hold for every calendar, set of statistics, late
channel, gap, unexpected channel, set of points where a run may be cut off and number of stops, revisions and failing requests;
each has hypotheses, and each hypothesis keeps out a behaviour that TLC shows to violate the property:

- `SumsAreContinuous`: `Spec /\ []RowsInReach => []SumsContinuous` under `Undisturbed`. The invariant, `SumsInv`, adds to
  `HistoryInv` and `LateInv` what the table holds (`TableInv`: rows up to the marker are of imported days; rows after
  `last_written` are of one day; `Seam`: the sums break at one row at most, the first of what a rewrite has left) and what the
  run and the recorder are doing to it (`RunInv`). `NewRowsKnown` follows an interrupted
  day through the stages: guard 1 finds it, the rewrite waits for it, the walk comes to it first. `QueueSteady` says that a
  batch in the queue is of the day under verification or changes nothing any more. `BaseContinues` is why the sum that is
  written is the next one. Commits are partial: each statistic is committed by itself.
- `GuardAlwaysPasses`: `Spec /\ []RowsInReach /\ []LoadedInTime => []GuardNeverLocksOut` under `Recoverable`. `GuardInv` adds that each channel
  of `last_written` has its row there (`Expected`), that rows after it are of the pending day, which is the next one
  (`NewIsPending`, `Announced`), that a row still to come is in the queue (`InHand`), and that no fetch is denied for a
  day whose rows are there (`WindowHeld`, `CompleteStays`). The idle states are
  `RestsUnlocked`, which the last theorem of this list proves with backfills.
- `StatisticsOfADayMatch`: `Spec /\ []RowsInReach /\ []LoadedInTime => []StatisticsMatch` under `Automatic`. `DaysMatch` leaves out only the day a
  rewrite is at, which may be half committed.
- `StaleDaysAreTracked`: `Spec /\ []RowsInReach /\ []LoadedInTime => []StaleDayIsTracked` under `Revising`. `DaysTracked` says of a day that is
  not ahead of the rewrite that its statistics show its fingerprint, or Amber's last word, or its time is over.
- `RestingSiteIsUnlocked`: with every service, `Spec /\ []RewriteResumed /\ []BackfillAdjoins /\ []RequestedComplete =>
  []RestsUnlocked` under `Undelayed`: not every order of services and runs, but all that these keep in. `RestInv` says what a run needs to find, and keeps: each statistic
  ends at `last_written`, or at the day after it while that one is verified (`EndsAgree`, from `QueueSteady` and `InHand`);
  the marker is ahead of `last_written` by skipped days only (`Rests`); a stored rewrite leaves no day out before
  what it has left (`RewriteAdjoins`); and what the run writes next is in line with them (`Placed`). Channels may be added at any stage; as the
  property does, `RestSafe` asks for the ends of statistics only until one is loaded late, which stays so (`LateForGood`). All three
  hypotheses hold in each state of the run `usage_services`, which the theorem thus covers whole.

| Hypothesis | What happens without it |
|---|---|
| `RowsInReach` (the other four): a day whose write was cut off is recovered while Amber still answers for it | The day leaves the retention boundary, is skipped with its rows in the table, and the next day continues from `last_written`. Guard 1 refuses. |
| `LoadedInTime` (the second to fourth): no channel is loaded after a day of its own was recorded | Guard 1 expects a row of it that nobody wrote. The day has no statistics for it, and nothing tracks that. |
| No backfill (`Undisturbed`) | Finding 2. |
| `MaxSlow = 0` (`Undisturbed`): the recorder commits before `VERIFY_TIMEOUT` | Guard 1 reads the table and clears the pending day before the late rows arrive. Late commits are in `usage_faults`. |
| No switch to or from Pricing-only (`Undisturbed`) | In Pricing-only an interrupted rewrite is not resumed, and the day appended after the switch back has the old sum before it. |
| No `import_day` where days are revised (`Undisturbed`) | It resumes no rewrite (`manager.py:2153`). |
| No `import_day` (`Automatic`) | A day it writes again and does not finish stays half committed until the next run. |
| Days final, or no stop (`Recoverable`) | Finding 1. |
| No unexpected channel (`Recoverable`, `Revising`: `Regress = FALSE`) | The day being recovered is refused by guard 3, which clears it as pending although its rows are there; a revised day that turns incomplete is not rewritten. |
| No stop at `track` (`Revising`) | Finding 3. |
| No stop, and the recorder commits in time (`Undelayed`) | A backfill discards the day guard 1 wants recovered (`manager.py:568`); late rows as above. |
| `RewriteResumed`: while a rewrite is stored, only its resumption writes days | `import_day` (`manager.py:2153`), or a run that was in Pricing-only mode when it passed `resume`, appends a day after the unfinished rewrite: the marker passes days with no record, and guard 1 refuses. |
| `BackfillAdjoins`: a backfill of days Amber has dropped starts within the history or right after it | The first bound of the usage import below (`manager.py:1401`). |
| `RequestedComplete`: a day that was not requested, and now is, has complete usage | Noting it as empty or failed overwrites `skipped_not_requested` (`storage.py:397`), which `_marker_problem` asks for. |

The instances of `usage_append` and `usage_revise` satisfy these hypotheses (`Recoverable` the first, `Revising` the second; their calendars leave an
interrupted day in reach): they are what is between the findings, not less than the runs check.

A secondary chain (`SecondaryChainProofs`). Wherever runs are cut off, whatever Amber revises and whatever is lost:

- `ChainTypeCorrect` (`Spec => []TypeOK`) and `ChainHistoryIsKept` (`Spec => ChainKeepsHistory`), from `HistInv`: a
  stored rewrite ends at the marker or before (`Progress`), nothing after the marker is resolved (`Passed`), a
  rewrite replaces days that were imported or are retried (`Replaces`), and what a run resolves next is the day after the
  marker (`Resolves`).
- `ChainGapsWaitForPatience` (`Spec => []GapsAgree`), from `GapInv`, which adds `Shared`: the dates a day was seen empty on are
  after it and not in the future, so that as many of them as `patience_days` take as many dates (`PatienceIsTime`), and what the usage
  chain has resolved is not after its marker, so that a day it gave up is one it has passed.

Until a recovery is lost (`RecoveryKept == "recovery" \notin lapses`):

- `ChainIsNeverLockedOut`: `Spec => []ChainNeverLocksOut`, from `Spec => [](RecoveryKept => ChainInv)`. There is no hypothesis on
  stops, revisions or the calendar: a step that loses a recovery records it, and every other step keeps `ChainInv`:
  - `Records`: written days have rows, a day is resolved once the marker has passed it, and from the first resolved day on there is
    no hole, which the guard's first condition asks for;
  - `Progress`, as above;
  - `Lasting`, `Fetches`: a day with a row has data in the sensor and in Amber, and a cache fetched earlier does not
    deny it, so that a rewrite or a recovery never skips a day it once wrote;
  - `Control`: stage by stage, that the last row is the last written day's or is announced: the pending day is
    the one after the marker and nothing forgets it before the guard has read it (`Explained`). That last clause is what failed
    first; the steps that break it are the ones `lapses` names.

  `NextKeeps` has one lemma per action.
- `ChainSumsAreContinuous`: `Spec /\ []NoneReplaced => [](RecoveryKept => ChainSumsContinuous)`. `SumInv` adds to `ChainInv` that an imported day
  which does not continue the row before it is one a rewrite has still to reach (`SumsDue`), and that a rewrite reaches
  the last written day (`RewriteCovers`). Hypothesis `NoneReplaced`: no revision replaces an interrupted rewrite by one that
  starts at a later day. The code does replace it (`manager.py:961`, `storage.py:612`), and then the days between keep their old sums.
- `ChainStaleDaysAreTracked`: `Spec /\ []NoneReplaced /\ []AheadInReach => []ChainStaleIsTracked`, until anything lapses and if no run is cut
  off at `track` (Finding 3). `TrackInv` adds that a day not covered by a rewrite shows its fingerprint or Amber's last word
  (`DaysTracked`), and, for a day the chain has before the usage chain does, that Amber has not changed since
  (`WrittenAhead`; a revision of such a day is a lapse). Hypothesis `AheadInReach`: such a day does not leave Amber's retention
  before the usage chain comes to it. It would be skipped there, and with it goes the fingerprint that the chain relies on.

The retention boundary, the account, the migration:

- `ReserveIsKept` (`RetentionProofs`): `Spec => []ReserveKept`, for every limit, reserve, cap of calls and
  number of lost responses and reloads (`CallBudgetAssumption`, `RetentionAssumption`). The
  property is not inductive: it does not say why a run that starts afresh holds back. `Shown` adds that when
  the reserve's last request is all that is missing, the figure the next request is judged by (the run's, or the
  remembered one between runs) is low and its window not over; then `Allows` refuses.
- `RetentionTypeCorrect` (`TypeOK`), `SearchFitsItsCap` (`ProbesFit`), `BracketIsExact` (`BracketedIsFirst`) and
  `ForwardIsSafe` (`ForwardSkipsNoUsage`), from `RetentionInv`. Its core is `Sound`: question by question, what the
  answers so far have shown and how many requests they took at most. A bisection has a day with usage, one without, and
  no more days between them than the requests left can halve (`Fits`); `FollowedIsSound` goes through every question
  and both answers. `Answers` says what an answer still means later: Amber's usage only starts later as
  time passes, and a day at or after the run's date may be "empty" just because it is not over. The assumptions:
  days are numbered from well before any that is asked for, and the site has started
  (`RetentionAssumption`); a search sees one midnight at most (the guard of `Tick`).
- `UpgradeIsWhole` (`AccountProofs`): `Spec => []UpgradedWhole`, for every set of mappings, calendar and number of
  stops. `UpgradeOrder` adds what holds in memory and in the middle: an entry whose upgrade
  has begun is whole, and the old Store is gone before the version is raised.
- `AccountTypeCorrect`: `Spec => []TypeOK`, with `LoadOrder`: what runs, waits or is scheduled belongs to a loaded entry of
  version 2, and a run and a conversion never hold the lock at once.
- `TimerIsArmed`: `Spec => []ArmedForNextAttempt`, for every choice of daytime and evening attempts, from
  `NextIsFirst`: the next attempt is one, it is after now, and none lies between.
- `NothingImportedIsLost`: `Spec => []KeptThrough`. `KeptInv` follows each marker to where it is held
  (`Holder`: the entry's Store before the move, the site's after) and each chain to the key it is stored under
  (`Place`), in memory, in the Store and in the entry on disk. Its hypothesis: no behaviour both stops Home Assistant and
  removes a mapping. A stop that undoes a removal not saved yet brings a mapping back whose chain the
  reload has forgotten; the run's `Budgets` keep the two apart for that reason.
- `BehindIsAlwaysReported`: `Spec => []BehindIsReported`. The property says nothing before the day is over; `Reported` says
  who is still to give the report on a day that the import is behind (`Covered`): an attempt of today that the timer is set
  for, a run that ends before the last attempt, or a final run, queued or under way. `AtAttempt` is why the timer,
  when it fires, hands over to one of these. It needs that an evening retry comes more than an instant after the
  attempt before it (`AttemptTimesAssumption`; in the code 3 hours, `EVENING_RETRY_MINUTES`): TLC shows the property
  violated on a calendar where a run lasts until the next retry.
- `OriginIsRestored` (`MigrationProofs`): `Spec => []OriginRestored`. `OriginInv` says that the record of an unfinished
  migration backs up what was there before the first run (`Sound`), that preferences and automations are those of the
  origin but for what the record says was done (`Matches`), and that the copy a call works on agrees with the saved
  one in both (`CopyMatches`), so that neither a resumed run nor an undo backs up what an earlier part has changed.

The inductive invariants were model-checked before they were proved: those of the usage import on its safety instances
(`RestInv`, until a channel is loaded late, on `usage_services`),
the others (`RetentionInv` without its record types) on the instances of the runs `retention`, `account`, `migration` and `chain`; the chain's four
(`HistInv`, `GapInv`, and `SumInv` and `TrackInv` under the conditions above) also with two revisions and a stop, and a removal
beside both (7.1 million states).

Only model-checked:

- The chain's sums after a recovery was lost: `ChainSumsContinuous` holds there as well, in the instance.
- Liveness (`CatchesUp`, `HistoryConverges`, `KeptBoundaryIsRechecked`, `InterruptedRunsAgain`): fairness and ENABLED are out of
  the prover's reach.
- `Joined`, `NetIsDifference`, `FixedFollows`, `MiscountIsRefused`, `CopiedIsPlausible`: they are about what folds over the days of a
  kit compute, which needs induction over data with an operator as its parameter.

## What the bounds leave out

Some bounds of these modules are guards that keep a behaviour out of a passing run. Each
but `Cancels` was found by a counterexample of TLC without the guard; the guard is named, so that lifting it shows
the behaviour again.

Other behaviours are in the models, and the properties say what holds until they happen (`late`, `lapses`).

Usage import (what the hypotheses of the theorems leave out is in the table above):

- `late`: a channel added during a run starts at marker + 1, which may be the day that run writes with the channels it
  has. When it is recorded and the channel loaded, guard 1 expects a row of the channel on that day (`manager.py:597`, `639`), and
  stops every later run. `docs/DESIGN.md:209` says that a new channel starts at the next day to be imported. TLC shows it in
  `usage_services.cfg` when `~late` is dropped from `RestsUnlocked`. Not modelled: a reload that waits for the
  run's end, or makes a second manager beside it.

- A backfill that starts before the retention boundary, but after the day that follows the marker: the days before the
  boundary are skipped from the backfill's first day on (`manager.py:1401`), the marker moves to the last of them, and the days between the old
  marker and the backfill's first are recorded nowhere. `_marker_problem` then stops every later run.
  `docs/DESIGN.md:379` says that "the days in between are recorded as `skipped_not_requested`". TLC shows it in
  `old_backfill.cfg` with `MaxDay = 4`, `Retention = 1` and the invariant `RestsUnlocked`; in `usage_services` the retention exceeds the calendar.

Migration:

- `Resumable`, `Unrecorded` (at `"progress"`): a stop or a failed verification after the first day of a
  re-base is written, before its progress is saved. The seam is then continuous, so the resumed run
  skips the re-base (`migration.py:1489`) and the days after it keep their old sums.
- `Unrecorded` (at `"switched"`, `"turned_off"`): a stop between a change of the Energy preferences
  or of an automation and the save that records it: undo does not restore it.
- `MayUndo`: an undo during an unfinished re-base, and another migration after it.
- `Passed`: a revision rewrites days that an interrupted re-base has passed; it resumes with
  sums from before.
- No property asks that an honest kit passes parity, because the code refuses some: one whose outage covers a day the
  integration lacks as well, or that has a missing row followed by flat ones (`migration.py:535`, `686`).
- `MiscountIsRefused` is about days from the integration's first one that it has usage of, after the kit's first row, as long
  as Amber has not revised anything since. The instance has one corrupt row a behaviour: no miscounted day beside a flagged row.

Account:

- `Split`: a stop between the save of the renamed chains and Home Assistant's later save of the
  sub-entries: the next setup forgets the moved chains.
- `Disturbs`: an evening run that is not waiting, yet leaves something behind, drops the remaining
  retries without a final attempt; an attempt due just when the timer is set again is dropped
  (`manager.py:402`).
- `Cancels`: a reload while a run of a service goes on.

Secondary chain:

- `"revision"` in `lapses`: Amber revises a day that the chain has, or is about to write, before the usage chain does (`Ahead`): the
  shared entry of the revision set is overwritten by the one that writes later. Or a stop comes between the usage chain's rewrite and
  the progress the chain saves first, or saves in place of an older one (`Unsaved`). The chain stays stale.
- `"recovery"` in `lapses`: an append was interrupted (`Interrupted`), and then its day leaves retention before the next run, so that the chain
  skips it and its rows stand after the last written one; or a revision is published; or a stop comes while a revision waits
  (`RevisionWaits`) or a retry has forgotten the pending day, until the walk sets it again (`PendingAtRisk`). The
  guard refuses every later run (Finding 1).
- A stop at `track` (Finding 3).
- A later revision with a later first day replaces an interrupted rewrite: in the module, left out by the
  instance of `chain` (one revision) and by the hypothesis `NoneReplaced`.
- Left out of the module: a rewrite of the first day after adopted ones takes its baseline as 0
  (`manager.py:2037`); a backfill or `import_day` updates the shared fingerprint without a
  rewrite of the chain; sensor data gone during a rewrite keeps the old row; flows missing there fail an assertion
  (`manager.py:1957`).

Retention: an unbracketed discovery may move a far-back boundary forward (excluded in
`ForwardSkipsNoUsage` by name); a missing day in a bracket makes the bisection find the wrong
edge (excluded in `BracketedIsFirst` and in `ForwardSkipsNoUsage`); a low figure without a window end would refuse for ever (responses
carry both headers in the model).

## Not modelled

- Two managers at once: a reload while a service's run goes on (`__init__.py:630`), and a Store
  of a removed site made again by such a run.
- Two calls of the migration at once: undo and deletion outside the lock (`migration.py:1751`), a plan
  that waits for the lock while a run changes what it saw, the user's own edits to the Energy
  preferences between plan and step, a stop between clearing the kit's statistics and its record.
- The choice among kit layouts and manual picks, the migration's report and cleanup issue, version
  1's rule for costs that are all zero.
- A bad copy that a stop leaves at the new Store key and that is preferred from then on
  (`storage.py:134`).
- `import_day` clears no issue and sets no timer; it is not part of `Account`. Pricing-only mode
  there; several sites of one account; runs longer than the gap between attempts.
- A derived write that is done in part; the adjusted compensation (another extra on the same sync);
  export aggregates.
- Price series, lower-precision days and the pricing of an hour in `chains.py` and `solar.py`:
  floating-point data without control.
- Sensors, buttons, diagnostics, calibration, bill estimate, Today so far, cards, registries and
  forms: computations and user interface that no import reads. HTTP and parsing: pure I/O.

## Plan

1. Proofs: `SumsContinuous` with backfills inside Amber's retention.
2. Proofs: the kit's folds (`Joined`, `NetIsDifference`), by the smallest day on which a prefix differs.
3. Two managers, two copies of the Store and two locks after a reload during a service's run.
4. Further instances of `UsageImport`: crash with backfill, `import_day` during an interrupted
   rewrite and in Pricing-only mode, recovery of a day that turned incomplete.
5. Undo and deletion beside a migration in progress; export aggregates.

## Reproducing

    tlc -workers 2 -config usage_append.cfg MCUsageImport
    tlc -workers 2 -config retention.cfg MCRetention
    tlc -workers 2 -config chain.cfg MCSecondaryChain
    tlc -workers 2 -config migration.cfg MCMigration
    tlc -workers 2 -config account.cfg MCAccount
    tlapm UsageImportProofs.tla
    tlapm UsageHistoryProofs.tla
    tlapm SecondaryChainProofs.tla
    tlapm AccountProofs.tla
    tlapm MigrationProofs.tla

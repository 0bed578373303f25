------------------------ MODULE MigrationProperties ------------------------
(***************************************************************************)
(* What must hold of a migration from the YAML kit, whatever is called,    *)
(* interrupted, resumed, undone and run again.                             *)
(***************************************************************************)
EXTENDS Migration

\* Each row of a statistic continues the row before it.
Continuous(history) ==
  history # <<>> =>
    \A d \in DOMAIN history \ {FirstOf(history)} :
      history[d].sum - history[d].state = SumAt(history, d - 1)

\* Once a run has recorded the re-base, kit history and integration history form one
\* unbroken series in every statistic, however often the run was paused or stopped, and
\* it stays so through the integration's later days, revisions, undo and re-runs; and a
\* record in force splits them where the integration began, never at a copied row
\* (_async_rebase_stored, _seam_continuous, _async_integration_data).
Joined ==
  /\ InForce => record.boundary = FirstDay
  /\ "rebase" \in record.steps => \A s \in Stat : Continuous(rows[s])

\* The net cost is the cost minus the compensation on every day it has a row: the copied
\* net rows are combined from two series with different days and first days, then re-based
\* on their own (_net_rows, _async_rebase_stored).  (Where the longer series has no row on
\* the net's first day, what it summed up before counts from its next row.)
Counts(s, d) ==
  \/ \A e \in DOMAIN rows[s] : e > d
  \/ \E e \in DOMAIN rows[s] : FirstOf(rows["net"]) <= e /\ e <= d
NetIsDifference ==
  "rebase" \in record.steps =>
    \A d \in DOMAIN rows["net"] :
      Counts("cost", d) /\ Counts("compensation", d) =>
        rows["net"][d].sum = SumAt(rows["cost"], d) - SumAt(rows["compensation"], d)

\* No implausible legacy row reaches the copied history: its energy sums never fall, and
\* never rise faster than the cap, whatever was flagged and left out (_scan_series).
CopiedIsPlausible ==
  "copy" \in record.steps =>
    \A s \in Energy : \A d, e \in {x \in DOMAIN rows[s] : x < record.boundary} :
      d < e => LET step == rows[s][e].sum - rows[s][d].sum IN
               0 <= step /\ step <= EnergyCap * (e - d)

\* After every sync the cost including fixed charges has the cost's rows, each the cost so
\* far plus the amount that was in force on each day since the first row, days without a
\* row included, through copied history, re-bases, revisions and changed charges
\* (derived.async_sync, _async_fixed_schedule).
Syncs == ImportDay \/ (\E day \in Day : Revise(day)) \/ SyncDerived
FixedIsCostAndCharges(total, cost, schedule) ==
  /\ DOMAIN total = DOMAIN cost
  /\ \A d \in DOMAIN cost :
       total[d].sum = cost[d].sum
                        + MapThenSumSet(LAMBDA e : DailyOn(schedule, e), FirstOf(cost)..d)
FixedFollows ==
  [][Syncs => FixedIsCostAndCharges(fixed'.rows, rows'["cost"], fixed'.schedule)]_vars

\* After an undo, and whenever no migration is recorded, the Energy preferences and the
\* kit's automations are as they were before the first run, even if that run was resumed
\* after it had changed them (_async_begin, async_undo).
OriginRestored ==
  At("idle") /\ record.status \in {"none", "undone"} =>
    prefs = origin.prefs /\ kit.on = origin.kitOn

\* Kit history is never taken over from a kit that counted a day the integration has
\* otherwise than Amber, however its rows are missing, added up or left out around that day
\* (_parity, _classify_gaps; while Amber's own figures stand).
Miscounted(d) ==
  d \in kit.wrong /\ d >= FirstDay /\ d \in DOMAIN rows["import"] /\ d > FirstOf(legacy["import"])
MiscountIsRefused ==
  [][At("idle") /\ At("begin")' /\ used = Use => \A d \in Day : ~Miscounted(d)]_vars
=============================================================================

----------------------- MODULE UsageImportProperties -----------------------
(***************************************************************************)
(* What UsageImport has to get right.  Every property relates the Store to *)
(* the statistics table or to Amber across interrupted and resumed runs.   *)
(***************************************************************************)
EXTENDS UsageImport

-----------------------------------------------------------------------------
(* The history of days *)

Outcome ==
  [d \in Day |-> CASE store.status[d] = "imported" -> "imported"
                   [] store.status[d] \in Skipped -> "skipped"
                   [] OTHER -> "open"]

Ledger == INSTANCE ImportLedger WITH marker <- store.marker, outcome <- Outcome

\* Runs, import_day, crashes, recoveries and revision rewrites only ever extend the
\* history by the day (or days) after the marker, and never reopen an outcome: the Store
\* implements the ledger.  Backfills are outside this promise.
KeepsLedger == Ledger!Spec

\* A day is given up as a gap only after its usage was looked for on patience_days
\* separate dates, so on a date at least that many days later (Guard 2).
GapOnlyAfterPatience ==
  [][\A d \in Day : store.status[d] # "gap" /\ store'.status[d] = "gap"
       => today >= d + Patience]_vars

-----------------------------------------------------------------------------
(* The Store and the statistics table *)

\* Whatever a run was doing when it stopped, guard 1 accepts the next one: it finds the
\* statistics at last_written, or explained by the pending day.  If not, the site is
\* locked out of every later import (_async_guard1).
GuardNeverLocksOut == ~GuardStops

\* The same while no run is active, with channels added in the middle of a run
\* (async_add_channels takes no lock): a run that ends by itself does not lock out the next.
\* The exception is the code's own: a channel that a run loads only after a day of its own was
\* recorded without it (`late`) makes guard 1 expect a row nobody wrote (_expected_end).
RestsUnlocked == At("idle") /\ ~late => ~GuardStops

PreviousRow(s, d) == MaxOf({e \in Day : e < d /\ HasRow(s, e)})

Continues(s, d) ==
  LET p == PreviousRow(s, d) IN
  rows[s][d].sum - rows[s][d].state = IF p = NoDay THEN 0 ELSE rows[s][p].sum

\* The days of the history whose sum does not continue from the row before.
Breaks(s) == {d \in Day : d <= store.lastWritten /\ HasRow(s, d) /\ ~Continues(s, d)}

\* Each statistic's sums are cumulative over its whole history, also across gaps, late
\* channels and rewritten days; while a rewrite is in progress there is at most one seam,
\* in the part that is still to be rewritten (_async_baselines, _async_range_rewrite).
SumsContinuous ==
  \A s \in Stat :
    IF store.tail = NoTail THEN Breaks(s) = {}
    ELSE Cardinality(Breaks(s)) <= 1 /\ \A d \in Breaks(s) : d >= store.tail.next

InFlight(d) == d = store.pending \/ (store.tail # NoTail /\ d = store.tail.next)

\* All statistics of an imported day come from the same records: a day is never left with
\* one statistic from one version of the data and another from a different one, although
\* the recorder imports them one by one (async_write_amounts, _async_verify).
StatisticsMatch ==
  \A d \in Day : queue = <<>> /\ store.status[d] = "imported" /\ ~InFlight(d) =>
    \A s, t \in ActiveStats(d) : rows[s][d].state = rows[t][d].state

\* A statistic has no rows before the day its channel starts on, whatever is rewritten
\* afterwards (_ctx_for, channel_since).
NoRowBeforeStart == \A s \in Stat, d \in Day : HasRow(s, d) => Active(s, d)

-----------------------------------------------------------------------------
(* The statistics table and Amber *)

\* An imported day whose statistics are out of date is one the integration will look at
\* again: it is in the revision set, or in the part of a rewrite still to come
\* (README: revised days are rewritten automatically).
StaleDayIsTracked ==
  \A d \in Day :
    /\ store.status[d] = "imported" /\ ~InFlight(d)
    /\ \E s \in ActiveStats(d) : rows[s][d].state # amber[d].amount
    => \/ InRevisionSet(store, d)
       \/ store.tail # NoTail /\ store.tail.next <= d /\ d <= store.tail.to
       \/ run.day = d /\ run.pc = "track"
       \/ today > d + 1 + RevisionDays            \* its time in the revision set is over

\* Every day is resolved in the end: a gap, a crash during a write or a revision does not
\* stop the catch-up for good (README: one missing day cannot block everything after it).
CatchesUp == <>[](today = MaxDay + 1 /\ store.marker = MaxDay)

\* Once Amber has stopped revising, the statistics settle on Amber's figures.
HistoryConverges ==
  <>[](\A d \in Day : store.status[d] = "imported" =>
         \A s \in ActiveStats(d) : rows[s][d].state = amber[d].amount)
=============================================================================

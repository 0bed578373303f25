------------------------------- MODULE Derived -------------------------------
(***************************************************************************)
(* Statistics derived from the integration's own (derived.py), for the     *)
(* cost including fixed charges: base sums carried forward, plus a daily   *)
(* amount for the time between rows; and their sync by difference.         *)
(*                                                                         *)
(* Rows map a day to [state, sum], one row a day: a day's hourly rows add  *)
(* its daily amount together, as a daily row of copied history does.       *)
(***************************************************************************)
EXTENDS LegacyHistory

\* The daily amount in force on a day.  A schedule is a sequence of [from, daily], its
\* first entry from the start (0).
DailyOn(schedule, day) ==
  FoldLeft(LAMBDA daily, entry : IF day >= entry.from THEN entry.daily ELSE daily, 0, schedule)

\* What a row adds: the daily amount for the days since the row before it (the first: 1).
FixedExtra(schedule, previous, day) ==
  DailyOn(schedule, day) * (IF previous = 0 THEN 1 ELSE day - previous)

\* One row after the other: the bases' sums, carried forward, and what was added so far.
BuildRow(base, schedule, built, day) ==
  LET carried == [s \in DOMAIN base |-> IF day \in DOMAIN base[s] THEN base[s][day].sum
                                        ELSE built.carried[s]]
      added   == built.added + FixedExtra(schedule, built.previous, day)
      total   == Over(carried, DOMAIN base) + added
      states  == [s \in DOMAIN base |-> IF day \in DOMAIN base[s] THEN base[s][day].state ELSE 0]
      state   == IF built.previous = 0 THEN Over(states, DOMAIN base) + added
                 ELSE total - built.total IN
  [carried |-> carried, added |-> added, total |-> total, previous |-> day,
   rows |-> built.rows @@ (day :> [state |-> state, sum |-> total])]

BuildRows(base, schedule) ==
  FoldLeft(LAMBDA built, day : BuildRow(base, schedule, built, day),
           [carried |-> [s \in DOMAIN base |-> 0], added |-> 0, total |-> 0, previous |-> 0,
            rows |-> <<>>],
           InOrder(UNION {DOMAIN base[s] : s \in DOMAIN base})).rows

\* What a sync leaves: rows the bases no longer have clear the statistic; then it is
\* written from the first row that differs.
NewRowsOnly(expected, stored) == DOMAIN expected \ DOMAIN stored   \* mutant: rows are kept
Differing(expected, stored) ==
  {d \in DOMAIN expected : d \notin DOMAIN stored \/ stored[d] # expected[d]}

Kept(expected, stored) == IF DOMAIN stored \subseteq DOMAIN expected THEN stored ELSE <<>>

Synced(base, schedule, stored) ==
  LET expected == BuildRows(base, schedule)
      kept     == Kept(expected, stored)
      differ   == Differing(expected, kept) IN
  [d \in DOMAIN expected |->
     IF differ # {} /\ d >= Min(differ) THEN expected[d] ELSE kept[d]]

\* A new daily amount: from the start, or from the day after the last imported one.
WithCharge(schedule, daily, lastWritten) ==
  IF schedule # <<>> /\ Last(schedule).daily = daily THEN schedule
  ELSE Append(schedule, [from  |-> IF schedule = <<>> \/ lastWritten = 0 THEN 0
                                   ELSE lastWritten + 1,
                         daily |-> daily])
=============================================================================

--------------------------- MODULE LegacyHistory ---------------------------
(***************************************************************************)
(* What the migration works out from the YAML kit's statistics             *)
(* (migration.py): implausible rows, the rows to copy, and the parity      *)
(* check against the integration's own data.                               *)
(*                                                                         *)
(* A series maps the days that have a row to the cumulative sum at the end *)
(* of that day; the rows of one day are one row here.  Amounts are whole   *)
(* units, far above the code's tolerances, so agreeing is being equal.  A  *)
(* total that does not exist (Python's None) is the empty set, one that    *)
(* does is a singleton.                                                    *)
(***************************************************************************)
EXTENDS Integers, FiniteSets, SequencesExt

CONSTANTS
  MaxDay,         \* the last day of the instance
  EnergyCap,      \* the largest plausible step of an energy series in one day
  CostCap,        \* and of a cost series
  MinParityDays,  \* MIN_PARITY_DAYS
  Rules           \* "daily" (v1 kit) or "hourly": are costs compared?

ASSUME LegacyHistoryAssumption ==
  /\ MaxDay \in Nat \ {0} /\ EnergyCap \in Nat /\ CostCap \in Nat
  /\ MinParityDays \in Nat /\ Rules \in {"daily", "hourly"}

Day    == 1..MaxDay
Energy == {"import", "export"}
Role   == Energy \cup {"cost", "compensation"}

Total(series, first, last) ==
  IF {first - 1, last} \subseteq DOMAIN series THEN {series[last] - series[first - 1]} ELSE {}

\* The sum of a function over a set of days.
Over(f, days) == MapThenSumSet(LAMBDA d : f[d], days)

FirstOf(series) == Min(DOMAIN series)
LastOf(series)  == Max(DOMAIN series)

InOrder(days) == SetToSortSeq(days, <)

-----------------------------------------------------------------------------
(* Implausible rows: each row against the last good one *)

RowCap(role) == IF role \in Energy THEN EnergyCap ELSE CostCap

BadRise(series, role, base, day) ==   \* mutant: a total that starts again goes unnoticed
  series[day] - series[base] > RowCap(role) * (day - base)
Bad(series, role, base, day) ==
  \/ series[day] - series[base] > RowCap(role) * (day - base)
  \/ role \in Energy /\ series[day] < series[base]

\* One row of lookahead tells a spike (dropped) from a new level (dropped, and what
\* follows is shifted by the step).
IsSpike(series, role, base, day) ==
  LET after == {d \in DOMAIN series : d > day} IN
  after = {} \/ ~Bad(series, role, base, Min(after))

ScanRow(series, role, seen, day) ==
  IF ~Bad(series, role, seen.base, day)
  THEN [seen EXCEPT !.base = day, !.kept = @ @@ (day :> series[day] + seen.offset)]
  ELSE IF IsSpike(series, role, seen.base, day)
  THEN [seen EXCEPT !.flagged = @ \cup {day}]
  ELSE [seen EXCEPT !.flagged = @ \cup {day}, !.base = day,
                    !.offset = @ - (series[day] - series[seen.base])]

Scan(series, role) ==
  IF series = <<>> THEN [kept |-> <<>>, flagged |-> {}]
  ELSE LET first == FirstOf(series)
           start == [base |-> first, offset |-> 0, kept |-> first :> series[first],
                     flagged |-> {}] IN
       FoldLeft(LAMBDA seen, day : ScanRow(series, role, seen, day), start,
                InOrder(DOMAIN series \ {first}))

-----------------------------------------------------------------------------
(* The rows to copy: those before the boundary, and a carry row just before it *)

PreviousIn(days, day) == Max({d \in days : d < day})

\* Rows [state, sum] of daily sums; each state is the change since the row before.
RowsOf(sums) ==
  [d \in DOMAIN sums |-> [sum |-> sums[d],
                          state |-> IF d = Min(DOMAIN sums) THEN 0
                                    ELSE sums[d] - sums[PreviousIn(DOMAIN sums, d)]]]

CopyRows(series, sign, boundary) ==
  LET days == {d \in DOMAIN series : d < boundary}
      rows == RowsOf([d \in days |-> sign * series[d]]) IN
  IF days = {} \/ boundary - 1 \in days THEN rows
  ELSE rows @@ (boundary - 1 :> [state |-> 0, sum |-> rows[Max(days)].sum])

\* The last sum up to a day, 0 before the first row.
SumAt(rows, day) ==
  LET before == {d \in DOMAIN rows : d <= day} IN
  IF before = {} THEN 0 ELSE rows[Max(before)].sum

\* Net cost on the union of the days of cost and compensation, from the later first day:
\* what a series has summed up before that day counts once it has a row.
NetRowsAdded(cost, compensation) ==   \* mutant: the kit's sign of the export cost
  RowsOf([d \in DOMAIN cost |-> SumAt(cost, d) + SumAt(compensation, d)])
NetRows(cost, compensation) ==
  LET days  == DOMAIN cost \cup DOMAIN compensation
      first == IF cost = <<>> \/ compensation = <<>> THEN 0
               ELSE Max({FirstOf(cost), FirstOf(compensation)})
      since(rows) == Restrict(rows, {d \in DOMAIN rows : d >= first}) IN
  RowsOf([d \in {e \in days : e >= first} |->
            SumAt(since(cost), d) - SumAt(since(compensation), d)])

-----------------------------------------------------------------------------
(* Legacy gaps and catch-up lumps.  ends: the kit's series by role; ours: the integration's
   daily amounts by role, on the days it has. *)

IsZero(total) == total = {0}

GapDays(ends, ours, days) ==
  {day \in days :
     \/ day \notin DOMAIN ends["import"]
     \/ /\ IsZero(Total(ends["import"], day, day))
        /\ Total(ends["export"], day, day) \in {{}, {0}}
        /\ ours["import"][day] > 0}

\* The gap days as runs of consecutive days: their first and last days.
Runs(gaps) ==
  {run \in gaps \X gaps :
     /\ run[1]..run[2] \subseteq gaps
     /\ run[1] - 1 \notin gaps /\ run[2] + 1 \notin gaps}

AfterRun(run, gaps, days) == {d \in days \ gaps : d > run[2]}

\* Did the kit resume on the day lump with everything since the run's first day?
CaughtUp(ends, ours, run, lump) ==
  LET block == run[1]..lump
      whole == Total(ends["import"], run[1], lump)
      alone == IF lump - 1 \in DOMAIN ends["import"] THEN Total(ends["import"], lump, lump)
               ELSE whole IN
  /\ alone # {ours["import"][lump]}
  /\ block \subseteq DOMAIN ours["import"]
  /\ whole = {Over(ours["import"], block)}

\* Where the legacy total and ours of a compared day start: the day itself, but after a gap.
Starts(ends, ours, days, gaps, day) ==
  LET before == {run \in Runs(gaps) : Min(AfterRun(run, gaps, days) \cup {MaxDay + 1}) = day} IN
  IF before = {} THEN <<day, day>>
  ELSE LET run == CHOOSE r \in before : \A other \in before : other[1] <= r[1] IN
       IF CaughtUp(ends, ours, run, day) THEN <<run[1], run[1]>>
       ELSE IF day - 1 \notin DOMAIN ends["import"] THEN <<run[1], day>>
       ELSE <<day, day>>

Agrees(role, old, new) ==
  IF role \in Energy THEN old = new
  ELSE Rules = "daily" \/ old = new \/ old = -new

\* Does the day's total of one statistic differ, or is it missing on one side?
Differs(ends, ours, role, starts, day) ==
  LET old   == Total(ends[role], starts[1], day)
      block == starts[2]..day
      both  == old # {} /\ block \subseteq DOMAIN ours[role] IN
  IF both THEN \A total \in old : ~Agrees(role, total, Over(ours[role], block))
  ELSE role \in Energy \/ Rules = "hourly"

\* The days a series can be compared on: from the day after its first row.
InSpanShort(series, first, last) ==   \* mutant: not on its last day
  series # <<>> /\ FirstOf(series) + 1 <= first /\ last < LastOf(series)
InSpan(series, first, last) ==
  series # <<>> /\ FirstOf(series) + 1 <= first /\ last <= LastOf(series)

\* The parity check over the integration's days from the kit's first comparable day.
Parity(ends, ours) ==
  LET days     == {d \in DOMAIN ours["import"] : d > FirstOf(ends["import"])}
      gaps     == GapDays(ends, ours, days)
      compared == days \ gaps
      mismatch(day) ==
        LET starts == Starts(ends, ours, days, gaps, day) IN
        \E role \in Role : /\ InSpan(ends[role], starts[1], day)
                           /\ Differs(ends, ours, role, starts, day)
      enough == Cardinality(compared) >= MinParityDays
      differ == \E day \in compared : mismatch(day) IN
  [differs    |-> differ,
   passed     |-> enough /\ ~differ,
   unverified |-> ~enough /\ ~differ /\ (gaps # {} \/ days = {})]

\* The sign of a manual pick's export cost: the one that matches ours over the overlap.
ExportSign(series, ours) ==
  LET days == {d \in DOMAIN ours : Total(series, d, d) # {}}
      dot  == MapThenSumSet(LAMBDA d : (series[d] - series[d - 1]) * ours[d], days) IN
  IF dot > 0 THEN 1 ELSE -1
=============================================================================

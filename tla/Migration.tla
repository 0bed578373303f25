----------------------------- MODULE Migration -----------------------------
(***************************************************************************)
(* The migration from the YAML kit (migration.py): the plan, the recorded  *)
(* and resumable steps of a real run, its undo and the deletion of the     *)
(* kit's statistics, among the runs of the integration, the days the kit   *)
(* still writes, and stops of Home Assistant.                              *)
(*                                                                         *)
(* Runs and real migrations hold the site's lock, so a run's day or range  *)
(* rewrite is one step here; the plan is made before the lock is taken.    *)
(* A record is on disk once saved; a stop loses what the call has changed  *)
(* in its copy since then.                                                 *)
(***************************************************************************)
EXTENDS Derived

CONSTANTS
  FirstDay,    \* the first day the integration imports
  AmberGaps,   \* days Amber never publishes
  Use,         \* what a day uses: [import, export] as a function of the day
  CostFrom,    \* the first day the kit has its cost and its compensation for
  KitSign,     \* the sign of the kit's export cost
  Big,         \* the size of a corrupt step
  Partial,     \* how many statistics an interrupted write may have reached
  Charges,     \* the daily fixed charges the user may set, the lowest at first
  Openings     \* what the Energy dashboard may use at first, and with it the bounds on
               \* the events of the behaviour: how many of each kind may happen

Events == {"corrupt", "pause", "crash", "stall", "revise", "undo", "mismatch",
           "charge"}

ASSUME MigrationAssumption ==
  /\ FirstDay \in Day /\ AmberGaps \subseteq Day \ {FirstDay}
  /\ DOMAIN Use = Day /\ \A d \in Day : Use[d].import \in Nat /\ Use[d].export \in Nat
  /\ CostFrom \in [{"cost", "compensation"} -> Nat] /\ KitSign \in {1, -1} /\ Big \in Nat
  /\ Partial \subseteq 0..5
  /\ Charges \subseteq Nat /\ Charges # {}
  /\ Openings \subseteq [prefs : {"none", "legacy", "new"}, left : [Events -> Nat]]

VARIABLES
  today,    \* the last day that has ended
  kit,      \* the kit: on, its running totals, the days it has not imported or miscounted
  legacy,   \* the kit's statistics: a series by role
  used,     \* what Amber holds for each day
  written,  \* the last day the integration has resolved
  rows,     \* the integration's statistics: [state, sum] by statistic and day
  fixed,    \* the cost including fixed charges: its rows, the charge set, the schedule stored
  prefs,    \* what the Energy dashboard's grid source uses
  record,   \* the migration record in the Store
  call,     \* the service call in progress: its step, plan and copy of the record
  left,     \* the bounded events that may still happen
  origin    \* the preferences, and whether the kit was on, before any migration

world == <<today, kit, legacy, used, written, fixed>>
vars == <<world, rows, prefs, record, call, left, origin>>

-----------------------------------------------------------------------------
(* The record and the call *)

Stat == Role \cup {"net"}

NoProgress == [next |-> 0, sums |-> <<>>]
NoRecord == [status |-> "none", boundary |-> 0, sign |-> 0, exclude |-> FALSE, acknowledge |-> FALSE,
             backup |-> "none", applied |-> FALSE, turnedOff |-> FALSE, steps |-> {},
             progress |-> NoProgress, deleted |-> FALSE]

Steps == <<"copy", "rebase", "energy", "automations">>
NoPlan == [copy |-> <<>>, boundary |-> 0, sign |-> 0, exclude |-> FALSE,
           acknowledge |-> FALSE, switch |-> FALSE, kitOn |-> FALSE]
Idle == [pc |-> "idle", plan |-> NoPlan, record |-> NoRecord, todo |-> 0]

InForce == record.status \in {"in_progress", "completed"}

At(pc) == call.pc = pc
EndCall == call' = Idle
LockFree == call.pc \in {"idle", "begin"}

\* The first step that is not recorded as finished.
NextStep(steps) ==
  LET open == {i \in DOMAIN Steps : Steps[i] \notin steps} IN
  IF open = {} THEN "finish" ELSE Steps[Min(open)]

Spend(event) == left[event] > 0 /\ left' = [left EXCEPT ![event] = @ - 1]

Amounts(use) == [import |-> use.import, export |-> use.export,
                 cost |-> 2 * use.import, compensation |-> use.export,
                 net |-> 2 * use.import - use.export]

Init ==
  /\ today = 0 /\ written = FirstDay - 1
  /\ kit = [on |-> TRUE, total |-> [r \in Role |-> 0], due |-> {}, wrong |-> {}]
  /\ legacy = [r \in Role |-> <<>>] /\ rows = [s \in Stat |-> <<>>]
  /\ used = Use
  /\ fixed = [daily |-> Min(Charges), schedule |-> <<>>, rows |-> <<>>]
  /\ \E start \in Openings : prefs = start.prefs /\ left = start.left
  /\ record = NoRecord /\ call = Idle
  /\ origin = [prefs |-> prefs, kitOn |-> TRUE]

-----------------------------------------------------------------------------
(* The YAML kit: a row a day, unless it is off, stalls, resumes or is corrupted *)

HasSeries(role, day) == role \in Energy \/ day >= CostFrom[role]

\* What the kit adds for the days it takes in.
KitAdds(role, days) ==
  LET amount(d) == Amounts(used[d])[role] * (IF role = "compensation" THEN KitSign ELSE 1) IN
  MapThenSumSet(amount, {d \in days \ AmberGaps : HasSeries(role, d)})

KitWrites(roles, total) ==
  legacy' = [r \in Role |-> IF r \in roles /\ HasSeries(r, today + 1)
                            THEN legacy[r] @@ (today + 1 :> total[r]) ELSE legacy[r]]

KitTakesIn(days) == [r \in Role |-> kit.total[r] + KitAdds(r, days)]

\* The kit imports yesterday, and all the days it missed or none of them.
KitImports ==
  /\ kit.on
  /\ \E days \in {{today + 1}, kit.due \cup {today + 1}} :
       /\ KitWrites(Role, KitTakesIn(days))
       /\ kit' = [kit EXCEPT !.total = KitTakesIn(days), !.due = {}]
  /\ UNCHANGED left

\* One of its cost series has no row for the day: its next row has the day's cost too.
KitOmits ==
  /\ kit.on /\ Spend("stall")
  /\ \E role \in Role \ Energy :
       LET total == KitTakesIn({today + 1}) IN
       /\ KitWrites(Role \ {role}, total)
       /\ kit' = [kit EXCEPT !.total = total, !.due = {}]

KitMisses == kit' = [kit EXCEPT !.due = @ \cup {today + 1}]

\* Its source fails: it writes no row, or one that adds nothing.
KitStalls ==
  /\ kit.on /\ Spend("stall") /\ KitMisses
  /\ UNCHANGED legacy \/ KitWrites(Role, kit.total)

KitOff == ~kit.on /\ KitMisses /\ UNCHANGED <<legacy, left>>

\* One bad row, a total that jumps or starts again at 0, or a day miscounted.
KitCorrupts ==
  /\ kit.on /\ Spend("corrupt")
  /\ \E how \in {"spike", "jump", "reset", "wrong"} :
       LET plain == KitTakesIn({today + 1})
           by    == CASE how = "spike" -> Big [] how = "jump" -> Big
                      [] how = "reset" -> -kit.total["import"] [] how = "wrong" -> 1
           moved == [plain EXCEPT !["import"] = @ + by]
           wrong == IF how = "wrong" THEN {today + 1} ELSE {} IN
       /\ KitWrites(Role, moved)
       /\ kit' = [kit EXCEPT !.total = IF how = "spike" THEN plain ELSE moved, !.due = {},
                             !.wrong = @ \cup wrong]

DayEnds ==
  /\ today < MaxDay
  /\ KitImports \/ KitOmits \/ KitStalls \/ KitOff \/ KitCorrupts
  /\ today' = today + 1
  /\ UNCHANGED <<used, written, rows, fixed, prefs, record, call, origin>>

\* The user stops the kit before migrating.
StopKit ==
  /\ At("idle") /\ record.status = "none" /\ kit.on /\ Spend("stall")
  /\ kit' = [kit EXCEPT !.on = FALSE] /\ origin' = [origin EXCEPT !.kitOn = FALSE]
  /\ UNCHANGED <<today, legacy, used, written, rows, fixed, prefs, record, call>>

-----------------------------------------------------------------------------
(* The integration's runs *)

Put(old, day, amount, sum) == [d \in DOMAIN old \cup {day} |->
                                 IF d = day THEN [state |-> amount, sum |-> sum] ELSE old[d]]

\* The derived statistic is brought in line with the cost, under the charges set.
LastWritten(resolved) == Max({0} \cup (FirstDay..resolved \ AmberGaps))
SyncFixed(history, last) ==
  LET schedule == WithCharge(fixed.schedule, fixed.daily, last) IN
  [fixed EXCEPT !.schedule = schedule,
                !.rows = Synced([cost |-> history["cost"]], schedule, @)]

\* A run imports the next day: it continues the last row.  Its end syncs.
ImportDay ==
  /\ LockFree /\ written < today
  /\ written' = written + 1
  /\ rows' = IF written + 1 \in AmberGaps THEN rows
             ELSE [s \in Stat |-> Put(rows[s], written + 1, Amounts(used[written + 1])[s],
                                      SumAt(rows[s], written)
                                        + Amounts(used[written + 1])[s])]
  /\ fixed' = SyncFixed(rows', LastWritten(written + 1))
  /\ UNCHANGED <<today, kit, legacy, used, prefs, record, call, left, origin>>

\* The sums of days written again, in order, from the sum before the first.
Rewrite(old, first, amounts, before) ==
  [d \in DOMAIN old |->
     IF d < first THEN old[d]
     ELSE [state |-> amounts[d],
           sum |-> before + Over(amounts, {e \in DOMAIN old : first <= e /\ e <= d})]]

\* Amber revises a day, and the run rewrites from it, continuing the row before it.
\* Bound: not a day that an unfinished re-base has passed (what is lost there is told in
\* the README).
Passed(day) == record.status = "in_progress" /\ day < record.progress.next

Revise(day) ==
  /\ LockFree /\ FirstDay <= day /\ day <= written /\ day \in DOMAIN rows["import"]
  /\ ~Passed(day) /\ Spend("revise")
  /\ LET new == [used EXCEPT ![day].import = @ + 1] IN
     /\ used' = new
     /\ rows' = [s \in Stat |-> Rewrite(rows[s], day, [d \in Day |-> Amounts(new[d])[s]],
                                        SumAt(rows[s], day - 1))]
  /\ fixed' = SyncFixed(rows', LastWritten(written))
  /\ UNCHANGED <<today, kit, legacy, written, prefs, record, call, origin>>

\* The user sets other charges; then, after a migration's run, and with the export
\* measurements, the derived statistic is synced.
ChangeCharges ==
  /\ Spend("charge") /\ \E daily \in Charges : fixed' = [fixed EXCEPT !.daily = daily]
  /\ UNCHANGED <<today, kit, legacy, used, written, rows, prefs, record, call, origin>>

SyncDerived ==
  /\ LockFree /\ fixed' = SyncFixed(rows, LastWritten(written))
  /\ UNCHANGED <<today, kit, legacy, used, written, rows, prefs, record, call, left, origin>>

-----------------------------------------------------------------------------
(* The plan, made before the lock is taken; a refused call changes nothing *)

Resuming == record.status = "in_progress"

\* Where the integration's own rows begin: as an earlier run stored it, else the first row.
Boundary == IF record.status = "none" THEN FirstOf(rows["import"]) ELSE record.boundary

Ours == [r \in Role |-> [d \in {e \in DOMAIN rows[r] : e >= Boundary} |-> rows[r][d].state]]

Flagged == \E r \in Role : Scan(legacy[r], r).flagged # {}
Series(exclude) == [r \in Role |-> IF exclude THEN Scan(legacy[r], r).kept ELSE legacy[r]]

Sign(series) == IF Resuming THEN record.sign
                ELSE ExportSign(series["compensation"], Ours["compensation"])

\* The rows to copy, by statistic; those without any are left out.
CopyOf(series, sign) ==
  LET copy  == [r \in Role |-> CopyRows(series[r], IF r = "compensation" THEN sign ELSE 1,
                                        Boundary)]
      whole == copy @@ ("net" :> NetRows(copy["cost"], copy["compensation"])) IN
  [s \in {t \in Stat : whole[t] # <<>>} |-> whole[s]]

\* Does the Energy dashboard use the kit's statistics, and are its automations on?
SwitchesEnergy == prefs = "legacy"
AutomationsOn == kit.on

PlanFor(exclude, acknowledge) ==
  LET series == Series(exclude) IN
  [copy |-> CopyOf(series, Sign(series)), boundary |-> Boundary, sign |-> Sign(series),
   exclude |-> exclude, acknowledge |-> acknowledge,
   switch |-> SwitchesEnergy, kitOn |-> AutomationsOn]

Ready(exclude, acknowledge) ==
  LET parity == Parity(Series(exclude), Ours) IN
  /\ Flagged => exclude
  /\ parity.passed \/ (parity.unverified /\ acknowledge)

\* The kit's statistics are found, and the integration has imported a day.
Detected == legacy["import"] # <<>>
Imported == rows["import"] # <<>>

\* A real run is called; one in progress keeps its choices.
Migrate ==
  /\ At("idle") /\ record.status # "completed"
  /\ Detected /\ Imported
  /\ \E exclude, acknowledge \in BOOLEAN :
       /\ Resuming => exclude = record.exclude /\ acknowledge = record.acknowledge
       /\ Ready(exclude, acknowledge)
       /\ call' = [Idle EXCEPT !.pc = "begin", !.plan = PlanFor(exclude, acknowledge)]
  /\ UNCHANGED <<world, rows, prefs, record, left, origin>>

-----------------------------------------------------------------------------
(* A real run, under the lock: each finished step is saved in the record *)

Go(saved) == call' = [call EXCEPT !.pc = NextStep(saved.steps), !.record = saved, !.todo = 0]

FinishStep(name, changed) ==
  LET saved == [changed EXCEPT !.steps = @ \cup {name}] IN record' = saved /\ Go(saved)

NewRecord ==
  [NoRecord EXCEPT !.status = "in_progress", !.boundary = call.plan.boundary,
                   !.sign = call.plan.sign, !.exclude = call.plan.exclude,
                   !.acknowledge = call.plan.acknowledge, !.backup = prefs]

\* The lock is held: the record in progress is read again, or a new one is saved.
BeginAnew ==   \* mutant: a resumed run backs up what it has changed
  /\ At("begin") /\ record' = NewRecord
  /\ call' = [call EXCEPT !.pc = "backup", !.record = record]
  /\ UNCHANGED <<world, rows, prefs, left, origin>>
Begin ==
  /\ At("begin")
  /\ IF Resuming THEN Go(record) /\ UNCHANGED record
     ELSE record' = NewRecord /\ call' = [call EXCEPT !.pc = "backup", !.record = record]
  /\ UNCHANGED <<world, rows, prefs, left, origin>>

\* The saved backup reads back, or the record before it is put back.
CheckBackup ==
  /\ At("backup")
  /\ \/ Go(record) /\ UNCHANGED <<record, left>>
     \/ Spend("mismatch") /\ record' = call.record /\ EndCall
  /\ UNCHANGED <<world, rows, prefs, origin>>

\* The statistics in the order in which they are written.
StatOrder == <<"import", "export", "cost", "compensation", "net">>
InFirst(n) == {StatOrder[i] : i \in 1..n}

Copied(n) == [s \in Stat |-> IF s \in InFirst(n) \cap DOMAIN call.plan.copy
                             THEN call.plan.copy[s] @@ rows[s] ELSE rows[s]]

CopyHistory ==
  /\ At("copy")
  /\ rows' = Copied(Len(StatOrder))
  /\ FinishStep("copy", call.record)
  /\ UNCHANGED <<world, prefs, left, origin>>

\* Does each copied statistic's first own row continue the carry row?
SeamIn(history) ==
  \A s \in DOMAIN call.plan.copy :
    /\ {call.plan.boundary - 1, call.plan.boundary} \subseteq DOMAIN history[s]
    /\ LET first == history[s][call.plan.boundary] IN
       first.sum - first.state = history[s][call.plan.boundary - 1].sum
Seam == SeamIn(rows)

Started == call.record.progress.next # 0

\* The day a re-base has come to, and the sums it continues.
ToRebase ==
  LET from == IF Started THEN call.record.progress.next ELSE call.plan.boundary IN
  {d \in UNION {DOMAIN rows[s] : s \in Stat} : d >= from}
SumsFromCarry ==   \* mutant: a resumed re-base starts from the carry rows again
  [s \in Stat |-> IF call.plan.boundary - 1 \in DOMAIN rows[s]
                  THEN rows[s][call.plan.boundary - 1].sum ELSE 0]
Sums ==
  IF Started THEN call.record.progress.sums
  ELSE [s \in Stat |-> IF call.plan.boundary - 1 \in DOMAIN rows[s]
                       THEN rows[s][call.plan.boundary - 1].sum ELSE 0]

\* The first n statistics of the next day, written from their own amounts.
Rebased(n) ==
  LET day == Min(ToRebase) IN
  [s \in Stat |-> IF s \in InFirst(n) /\ day \in DOMAIN rows[s]
                  THEN Put(rows[s], day, rows[s][day].state, Sums[s] + rows[s][day].state)
                  ELSE rows[s]]

SkipRebase ==
  /\ At("rebase") /\ ~Started /\ Seam
  /\ FinishStep("rebase", call.record)
  /\ UNCHANGED <<world, rows, prefs, left, origin>>

Rebasing == At("rebase") /\ (Started \/ ~Seam) /\ ToRebase # {}

RebaseDay ==
  /\ Rebasing
  /\ LET day   == Min(ToRebase)
         whole == Rebased(Len(StatOrder))
         saved == [call.record EXCEPT !.progress =
                     [next |-> day + 1,
                      sums |-> [s \in Stat |-> IF day \in DOMAIN whole[s]
                                               THEN whole[s][day].sum ELSE Sums[s]]]] IN
     /\ rows' = whole
     /\ call' = [call EXCEPT !.pc = "progress", !.record = saved]
  /\ UNCHANGED <<world, prefs, record, left, origin>>

SaveProgress ==
  /\ At("progress")
  /\ record' = call.record /\ call' = [call EXCEPT !.pc = "rebase"]
  /\ UNCHANGED <<world, rows, prefs, left, origin>>

FinishRebase ==
  /\ At("rebase") /\ Started /\ ToRebase = {} /\ Seam
  /\ FinishStep("rebase", [call.record EXCEPT !.progress = NoProgress])
  /\ UNCHANGED <<world, rows, prefs, left, origin>>

\* The preferences after a change that reads back, and after one that does not.
SavedPrefs(readsBack) == IF readsBack THEN "new" ELSE call.record.backup

\* The preferences are changed, read back and recorded, or restored from the backup.
SwitchEnergy ==
  /\ At("energy") /\ call.plan.switch
  /\ \/ /\ prefs' = SavedPrefs(TRUE)
        /\ call' = [call EXCEPT !.pc = "switched", !.record.applied = TRUE]
        /\ UNCHANGED <<record, left>>
     \/ /\ Spend("mismatch")
        /\ prefs' = SavedPrefs(FALSE)
        /\ FinishStep("energy", call.record)
  /\ UNCHANGED <<world, rows, origin>>

SaveEnergy ==
  /\ At("switched") \/ (At("energy") /\ ~call.plan.switch)
  /\ FinishStep("energy", call.record)
  /\ UNCHANGED <<world, rows, prefs, left, origin>>

\* The kit's automations are turned off where the plan saw them on.
TurnOff ==
  /\ At("automations") /\ call.plan.kitOn
  /\ \/ /\ kit' = [kit EXCEPT !.on = FALSE]
        /\ call' = [call EXCEPT !.pc = "turned_off", !.record.turnedOff = kit.on]
        /\ UNCHANGED <<record, left>>
     \/ /\ Spend("mismatch")
        /\ FinishStep("automations", call.record)
        /\ UNCHANGED kit
  /\ UNCHANGED <<today, legacy, used, written, rows, fixed, prefs, origin>>

SaveAutomations ==
  /\ At("turned_off") \/ (At("automations") /\ ~call.plan.kitOn)
  /\ FinishStep("automations", call.record)
  /\ UNCHANGED <<world, rows, prefs, left, origin>>

Complete ==
  /\ At("finish")
  /\ record' = [call.record EXCEPT !.status = "completed"] /\ EndCall
  /\ UNCHANGED <<world, rows, prefs, left, origin>>

-----------------------------------------------------------------------------
(* Failures and stops *)

\* Bound: not when the first re-based day leaves the seam continuous but its progress
\* unsaved; a resumed run then skips the re-base (told in the README).
Resumable(history) == Started \/ ~SeamIn(history)

\* A day's write does not verify: what was written stays, and the run pauses.
Pause ==
  /\ Rebasing /\ Spend("pause")
  /\ \E n \in Partial : Resumable(Rebased(n)) /\ rows' = Rebased(n)
  /\ EndCall
  /\ UNCHANGED <<world, prefs, record, origin>>

\* Bound: not between a change outside the Store and the save that records it.
Unrecorded == At("switched") \/ At("turned_off")
              \/ (At("progress") /\ record.progress.next = 0)

\* Home Assistant stops; a copy or a day in progress is written in part.
Crash ==
  /\ ~At("idle") /\ ~Unrecorded /\ Spend("crash")
  /\ \/ rows' = rows
     \/ At("copy") /\ \E n \in Partial : rows' = Copied(n)
     \/ /\ Rebasing
        /\ \E n \in Partial : Resumable(Rebased(n)) /\ rows' = Rebased(n)
  /\ EndCall
  /\ UNCHANGED <<world, prefs, record, origin>>

-----------------------------------------------------------------------------
(* Undo, and the deletion of the kit's statistics *)

\* Bound: not during an unfinished re-base (what that leaves is told in the README).
MayUndo ==
  /\ At("idle") /\ InForce /\ ~record.deleted
  /\ record.status = "in_progress" => ("copy" \in record.steps) = ("rebase" \in record.steps)

RestoredPrefs == IF record.applied THEN record.backup ELSE prefs

Undo ==
  /\ MayUndo /\ Spend("undo")
  /\ prefs' = RestoredPrefs
  /\ kit' = [kit EXCEPT !.on = @ \/ record.turnedOff]
  /\ record' = [record EXCEPT !.status = "undone", !.applied = FALSE, !.turnedOff = FALSE]
  /\ UNCHANGED <<today, legacy, used, written, rows, fixed, call, origin>>

\* An automation does not turn back on, or Home Assistant stops: nothing is saved.
UndoFails ==
  /\ MayUndo /\ Spend("undo")
  /\ prefs' = RestoredPrefs
  /\ \E on \in {kit.on, kit.on \/ record.turnedOff} : kit' = [kit EXCEPT !.on = on]
  /\ UNCHANGED <<today, legacy, used, written, rows, fixed, record, call, origin>>

DeleteLegacy ==
  /\ At("idle") /\ record.status = "completed" /\ ~record.deleted
  /\ legacy' = [r \in Role |-> <<>>]
  /\ record' = [record EXCEPT !.deleted = TRUE]
  /\ UNCHANGED <<today, kit, used, written, rows, fixed, prefs, call, left, origin>>

-----------------------------------------------------------------------------

RunStep ==
  \/ Migrate \/ Begin \/ CheckBackup \/ CopyHistory
  \/ SkipRebase \/ RebaseDay \/ SaveProgress \/ FinishRebase
  \/ SwitchEnergy \/ SaveEnergy \/ TurnOff \/ SaveAutomations \/ Complete

Next ==
  \/ DayEnds \/ StopKit \/ ImportDay \/ (\E day \in Day : Revise(day))
  \/ ChangeCharges \/ SyncDerived
  \/ RunStep \/ Pause \/ Crash
  \/ Undo \/ UndoFails \/ DeleteLegacy

Spec == Init /\ [][Next]_vars
=============================================================================

--------------------------- MODULE MigrationProofs ---------------------------
(***************************************************************************)
(* Proofs about Migration: what a migration changes outside the Store, the *)
(* Energy preferences and the kit's automations, is what an undo puts      *)
(* back, for every history, every calendar and every number of events.     *)
(***************************************************************************)
EXTENDS MigrationProperties, TLAPS

-----------------------------------------------------------------------------
(* The shapes of the kit, of a record and of the call *)

KitShape ==
  /\ kit = [on |-> kit.on, total |-> kit.total, due |-> kit.due, wrong |-> kit.wrong]
  /\ kit.on \in BOOLEAN
RecordShape(r) ==
  /\ r = [status |-> r.status, boundary |-> r.boundary, sign |-> r.sign, exclude |-> r.exclude,
          acknowledge |-> r.acknowledge, backup |-> r.backup, applied |-> r.applied,
          turnedOff |-> r.turnedOff, steps |-> r.steps, progress |-> r.progress,
          deleted |-> r.deleted]
  /\ r.status \in {"none", "in_progress", "completed", "undone"}
  /\ r.applied \in BOOLEAN /\ r.turnedOff \in BOOLEAN
CallShape ==
  /\ call = [pc |-> call.pc, plan |-> call.plan, record |-> call.record, todo |-> call.todo]
  /\ RecordShape(call.record)
OriginShape ==
  origin = [prefs |-> origin.prefs, kitOn |-> origin.kitOn] /\ origin.kitOn \in BOOLEAN

Shapes == KitShape /\ RecordShape(record) /\ CallShape /\ OriginShape

-----------------------------------------------------------------------------
(* What the record says of the world *)

\* The steps of a run that has begun, and those between a change and its save.
RunningPcs == {"copy", "rebase", "progress", "energy", "switched", "automations", "turned_off",
               "finish"}
Pcs == {"idle", "begin", "backup"} \cup RunningPcs

\* A record with no migration in force has nothing to undo; one in force backs up what was
\* there before the first run, and says that the automations are off once their step is done.
Sound(r) ==
  IF r.status \in {"none", "undone"} THEN ~r.applied /\ ~r.turnedOff
  ELSE /\ r.backup = origin.prefs
       /\ r.turnedOff => origin.kitOn /\ "automations" \in r.steps

\* What is not recorded as changed is as it was, unless a change is about to be saved.
Matches ==
  /\ ~record.applied /\ ~At("switched") => prefs = origin.prefs
  /\ ~record.turnedOff /\ ~At("turned_off") => kit.on = origin.kitOn

\* The copy of the record that a run works on, and the one it falls back to.
CopyMatches ==
  /\ At("backup") => /\ record.status = "in_progress" /\ ~record.applied /\ ~record.turnedOff
                     /\ call.record.status \in {"none", "undone"} /\ Sound(call.record)
  /\ call.pc \in RunningPcs =>
       /\ record.status = "in_progress" /\ call.record.status = "in_progress"
       /\ call.record.backup = record.backup /\ call.record.steps = record.steps
       /\ At("switched") => call.record.applied
       /\ ~At("switched") => call.record.applied = record.applied
       /\ At("turned_off") => (call.record.turnedOff <=> origin.kitOn) /\ kit.on = FALSE
       /\ ~At("turned_off") => call.record.turnedOff = record.turnedOff
  /\ At("automations") \/ At("turned_off") => "automations" \notin record.steps
  /\ At("begin") => record.status # "completed"

OriginInv == Shapes /\ call.pc \in Pcs /\ Sound(record) /\ Matches /\ CopyMatches

LEMMA OriginInit == Init => OriginInv
<1> SUFFICES ASSUME Init
             PROVE  OriginInv
  OBVIOUS
<1>1. /\ kit = [on |-> TRUE, total |-> [r \in Role |-> 0], due |-> {}, wrong |-> {}]
      /\ record = NoRecord /\ call = Idle /\ origin = [prefs |-> prefs, kitOn |-> TRUE]
  BY DEF Init
<1>2. RecordShape(NoRecord) /\ Sound(NoRecord) /\ NoRecord.status = "none"
      /\ ~NoRecord.applied /\ ~NoRecord.turnedOff
  BY DEF RecordShape, NoRecord, Sound
<1>3. KitShape /\ OriginShape /\ kit.on = TRUE
  BY <1>1 DEF KitShape, OriginShape
<1>4. call = [pc |-> "idle", plan |-> NoPlan, record |-> NoRecord, todo |-> 0]
  BY <1>1 DEF Idle
<1>5. call.pc = "idle" /\ call.record = NoRecord /\ CallShape
  BY <1>2, <1>4 DEF CallShape
<1> QED
  BY <1>1, <1>2, <1>3, <1>5
     DEF OriginInv, Shapes, Pcs, RunningPcs, Matches, CopyMatches, At

\* Steps of the world that leave the kit's automations, the preferences and the records alone.
LEMMA WorldStays ==
  ASSUME OriginInv, KitShape', kit'.on = kit.on, UNCHANGED <<prefs, record, call, origin>>
  PROVE  OriginInv'
BY DEF OriginInv, Shapes, CallShape, OriginShape, RecordShape, Sound, Matches, CopyMatches, At

\* A day of the kit changes its totals and never turns it on or off.
LEMMA DayKeepsKit ==
  ASSUME KitShape, KitImports \/ KitOmits \/ KitStalls \/ KitOff \/ KitCorrupts
  PROVE  KitShape' /\ kit'.on = kit.on
<1>1. ASSUME NEW total, NEW due, NEW wrong,
             kit' = [kit EXCEPT !.total = total, !.due = due, !.wrong = wrong]
      PROVE  KitShape' /\ kit'.on = kit.on
  BY <1>1 DEF KitShape
<1>2. CASE KitImports \/ KitOmits
  <2>1. PICK total : kit' = [kit EXCEPT !.total = total, !.due = {}]
    BY <1>2 DEF KitImports, KitOmits
  <2>2. kit' = [kit EXCEPT !.total = total, !.due = {}, !.wrong = kit.wrong]
    BY <2>1 DEF KitShape
  <2> QED
    BY <1>1, <2>2
<1>3. CASE KitStalls \/ KitOff
  <2>1. kit' = [kit EXCEPT !.due = kit.due \cup {today + 1}]
    BY <1>3 DEF KitStalls, KitOff, KitMisses
  <2>2. kit' = [kit EXCEPT !.total = kit.total, !.due = kit.due \cup {today + 1},
                           !.wrong = kit.wrong]
    BY <2>1 DEF KitShape
  <2> QED
    BY <1>1, <2>2
<1>4. CASE KitCorrupts
  <2>1. PICK total, wrong : kit' = [kit EXCEPT !.total = total, !.due = {}, !.wrong = wrong]
    BY <1>4 DEF KitCorrupts
  <2> QED
    BY <1>1, <2>1
<1> QED
  BY <1>2, <1>3, <1>4

LEMMA SurroundingsStay ==
  ASSUME OriginInv,
         DayEnds \/ ImportDay \/ (\E day \in Day : Revise(day)) \/ ChangeCharges \/ SyncDerived
           \/ UNCHANGED vars
  PROVE  OriginInv'
<1>1. KitShape
  BY DEF OriginInv, Shapes
<1>2. CASE DayEnds
  <2>1. KitImports \/ KitOmits \/ KitStalls \/ KitOff \/ KitCorrupts
    BY <1>2 DEF DayEnds
  <2>2. UNCHANGED <<prefs, record, call, origin>>
    BY <1>2 DEF DayEnds
  <2> QED
    BY <1>1, <2>1, <2>2, DayKeepsKit, WorldStays
<1>3. CASE (\E day \in Day : Revise(day)) \/ ImportDay \/ ChangeCharges \/ SyncDerived
           \/ UNCHANGED vars
  <2>1. UNCHANGED <<kit, prefs, record, call, origin>>
    BY <1>3 DEF Revise, ImportDay, ChangeCharges, SyncDerived, vars, world
  <2>2. KitShape' /\ kit'.on = kit.on
    BY <1>1, <2>1 DEF KitShape
  <2> QED
    BY <2>1, <2>2, WorldStays
<1> QED
  BY <1>2, <1>3

\* The next step is one that is not finished, or the end.
LEMMA NextStepOpen ==
  ASSUME NEW steps
  PROVE  /\ NextStep(steps) \in {"copy", "rebase", "energy", "automations", "finish"}
         /\ NextStep(steps) = "automations" => "automations" \notin steps
<1> DEFINE open == {i \in DOMAIN Steps : Steps[i] \notin steps}
<1>1. DOMAIN Steps = 1..4 /\ Steps[1] = "copy" /\ Steps[2] = "rebase" /\ Steps[3] = "energy"
      /\ Steps[4] = "automations"
  BY DEF Steps
<1>2. CASE open = {}
  BY <1>2 DEF NextStep
<1>3. CASE open # {}
  <2>1. \E i \in open : \A j \in open : i <= j
    <3>1. open \subseteq {1, 2, 3, 4}
      BY <1>1
    <3>2. CASE 1 \in open
      BY <3>1, <3>2
    <3>3. CASE 1 \notin open /\ 2 \in open
      BY <3>1, <3>3
    <3>4. CASE 1 \notin open /\ 2 \notin open /\ 3 \in open
      BY <3>1, <3>4
    <3>5. CASE 1 \notin open /\ 2 \notin open /\ 3 \notin open
      BY <1>3, <3>1, <3>5
    <3> QED
      BY <3>2, <3>3, <3>4, <3>5
  <2>2. Min(open) \in open
    BY <2>1 DEF Min
  <2>3. NextStep(steps) = Steps[Min(open)]
    BY <1>3 DEF NextStep
  <2> HIDE DEF open
  <2>4. PICK i : i = Min(open)
    OBVIOUS
  <2>5. i \in DOMAIN Steps /\ Steps[i] \notin steps
    BY <2>2, <2>4 DEF open
  <2>6. i \in {1, 2, 3, 4}
    BY <1>1, <2>5
  <2> QED
    BY <1>1, <2>3, <2>4, <2>5, <2>6
<1> QED
  BY <1>2, <1>3

-----------------------------------------------------------------------------
(* The steps of a real run *)

\* A run at a step holds a copy of the record that says what the record says.
LEMMA RunningFacts ==
  ASSUME OriginInv, call.pc \in RunningPcs
  PROVE  /\ RecordShape(record) /\ RecordShape(call.record) /\ CallShape /\ KitShape /\ OriginShape
         /\ record.status = "in_progress" /\ call.record.status = "in_progress"
         /\ record.backup = origin.prefs /\ call.record.backup = origin.prefs
         /\ call.record.steps = record.steps
         /\ record.turnedOff => origin.kitOn /\ "automations" \in record.steps
BY DEF OriginInv, Shapes, CallShape, CopyMatches, Sound

\* Going on to the next step with what has been saved.
LEMMA GoingOn ==
  ASSUME OriginInv, KitShape', OriginShape', origin' = origin,
         NEW saved, RecordShape(saved), record' = saved, Go(saved),
         saved.status = "in_progress", saved.backup = origin.prefs,
         saved.turnedOff => origin.kitOn /\ "automations" \in saved.steps,
         ~saved.applied => prefs' = origin.prefs,
         ~saved.turnedOff => kit'.on = origin.kitOn
  PROVE  OriginInv'
<1> DEFINE next == NextStep(saved.steps)
<1>1. call' = [call EXCEPT !.pc = next, !.record = saved, !.todo = 0]
  BY DEF Go
<1>2. /\ next \in {"copy", "rebase", "energy", "automations", "finish"}
      /\ next = "automations" => "automations" \notin saved.steps
  BY NextStepOpen
<1> HIDE DEF next
<1>3. CallShape' /\ call'.pc = next /\ call'.record = saved
  <2>1. call = [pc |-> call.pc, plan |-> call.plan, record |-> call.record, todo |-> call.todo]
    BY DEF OriginInv, Shapes, CallShape
  <2>2. call' = [pc |-> next, plan |-> call.plan, record |-> saved, todo |-> 0]
    BY <1>1, <2>1
  <2>3. call'.pc = next /\ call'.record = saved /\ call'.plan = call.plan /\ call'.todo = 0
    BY <2>2
  <2> QED
    BY <2>2, <2>3 DEF CallShape, RecordShape
<1>4. Shapes'
  BY <1>3 DEF Shapes, RecordShape
<1>5. Sound(record)'
  BY DEF Sound
<1>6. Matches'
  BY DEF Matches
<1>7. CopyMatches'
  BY <1>2, <1>3 DEF CopyMatches, At, RunningPcs
<1>8. call'.pc \in Pcs
  BY <1>2, <1>3 DEF Pcs, RunningPcs
<1> QED
  BY <1>4, <1>5, <1>6, <1>7, <1>8 DEF OriginInv

\* A new record backs up the preferences and says that nothing has been changed.
LEMMA NewRecordFacts ==
  /\ RecordShape(NewRecord) /\ NewRecord.status = "in_progress" /\ NewRecord.backup = prefs
  /\ ~NewRecord.applied /\ ~NewRecord.turnedOff
<1>1. /\ DOMAIN NoRecord = {"status", "boundary", "sign", "exclude", "acknowledge", "backup",
                            "applied", "turnedOff", "steps", "progress", "deleted"}
      /\ ~NoRecord.applied /\ ~NoRecord.turnedOff
      /\ NoRecord.applied \in BOOLEAN /\ NoRecord.turnedOff \in BOOLEAN
  BY DEF NoRecord
<1>2. /\ NewRecord.status = "in_progress" /\ NewRecord.backup = prefs
      /\ NewRecord.applied = NoRecord.applied /\ NewRecord.turnedOff = NoRecord.turnedOff
  BY <1>1 DEF NewRecord
<1>3. NewRecord = [x \in DOMAIN NoRecord |-> NewRecord[x]]
  BY DEF NewRecord
<1>4. NewRecord =
        [status |-> NewRecord.status, boundary |-> NewRecord.boundary, sign |-> NewRecord.sign,
         exclude |-> NewRecord.exclude, acknowledge |-> NewRecord.acknowledge,
         backup |-> NewRecord.backup, applied |-> NewRecord.applied,
         turnedOff |-> NewRecord.turnedOff, steps |-> NewRecord.steps,
         progress |-> NewRecord.progress, deleted |-> NewRecord.deleted]
  BY <1>1, <1>3
<1> QED
  BY <1>1, <1>2, <1>4, Zenon DEF RecordShape

\* Changing one field of a record leaves the others.
LEMMA StepsChange ==
  ASSUME NEW r, RecordShape(r), NEW steps
  PROVE  LET c == [r EXCEPT !.steps = steps] IN
         /\ RecordShape(c) /\ c.status = r.status /\ c.backup = r.backup /\ c.steps = steps
         /\ c.applied = r.applied /\ c.turnedOff = r.turnedOff
<1> DEFINE c == [r EXCEPT !.steps = steps]
<1>1. c = [status |-> r.status, boundary |-> r.boundary, sign |-> r.sign, exclude |-> r.exclude,
           acknowledge |-> r.acknowledge, backup |-> r.backup, applied |-> r.applied,
           turnedOff |-> r.turnedOff, steps |-> steps, progress |-> r.progress,
           deleted |-> r.deleted]
  BY DEF RecordShape
<1> HIDE DEF c
<1>2. /\ c.status = r.status /\ c.boundary = r.boundary /\ c.sign = r.sign
      /\ c.exclude = r.exclude /\ c.acknowledge = r.acknowledge /\ c.backup = r.backup
      /\ c.applied = r.applied /\ c.turnedOff = r.turnedOff /\ c.steps = steps
      /\ c.progress = r.progress /\ c.deleted = r.deleted
  BY <1>1
<1> QED
  BY <1>1, <1>2 DEF RecordShape, c

LEMMA AppliedChange ==
  ASSUME NEW r, RecordShape(r)
  PROVE  LET c == [r EXCEPT !.applied = TRUE] IN
         /\ RecordShape(c) /\ c.status = r.status /\ c.backup = r.backup /\ c.steps = r.steps
         /\ c.applied /\ c.turnedOff = r.turnedOff
<1>0. PICK on \in BOOLEAN : on = TRUE
  OBVIOUS
<1> DEFINE c == [r EXCEPT !.applied = on]
<1>1. c = [status |-> r.status, boundary |-> r.boundary, sign |-> r.sign, exclude |-> r.exclude,
           acknowledge |-> r.acknowledge, backup |-> r.backup, applied |-> on,
           turnedOff |-> r.turnedOff, steps |-> r.steps, progress |-> r.progress,
           deleted |-> r.deleted]
  BY DEF RecordShape
<1> HIDE DEF c
<1>2. /\ c.status = r.status /\ c.boundary = r.boundary /\ c.sign = r.sign
      /\ c.exclude = r.exclude /\ c.acknowledge = r.acknowledge /\ c.backup = r.backup
      /\ c.applied = on /\ c.turnedOff = r.turnedOff /\ c.steps = r.steps
      /\ c.progress = r.progress /\ c.deleted = r.deleted
  BY <1>1
<1>3. /\ RecordShape(c) /\ c.status = r.status /\ c.backup = r.backup /\ c.steps = r.steps
      /\ c.applied /\ c.turnedOff = r.turnedOff
  BY <1>0, <1>1, <1>2 DEF RecordShape
<1>4. c = [r EXCEPT !.applied = TRUE]
  BY <1>0, Zenon DEF c
<1> QED
  BY <1>3, <1>4, Zenon

LEMMA TurnedOffChange ==
  ASSUME NEW r, RecordShape(r), NEW on \in BOOLEAN
  PROVE  LET c == [r EXCEPT !.turnedOff = on] IN
         /\ RecordShape(c) /\ c.status = r.status /\ c.backup = r.backup /\ c.steps = r.steps
         /\ c.applied = r.applied /\ c.turnedOff = on
<1> DEFINE c == [r EXCEPT !.turnedOff = on]
<1>1. c = [status |-> r.status, boundary |-> r.boundary, sign |-> r.sign, exclude |-> r.exclude,
           acknowledge |-> r.acknowledge, backup |-> r.backup, applied |-> r.applied,
           turnedOff |-> on, steps |-> r.steps, progress |-> r.progress,
           deleted |-> r.deleted]
  BY DEF RecordShape
<1> HIDE DEF c
<1>2. /\ c.status = r.status /\ c.boundary = r.boundary /\ c.sign = r.sign
      /\ c.exclude = r.exclude /\ c.acknowledge = r.acknowledge /\ c.backup = r.backup
      /\ c.applied = r.applied /\ c.turnedOff = on /\ c.steps = r.steps
      /\ c.progress = r.progress /\ c.deleted = r.deleted
  BY <1>1
<1> QED
  BY <1>1, <1>2 DEF RecordShape, c

\* A step that only moves between two steps of the run and leaves the rest alone.
LEMMA MovingOn ==
  ASSUME OriginInv, call.pc \in RunningPcs, NEW pc \in RunningPcs, NEW r, RecordShape(r),
         call' = [call EXCEPT !.pc = pc, !.record = r]
  PROVE  CallShape' /\ call'.pc = pc /\ call'.record = r
<1>1. call = [pc |-> call.pc, plan |-> call.plan, record |-> call.record, todo |-> call.todo]
  BY DEF OriginInv, Shapes, CallShape
<1>2. call' = [pc |-> pc, plan |-> call.plan, record |-> r, todo |-> call.todo]
  BY <1>1
<1>3. call'.pc = pc /\ call'.record = r /\ call'.plan = call.plan /\ call'.todo = call.todo
  BY <1>2
<1> QED
  BY <1>2, <1>3 DEF CallShape, RecordShape

LEMMA CopyAndRebaseStay ==
  ASSUME OriginInv,
         CopyHistory \/ SkipRebase \/ RebaseDay \/ SaveProgress \/ FinishRebase
  PROVE  OriginInv'
<1>1. call.pc \in {"copy", "rebase", "progress"}
  BY DEF CopyHistory, SkipRebase, RebaseDay, Rebasing, SaveProgress, FinishRebase, At
<1>2. UNCHANGED <<kit, prefs, origin>>
  BY DEF CopyHistory, SkipRebase, RebaseDay, SaveProgress, FinishRebase, world
<1>3. /\ RecordShape(call.record) /\ RecordShape(record) /\ KitShape /\ OriginShape
      /\ record.status = "in_progress" /\ call.record.status = "in_progress"
      /\ call.record.backup = origin.prefs /\ record.backup = origin.prefs
      /\ call.record.steps = record.steps
      /\ record.turnedOff => origin.kitOn /\ "automations" \in record.steps
  BY <1>1, RunningFacts DEF RunningPcs
<1>4. /\ call.record.applied = record.applied /\ call.record.turnedOff = record.turnedOff
      /\ ~record.applied => prefs = origin.prefs
      /\ ~record.turnedOff => kit.on = origin.kitOn
  BY <1>1 DEF OriginInv, CopyMatches, Matches, RunningPcs, At
<1>5. KitShape' /\ OriginShape'
  BY <1>2, <1>3 DEF KitShape, OriginShape
<1>6. CASE CopyHistory \/ SkipRebase \/ FinishRebase
  <2> DEFINE saved(name, changed) == [changed EXCEPT !.steps = @ \cup {name}]
  <2>1. PICK name, changed : /\ FinishStep(name, changed)
                             /\ changed = call.record
                                \/ changed = [call.record EXCEPT !.progress = NoProgress]
    BY <1>6 DEF CopyHistory, SkipRebase, FinishRebase
  <2>2. /\ RecordShape(changed) /\ changed.status = "in_progress"
        /\ changed.backup = origin.prefs /\ changed.steps = record.steps
        /\ changed.applied = record.applied /\ changed.turnedOff = record.turnedOff
    BY <1>3, <1>4, <2>1 DEF RecordShape
  <2>3. /\ RecordShape(saved(name, changed)) /\ saved(name, changed).status = "in_progress"
        /\ saved(name, changed).backup = origin.prefs
        /\ saved(name, changed).steps = record.steps \cup {name}
        /\ saved(name, changed).applied = record.applied
        /\ saved(name, changed).turnedOff = record.turnedOff
    BY <2>2 DEF RecordShape
  <2>4. record' = saved(name, changed) /\ Go(saved(name, changed))
    BY <2>1 DEF FinishStep
  <2> HIDE DEF saved
  <2> QED
    BY <1>2, <1>3, <1>4, <1>5, <2>3, <2>4, GoingOn
<1>7. CASE RebaseDay
  <2>1. PICK progress : call' = [call EXCEPT !.pc = "progress",
                                             !.record = [call.record EXCEPT !.progress = progress]]
    BY <1>7 DEF RebaseDay
  <2> DEFINE r == [call.record EXCEPT !.progress = progress]
  <2>2. /\ RecordShape(r) /\ r.status = "in_progress" /\ r.backup = origin.prefs
        /\ r.steps = record.steps /\ r.applied = record.applied /\ r.turnedOff = record.turnedOff
    BY <1>3, <1>4 DEF RecordShape
  <2>3. call' = [call EXCEPT !.pc = "progress", !.record = r]
    BY <2>1
  <2> HIDE DEF r
  <2>4. CallShape' /\ call'.pc = "progress" /\ call'.record = r
    BY <1>1, <2>2, <2>3, MovingOn DEF RunningPcs
  <2>5. record' = record
    BY <1>7 DEF RebaseDay
  <2>6. Shapes' /\ Sound(record)' /\ Matches'
    BY <1>2, <1>3, <1>4, <1>5, <2>4, <2>5 DEF Shapes, RecordShape, Sound, Matches
  <2>7. CopyMatches' /\ call'.pc \in Pcs
    BY <1>2, <1>3, <1>4, <2>2, <2>4, <2>5 DEF CopyMatches, At, RunningPcs, Pcs
  <2> QED
    BY <2>6, <2>7 DEF OriginInv
<1>8. CASE SaveProgress
  <2>1. call' = [call EXCEPT !.pc = "rebase"] /\ record' = call.record
    BY <1>8 DEF SaveProgress
  <2>2. call' = [call EXCEPT !.pc = "rebase", !.record = call.record]
    <3>1. call = [pc |-> call.pc, plan |-> call.plan, record |-> call.record, todo |-> call.todo]
      BY DEF OriginInv, Shapes, CallShape
    <3> QED
      BY <2>1, <3>1
  <2>3. CallShape' /\ call'.pc = "rebase" /\ call'.record = call.record
    BY <1>1, <1>3, <2>2, MovingOn DEF RunningPcs
  <2>4. Shapes' /\ Sound(record)' /\ Matches'
    BY <1>2, <1>3, <1>4, <1>5, <2>1, <2>3 DEF Shapes, RecordShape, Sound, Matches
  <2>5. CopyMatches' /\ call'.pc \in Pcs
    BY <1>2, <1>3, <1>4, <2>1, <2>3 DEF CopyMatches, At, RunningPcs, Pcs
  <2> QED
    BY <2>4, <2>5 DEF OriginInv
<1> QED
  BY <1>6, <1>7, <1>8

\* The preferences: changed and then recorded, or restored from the backup.
LEMMA EnergyStays ==
  ASSUME OriginInv, SwitchEnergy \/ SaveEnergy
  PROVE  OriginInv'
<1>1. call.pc \in {"energy", "switched"}
  BY DEF SwitchEnergy, SaveEnergy, At
<1>2. UNCHANGED <<kit, origin>>
  BY DEF SwitchEnergy, SaveEnergy, world
<1>3. /\ RecordShape(call.record) /\ RecordShape(record) /\ KitShape /\ OriginShape
      /\ record.status = "in_progress" /\ call.record.status = "in_progress"
      /\ call.record.backup = origin.prefs /\ record.backup = origin.prefs
      /\ call.record.steps = record.steps
      /\ record.turnedOff => origin.kitOn /\ "automations" \in record.steps
  BY <1>1, RunningFacts DEF RunningPcs
<1>4. /\ call.record.turnedOff = record.turnedOff
      /\ ~record.turnedOff => kit.on = origin.kitOn
      /\ At("switched") => call.record.applied
      /\ ~At("switched") => call.record.applied = record.applied
      /\ ~record.applied /\ ~At("switched") => prefs = origin.prefs
  BY <1>1 DEF OriginInv, CopyMatches, Matches, RunningPcs, At
<1>5. KitShape' /\ OriginShape'
  BY <1>2, <1>3 DEF KitShape, OriginShape
<1>6. ASSUME FinishStep("energy", call.record), ~call.record.applied => prefs' = origin.prefs
      PROVE  OriginInv'
  <2> DEFINE saved == [call.record EXCEPT !.steps = @ \cup {"energy"}]
  <2>1. /\ RecordShape(saved) /\ saved.status = "in_progress"
        /\ saved.backup = origin.prefs /\ saved.steps = record.steps \cup {"energy"}
        /\ saved.applied = call.record.applied /\ saved.turnedOff = record.turnedOff
    BY <1>3, <1>4, StepsChange
  <2>2. record' = saved /\ Go(saved)
    BY <1>6 DEF FinishStep
  <2> HIDE DEF saved
  <2> QED
    BY <1>2, <1>3, <1>4, <1>5, <1>6, <2>1, <2>2, GoingOn
<1>7. CASE SaveEnergy
  BY <1>1, <1>4, <1>6, <1>7 DEF SaveEnergy
<1>8. CASE SwitchEnergy /\ FinishStep("energy", call.record) /\ prefs' = SavedPrefs(FALSE)
  <2>1. prefs' = origin.prefs
    BY <1>3, <1>8 DEF SavedPrefs
  <2> QED
    BY <1>6, <1>8, <2>1
<1>9. CASE /\ SwitchEnergy /\ record' = record
           /\ call' = [call EXCEPT !.pc = "switched", !.record.applied = TRUE]
  <2> DEFINE r == [call.record EXCEPT !.applied = TRUE]
  <2>1. /\ RecordShape(r) /\ r.status = "in_progress" /\ r.backup = origin.prefs
        /\ r.steps = record.steps /\ r.applied /\ r.turnedOff = record.turnedOff
    BY <1>3, <1>4, AppliedChange
  <2>2. call' = [call EXCEPT !.pc = "switched", !.record = r]
    <3>1. call = [pc |-> call.pc, plan |-> call.plan, record |-> call.record, todo |-> call.todo]
      BY DEF OriginInv, Shapes, CallShape
    <3> QED
      BY <1>9, <3>1
  <2> HIDE DEF r
  <2>3. CallShape' /\ call'.pc = "switched" /\ call'.record = r
    BY <1>1, <2>1, <2>2, MovingOn DEF RunningPcs
  <2>4. Shapes' /\ Sound(record)'
    BY <1>2, <1>3, <1>5, <1>9, <2>3 DEF Shapes, RecordShape, Sound
  <2>5. Matches'
    BY <1>2, <1>4, <1>9, <2>3 DEF Matches, At
  <2>6. CopyMatches' /\ call'.pc \in Pcs
    BY <1>2, <1>3, <1>4, <1>9, <2>1, <2>3 DEF CopyMatches, At, RunningPcs, Pcs
  <2> QED
    BY <2>4, <2>5, <2>6 DEF OriginInv
<1>10. CASE SwitchEnergy
  BY <1>8, <1>9, <1>10 DEF SwitchEnergy
<1> QED
  BY <1>7, <1>10

\* The automations: turned off and then recorded as the step found them.
LEMMA AutomationsStay ==
  ASSUME OriginInv, TurnOff \/ SaveAutomations
  PROVE  OriginInv'
<1>1. call.pc \in {"automations", "turned_off"}
  BY DEF TurnOff, SaveAutomations, At
<1>2. UNCHANGED <<prefs, origin>>
  BY DEF TurnOff, SaveAutomations, world
<1>3. /\ RecordShape(call.record) /\ RecordShape(record) /\ KitShape /\ OriginShape
      /\ record.status = "in_progress" /\ call.record.status = "in_progress"
      /\ call.record.backup = origin.prefs /\ record.backup = origin.prefs
      /\ call.record.steps = record.steps
      /\ record.turnedOff => origin.kitOn /\ "automations" \in record.steps
  BY <1>1, RunningFacts DEF RunningPcs
<1>4. /\ ~record.turnedOff /\ "automations" \notin record.steps
      /\ At("turned_off") => (call.record.turnedOff <=> origin.kitOn) /\ kit.on = FALSE
      /\ ~At("turned_off") => call.record.turnedOff = FALSE /\ kit.on = origin.kitOn
      /\ call.record.applied = record.applied
      /\ ~record.applied => prefs = origin.prefs
  BY <1>1, <1>3 DEF OriginInv, CopyMatches, Matches, RunningPcs, At, RecordShape
<1>5. OriginShape' /\ kit.on \in BOOLEAN
  BY <1>2, <1>3 DEF OriginShape, KitShape
<1>6. ASSUME FinishStep("automations", call.record), KitShape', kit'.on = kit.on,
             ~call.record.turnedOff => kit.on = origin.kitOn,
             call.record.turnedOff => origin.kitOn
      PROVE  OriginInv'
  <2> DEFINE saved == [call.record EXCEPT !.steps = @ \cup {"automations"}]
  <2>1. /\ RecordShape(saved) /\ saved.status = "in_progress"
        /\ saved.backup = origin.prefs /\ "automations" \in saved.steps
        /\ saved.applied = record.applied /\ saved.turnedOff = call.record.turnedOff
    BY <1>3, <1>4, StepsChange
  <2>2. record' = saved /\ Go(saved)
    BY <1>6 DEF FinishStep
  <2> HIDE DEF saved
  <2> QED
    BY <1>2, <1>3, <1>4, <1>5, <1>6, <2>1, <2>2, GoingOn
<1>7. CASE SaveAutomations
  <2>1. kit' = kit /\ FinishStep("automations", call.record)
    BY <1>7 DEF SaveAutomations, world
  <2>2. KitShape' /\ kit'.on = kit.on
    BY <1>3, <2>1 DEF KitShape
  <2>3. ~call.record.turnedOff => kit.on = origin.kitOn
    BY <1>3, <1>4 DEF OriginShape
  <2> QED
    BY <1>3, <1>4, <1>6, <2>1, <2>2, <2>3
<1>8. CASE TurnOff /\ FinishStep("automations", call.record) /\ kit' = kit
  <2>1. KitShape' /\ kit'.on = kit.on
    BY <1>3, <1>8 DEF KitShape
  <2>2. ~At("turned_off")
    BY <1>8 DEF TurnOff, At
  <2> QED
    BY <1>4, <1>6, <1>8, <2>1, <2>2
<1>9. CASE /\ TurnOff /\ record' = record /\ kit' = [kit EXCEPT !.on = FALSE]
           /\ call' = [call EXCEPT !.pc = "turned_off", !.record.turnedOff = kit.on]
  <2> DEFINE r == [call.record EXCEPT !.turnedOff = kit.on]
  <2>1. /\ RecordShape(r) /\ r.status = "in_progress" /\ r.backup = origin.prefs
        /\ r.steps = record.steps /\ r.applied = record.applied /\ (r.turnedOff <=> kit.on)
    BY <1>3, <1>4, <1>5, TurnedOffChange
  <2>2. call' = [call EXCEPT !.pc = "turned_off", !.record = r]
    <3>1. call = [pc |-> call.pc, plan |-> call.plan, record |-> call.record, todo |-> call.todo]
      BY DEF OriginInv, Shapes, CallShape
    <3> QED
      BY <1>9, <3>1
  <2> HIDE DEF r
  <2>3. CallShape' /\ call'.pc = "turned_off" /\ call'.record = r
    BY <1>1, <2>1, <2>2, MovingOn DEF RunningPcs
  <2>4. KitShape'
    BY <1>3, <1>9 DEF KitShape
  <2>5. Shapes' /\ Sound(record)'
    BY <1>2, <1>3, <1>5, <1>9, <2>3, <2>4 DEF Shapes, RecordShape, Sound
  <2>6. Matches'
    BY <1>2, <1>4, <1>9, <2>3 DEF Matches, At
  <2>7. kit.on = origin.kitOn
    BY <1>4, <1>9 DEF TurnOff, At
  <2>8. CopyMatches' /\ call'.pc \in Pcs
    BY <1>2, <1>3, <1>4, <1>9, <2>1, <2>3, <2>7 DEF CopyMatches, At, RunningPcs, Pcs
  <2> QED
    BY <2>5, <2>6, <2>8 DEF OriginInv
<1>10. CASE TurnOff
  BY <1>8, <1>9, <1>10 DEF TurnOff
<1> QED
  BY <1>7, <1>10

-----------------------------------------------------------------------------
(* The ends of a call *)

\* A call that ends, as planned or not, leaves no copy of the record behind.
LEMMA EndingCall ==
  ASSUME OriginInv, EndCall, RecordShape(record)', Sound(record)', KitShape', OriginShape',
         ~record'.applied => prefs' = origin'.prefs,
         ~record'.turnedOff => kit'.on = origin'.kitOn
  PROVE  OriginInv'
<1>1. call' = [pc |-> "idle", plan |-> NoPlan, record |-> NoRecord, todo |-> 0]
  BY DEF EndCall, Idle
<1>2. call'.pc = "idle" /\ call'.record = NoRecord /\ CallShape'
  <2>1. RecordShape(NoRecord)
    BY DEF RecordShape, NoRecord
  <2>2. call'.pc = "idle" /\ call'.record = NoRecord /\ call'.plan = NoPlan /\ call'.todo = 0
    BY <1>1
  <2> QED
    BY <1>1, <2>1, <2>2 DEF CallShape, RecordShape
<1> QED
  BY <1>2 DEF OriginInv, Shapes, Pcs, RunningPcs, Matches, CopyMatches, At

LEMMA PlanStays ==
  ASSUME OriginInv, Migrate \/ Begin \/ CheckBackup
  PROVE  OriginInv'
<1>1. /\ RecordShape(record) /\ CallShape /\ KitShape /\ OriginShape /\ Sound(record)
      /\ Matches /\ CopyMatches /\ RecordShape(call.record)
  BY DEF OriginInv, Shapes, CallShape
<1>2. UNCHANGED <<kit, prefs, origin>> /\ KitShape' /\ OriginShape'
  <2>1. UNCHANGED <<kit, prefs, origin>>
    BY DEF Migrate, Begin, CheckBackup, world
  <2> QED
    BY <1>1, <2>1 DEF KitShape, OriginShape
<1>3. CASE Migrate
  <2>1. PICK plan : call' = [Idle EXCEPT !.pc = "begin", !.plan = plan]
    BY <1>3 DEF Migrate
  <2>2. call' = [pc |-> "begin", plan |-> plan, record |-> NoRecord, todo |-> 0]
    BY <2>1 DEF Idle
  <2>3. CallShape' /\ call'.pc = "begin"
    <3>1. RecordShape(NoRecord)
      BY DEF RecordShape, NoRecord
    <3>2. call'.pc = "begin" /\ call'.record = NoRecord /\ call'.plan = plan /\ call'.todo = 0
      BY <2>2
    <3> QED
      BY <2>2, <3>1, <3>2 DEF CallShape, RecordShape
  <2>4. record' = record /\ record.status # "completed" /\ At("idle")
    BY <1>3 DEF Migrate
  <2>5. Shapes' /\ Sound(record)'
    BY <1>1, <1>2, <2>3, <2>4 DEF Shapes, RecordShape, Sound
  <2> QED
    BY <1>1, <1>2, <2>3, <2>4, <2>5 DEF OriginInv, Matches, CopyMatches, At, Pcs, RunningPcs
<1>4. CASE Begin /\ Resuming
  <2>1. Go(record) /\ record' = record /\ record.status = "in_progress" /\ At("begin")
    BY <1>4 DEF Begin, Resuming
  <2>2. /\ ~record.applied => prefs = origin.prefs
        /\ ~record.turnedOff => kit.on = origin.kitOn
    BY <1>1, <2>1 DEF Matches, At
  <2>3. record.backup = origin.prefs
        /\ (record.turnedOff => origin.kitOn /\ "automations" \in record.steps)
    BY <1>1, <2>1 DEF Sound
  <2> QED
    BY <1>1, <1>2, <2>1, <2>2, <2>3, GoingOn
<1>5. CASE Begin /\ ~Resuming
  <2>1. /\ record' = NewRecord /\ call' = [call EXCEPT !.pc = "backup", !.record = record]
        /\ At("begin")
    BY <1>5 DEF Begin
  <2>2. record.status \in {"none", "undone"}
    BY <1>1, <1>5, <2>1 DEF CopyMatches, Resuming, RecordShape
  <2>3. prefs = origin.prefs /\ kit.on = origin.kitOn /\ ~record.applied /\ ~record.turnedOff
    BY <1>1, <2>1, <2>2 DEF Sound, Matches, At
  <2>4. /\ RecordShape(NewRecord) /\ NewRecord.status = "in_progress" /\ ~NewRecord.applied
        /\ ~NewRecord.turnedOff /\ NewRecord.backup = prefs
    BY NewRecordFacts
  <2>5. CallShape' /\ call'.pc = "backup" /\ call'.record = record
    <3>0. call = [pc |-> call.pc, plan |-> call.plan, record |-> call.record, todo |-> call.todo]
      BY <1>1 DEF CallShape
    <3>1. call' = [pc |-> "backup", plan |-> call.plan, record |-> record, todo |-> call.todo]
      BY <2>1, <3>0
    <3>2. /\ call'.pc = "backup" /\ call'.record = record /\ call'.plan = call.plan
          /\ call'.todo = call.todo
      BY <3>1
    <3> QED
      BY <1>1, <3>1, <3>2 DEF CallShape, RecordShape
  <2> HIDE DEF NewRecord
  <2>6. Shapes' /\ Sound(record)' /\ Matches'
    BY <1>2, <2>1, <2>3, <2>4, <2>5 DEF Shapes, RecordShape, Sound, Matches
  <2>7. CopyMatches' /\ call'.pc \in Pcs
    BY <1>1, <1>2, <2>1, <2>2, <2>3, <2>4, <2>5 DEF CopyMatches, Sound, At, RunningPcs, Pcs
  <2> QED
    BY <2>6, <2>7 DEF OriginInv
<1>6. CASE CheckBackup
  <2>1. /\ record.status = "in_progress" /\ ~record.applied /\ ~record.turnedOff
        /\ call.record.status \in {"none", "undone"} /\ Sound(call.record)
        /\ prefs = origin.prefs /\ kit.on = origin.kitOn /\ record.backup = origin.prefs
    BY <1>1, <1>6 DEF CheckBackup, CopyMatches, Matches, Sound, At
  <2>2. CASE Go(record) /\ record' = record
    BY <1>1, <1>2, <2>1, <2>2, GoingOn
  <2>3. CASE record' = call.record /\ EndCall
    <3>1. RecordShape(record)' /\ Sound(record)'
      BY <1>1, <1>2, <2>1, <2>3 DEF RecordShape, Sound
    <3> QED
      BY <1>2, <2>1, <2>3, <3>1, EndingCall
  <2> QED
    BY <1>6, <2>2, <2>3 DEF CheckBackup
<1> QED
  BY <1>3, <1>4, <1>5, <1>6

\* A run ends, pauses or is stopped; the record says what has been changed outside it.
LEMMA EndsStay ==
  ASSUME OriginInv, Complete \/ Pause \/ Crash
  PROVE  OriginInv'
<1>1. /\ RecordShape(record) /\ KitShape /\ OriginShape /\ Sound(record) /\ Matches /\ CopyMatches
      /\ RecordShape(call.record)
  BY DEF OriginInv, Shapes, CallShape
<1>2. UNCHANGED <<kit, prefs, origin>> /\ EndCall
  BY DEF Complete, Pause, Crash, world
<1>3. KitShape' /\ OriginShape'
  BY <1>1, <1>2 DEF KitShape, OriginShape
<1>4. ~At("switched") /\ ~At("turned_off")
  BY DEF Complete, Pause, Rebasing, Crash, Unrecorded, At
<1>5. /\ ~record.applied => prefs = origin.prefs
      /\ ~record.turnedOff => kit.on = origin.kitOn
  BY <1>1, <1>4 DEF Matches
<1>6. CASE Pause \/ Crash
  <2>1. record' = record
    BY <1>6 DEF Pause, Crash
  <2>2. RecordShape(record)' /\ Sound(record)'
    BY <1>1, <1>2, <2>1 DEF RecordShape, Sound
  <2> QED
    BY <1>2, <1>3, <1>5, <2>1, <2>2, EndingCall
<1>7. CASE Complete
  <2>1. record' = [call.record EXCEPT !.status = "completed"] /\ call.pc \in RunningPcs
    BY <1>7 DEF Complete, At, RunningPcs
  <2>2. /\ call.record.backup = origin.prefs /\ call.record.steps = record.steps
        /\ call.record.applied = record.applied /\ call.record.turnedOff = record.turnedOff
        /\ record.turnedOff => origin.kitOn /\ "automations" \in record.steps
    BY <1>1, <1>4, <2>1, RunningFacts DEF CopyMatches
  <2>3. /\ RecordShape(record') /\ record'.status = "completed" /\ record'.backup = origin.prefs
        /\ record'.steps = record.steps /\ record'.applied = record.applied
        /\ record'.turnedOff = record.turnedOff
    BY <1>1, <2>1, <2>2 DEF RecordShape
  <2>4. RecordShape(record)' /\ Sound(record)'
    BY <1>2, <2>2, <2>3 DEF RecordShape, Sound
  <2> QED
    BY <1>2, <1>3, <1>5, <2>3, <2>4, EndingCall
<1> QED
  BY <1>6, <1>7

-----------------------------------------------------------------------------
(* Undo, and what else happens between calls *)

LEMMA UndoStays ==
  ASSUME OriginInv, Undo \/ UndoFails
  PROVE  OriginInv'
<1>1. /\ RecordShape(record) /\ KitShape /\ OriginShape /\ CallShape /\ Sound(record) /\ Matches
      /\ At("idle") /\ record.status \in {"in_progress", "completed"}
  BY DEF OriginInv, Shapes, Undo, UndoFails, MayUndo, InForce
<1>2. /\ ~record.applied => prefs = origin.prefs
      /\ ~record.turnedOff => kit.on = origin.kitOn
      /\ record.backup = origin.prefs
      /\ record.turnedOff => origin.kitOn /\ "automations" \in record.steps
  BY <1>1 DEF Matches, Sound, At
<1>3. UNCHANGED <<call, origin>> /\ prefs' = origin.prefs
  BY <1>2 DEF Undo, UndoFails, RestoredPrefs
<1>4. OriginShape' /\ CallShape' /\ At("idle")'
  BY <1>1, <1>3 DEF OriginShape, CallShape, RecordShape, At
<1>5. CASE Undo
  <2>1. kit' = [kit EXCEPT !.on = kit.on \/ record.turnedOff]
    BY <1>5 DEF Undo
  <2>2. (kit.on \/ record.turnedOff) \in BOOLEAN /\ ((kit.on \/ record.turnedOff) <=> origin.kitOn)
    BY <1>1, <1>2 DEF KitShape, RecordShape
  <2>3. KitShape' /\ (kit'.on <=> (kit.on \/ record.turnedOff))
    BY <1>1, <2>1, <2>2 DEF KitShape
  <2>4. record' = [record EXCEPT !.status = "undone", !.applied = FALSE, !.turnedOff = FALSE]
    BY <1>5 DEF Undo
  <2>5. /\ RecordShape(record') /\ record'.status = "undone"
        /\ ~record'.applied /\ ~record'.turnedOff
    BY <1>1, <2>4 DEF RecordShape
  <2>6. kit'.on = origin.kitOn
    <3>1. CASE record.turnedOff
      <4>1. origin.kitOn = TRUE /\ kit'.on = TRUE
        BY <1>1, <1>2, <2>1, <3>1 DEF KitShape, RecordShape
      <4> QED
        BY <4>1
    <3>2. CASE ~record.turnedOff
      <4>1. kit'.on = kit.on
        BY <1>1, <2>1, <3>2 DEF KitShape, RecordShape
      <4> QED
        BY <1>2, <3>2, <4>1
    <3> QED
      BY <3>1, <3>2
  <2>7. Shapes' /\ Sound(record)' /\ Matches'
    BY <1>3, <1>4, <2>3, <2>5, <2>6 DEF Shapes, RecordShape, Sound, Matches
  <2> QED
    BY <1>4, <2>7 DEF OriginInv, CopyMatches, At, Pcs, RunningPcs
<1>6. CASE UndoFails
  <2>1. PICK on \in {kit.on, kit.on \/ record.turnedOff} : kit' = [kit EXCEPT !.on = on]
    BY <1>6 DEF UndoFails
  <2>2. KitShape' /\ (kit'.on <=> on)
    BY <1>1, <2>1 DEF KitShape, RecordShape
  <2>3. record' = record
    BY <1>6 DEF UndoFails
  <2>4. ~record.turnedOff => kit'.on = origin.kitOn
    <3> SUFFICES ASSUME ~record.turnedOff PROVE kit'.on = origin.kitOn
      OBVIOUS
    <3>1. kit'.on = kit.on
      BY <1>1, <2>1 DEF KitShape, RecordShape
    <3> QED
      BY <1>2, <3>1
  <2>5. Shapes' /\ Sound(record)' /\ Matches'
    BY <1>1, <1>2, <1>3, <1>4, <2>2, <2>3, <2>4 DEF Shapes, RecordShape, Sound, Matches
  <2> QED
    BY <1>4, <2>5 DEF OriginInv, CopyMatches, At, Pcs, RunningPcs
<1> QED
  BY <1>5, <1>6

LEMMA BetweenCallsStay ==
  ASSUME OriginInv, StopKit \/ DeleteLegacy
  PROVE  OriginInv'
<1>1. /\ RecordShape(record) /\ KitShape /\ OriginShape /\ CallShape /\ Sound(record) /\ Matches
      /\ At("idle")
  BY DEF OriginInv, Shapes, StopKit, DeleteLegacy
<1>2. UNCHANGED <<prefs, call>>
  BY DEF StopKit, DeleteLegacy
<1>3. CallShape' /\ At("idle")'
  BY <1>1, <1>2 DEF CallShape, RecordShape, At
<1>4. CASE StopKit
  <2>1. /\ kit' = [kit EXCEPT !.on = FALSE] /\ origin' = [origin EXCEPT !.kitOn = FALSE]
        /\ record' = record /\ record.status = "none"
    BY <1>4 DEF StopKit
  <2>2. /\ KitShape' /\ OriginShape' /\ kit'.on = FALSE /\ origin'.kitOn = FALSE
        /\ origin'.prefs = origin.prefs
    BY <1>1, <2>1 DEF KitShape, OriginShape
  <2>3. prefs = origin.prefs
    BY <1>1, <2>1 DEF Sound, Matches, At
  <2>4. Shapes' /\ Sound(record)' /\ Matches'
    BY <1>1, <1>2, <1>3, <2>1, <2>2, <2>3 DEF Shapes, RecordShape, Sound, Matches
  <2> QED
    BY <1>3, <2>4 DEF OriginInv, CopyMatches, At, Pcs, RunningPcs
<1>5. CASE DeleteLegacy
  <2>1. /\ record' = [record EXCEPT !.deleted = TRUE] /\ record.status = "completed"
        /\ UNCHANGED <<kit, origin>>
    BY <1>5 DEF DeleteLegacy
  <2>2. /\ RecordShape(record') /\ record'.status = "completed" /\ record'.backup = record.backup
        /\ record'.applied = record.applied /\ record'.turnedOff = record.turnedOff
        /\ record'.steps = record.steps
    BY <1>1, <2>1 DEF RecordShape
  <2>3. KitShape' /\ OriginShape'
    BY <1>1, <2>1 DEF KitShape, OriginShape
  <2>4. Shapes' /\ Sound(record)' /\ Matches'
    BY <1>1, <1>2, <1>3, <2>1, <2>2, <2>3 DEF Shapes, RecordShape, Sound, Matches, At
  <2> QED
    BY <1>3, <2>4 DEF OriginInv, CopyMatches, At, Pcs, RunningPcs
<1> QED
  BY <1>4, <1>5

\* After an undo, and whenever no migration is recorded, the Energy preferences and the kit's
\* automations are as they were before the first run, for every history of the kit, every
\* calendar and every number of pauses, stops, failed undos and runs again: the record backs
\* up what was there before the first run, and a resumed run never backs up what an earlier
\* part of it has changed (_async_begin, _async_apply_energy, async_undo).
THEOREM OriginIsRestored == Spec => []OriginRestored
<1>1. Init => OriginInv
  BY OriginInit
<1>2. OriginInv /\ [Next]_vars => OriginInv'
  BY SurroundingsStay, CopyAndRebaseStay, EnergyStays, AutomationsStay, PlanStays, EndsStay,
     UndoStays, BetweenCallsStay DEF Next, RunStep
<1>3. OriginInv => OriginRestored
  BY DEF OriginInv, OriginRestored, Sound, Matches, At
<1> QED
  BY <1>1, <1>2, <1>3, PTL DEF Spec
=============================================================================

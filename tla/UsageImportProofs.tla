-------------------------- MODULE UsageImportProofs --------------------------
(***************************************************************************)
(* Proofs about UsageImport, for every number of days and statistics,      *)
(* every patience, retention and bound, every mode and set of services.    *)
(***************************************************************************)
EXTENDS UsageImportProperties, AmberStoreProofs, SequenceTheorems

-----------------------------------------------------------------------------
(* The inductive invariant: the types, and what the program counter tells *)

\* A day is chosen before it is fetched alone, written, verified or tracked.
DayAtHand ==
  run.pc \in {"fetch_day", "write", "verify", "track", "advance"} => run.day \in Day

\* import_day has the day it was called with, and only import_day plans.
DayRequested ==
  /\ run.job = "import_day" => run.from \in Day
  /\ run.pc = "plan" => run.job = "import_day"

\* From the revision check on, the run knows the retention boundary.
BoundarySet ==
  run.pc \in {"revisions", "compare", "checked", "work"} \/ run.after = "checked"
    => store.boundary \in Date

TypeInv == TypeOK /\ DayAtHand /\ DayRequested /\ BoundarySet

-----------------------------------------------------------------------------
(* Types of the operators *)

LEMMA Amounts ==
  ASSUME NEW a \in Answer \cup {Unfetched}
  PROVE  a.amount \in Nat /\ a.amount \in Amount \cup {0}
<1>1. CASE a \in {Nothing, Partial, Unfetched}
  BY <1>1 DEF Nothing, Partial, Unfetched
<1>2. CASE a \in [quality : {"estimated", "actual"}, amount : Amount]
  BY <1>2, AmountAssumption
<1> QED
  BY <1>1, <1>2 DEF Answer

LEMMA UsageType ==
  ASSUME TypeOK, NEW d \in Day
  PROVE  Usage(d) \in Answer
BY DEF TypeOK, Usage, Answer

LEMMA FetchedType ==
  ASSUME TypeOK, NEW window
  PROVE  Fetched(window) \in [Day -> Answer \cup {Unfetched}]
BY UsageType DEF Fetched, TypeOK, RunRecord

LEMMA NoRowIsARow == NoRow \in Row
BY DEF NoRow, Row

LEMMA IdleType == Idle \in RunRecord
BY MaxDayAssumption DEF Idle, RunRecord, PCs, NoDay

\* A statistic continues from a day's sum, from zero at the start of its history.
LEMMA BaselinesType ==
  ASSUME TypeOK, NEW day \in Day
  PROVE  Baselines(day) \in [Stat -> Nat]
<1>1. ASSUME NEW s \in Stat
      PROVE  Baseline(s, day) \in Nat
  <2>1. PreviousDay(day) \in Day \cup {NoDay}
    BY LastImportedBeforeIsADay DEF PreviousDay, TypeOK, StoreRecord
  <2>2. \A d \in Day : rows[s][d].sum \in Nat
    BY DEF TypeOK, Row
  <2>3. day > 1 => day - 1 \in Day
    BY MaxDayAssumption DEF Day
  <2> QED
    BY <2>1, <2>2, <2>3 DEF Baseline
<1> QED
  BY <1>1 DEF Baselines

\* A day's own amount is part of its sum, so taking it off leaves the sum before the day.
LEMMA ReimportBaseType ==
  ASSUME TypeOK, NEW day \in Day
  PROVE  ReimportBase(day) \in [Stat -> Nat]
<1>1. \A s \in Stat : rows[s][day].sum - rows[s][day].state \in Nat
  BY DEF TypeOK, Row
<1> QED
  BY <1>1 DEF ReimportBase

LEMMA NewRowsType ==
  ASSUME TypeOK, run.day \in Day
  PROVE  NewRows \in [Stat -> Row]
<1>1. Records.amount \in Nat
  BY Amounts DEF Records, TypeOK, RunRecord
<1>2. \A s \in Stat : run.base[s] \in Nat
  BY DEF TypeOK, RunRecord
<1> QED
  BY <1>1, <1>2, NoRowIsARow DEF NewRows, Row

-----------------------------------------------------------------------------
(* The initial states *)

LEMMA TypeInit ==
  ASSUME Init
  PROVE  TypeInv
<1>1. TypeOK
  <2>1. today \in Date /\ amber \in [Day -> Answer] /\ mode \in Modes
    BY MaxDayAssumption DEF Init, Date, Answer
  <2>2. store \in StoreRecord
    BY EmptyStoreType DEF Init
  <2>3. rows \in [Stat -> [Day -> Row]]
    BY NoRowIsARow DEF Init
  <2>4. queue \in Seq(Batch)
    BY EmptySeq DEF Init
  <2>5. run \in RunRecord
    BY IdleType DEF Init
  <2>6. budget \in Budget
    BY UsageImportAssumption DEF Init, Budget
  <2>7. added \in [Stat -> 0..Absent] /\ late \in BOOLEAN
    BY <2>2 DEF Init, StoreRecord
  <2> QED
    BY <2>1, <2>2, <2>3, <2>4, <2>5, <2>6, <2>7 DEF TypeOK
<1>2. DayAtHand /\ DayRequested /\ BoundarySet
  BY DEF Init, Idle, DayAtHand, DayRequested, BoundarySet
<1> QED
  BY <1>1, <1>2 DEF TypeInv

-----------------------------------------------------------------------------
(* Every step keeps the types *)

\* A run that ends leaves nothing behind.
LEMMA StopTypes ==
  ASSUME Stop
  PROVE  run' \in RunRecord /\ DayAtHand' /\ DayRequested' /\ BoundarySet'
BY IdleType DEF Stop, Idle, DayAtHand, DayRequested, BoundarySet

LEMMA BudgetTypes ==
  ASSUME TypeOK
  PROVE  /\ budget.crash > 0 => [budget EXCEPT !.crash = @ - 1] \in Budget
         /\ budget.fail > 0 => [budget EXCEPT !.fail = @ - 1] \in Budget
         /\ budget.call > 0 => [budget EXCEPT !.call = @ - 1] \in Budget
         /\ budget.slow > 0 => [budget EXCEPT !.slow = @ - 1] \in Budget
<1>1. MaxCrash \in Nat /\ MaxFail \in Nat /\ MaxCall \in Nat /\ MaxSlow \in Nat
  BY UsageImportAssumption
<1>2. budget \in Budget
  BY DEF TypeOK
<1> QED
  BY <1>1, <1>2 DEF Budget

LEMMA RequestFailsTypes ==
  ASSUME TypeOK, RequestFails
  PROVE  /\ run' \in RunRecord /\ DayAtHand' /\ DayRequested' /\ BoundarySet'
         /\ budget' \in Budget
BY BudgetTypes, StopTypes DEF RequestFails

LEMMA EnvironmentTypes ==
  ASSUME TypeInv, Environment
  PROVE  TypeInv'
<1>1. CASE Tick
  BY <1>1, MaxDayAssumption
     DEF Tick, TypeInv, TypeOK, Date, table, DayAtHand, DayRequested, BoundarySet
<1>2. ASSUME NEW d \in Day, Publish(d)
      PROVE  TypeInv'
  BY <1>2 DEF Publish, TypeInv, TypeOK, table, DayAtHand, DayRequested, BoundarySet
<1>3. ASSUME NEW d \in Day, UnexpectedChannel(d)
      PROVE  TypeInv'
  BY <1>3 DEF UnexpectedChannel, Answer, TypeInv, TypeOK, table, DayAtHand, DayRequested,
              BoundarySet
<1>4. ASSUME NEW s \in Stat, Commit(s)
      PROVE  TypeInv'
  <2>1. queue \in Seq(Batch) /\ queue # <<>>
    BY <1>4 DEF Commit, TypeInv, TypeOK
  <2>2. Head(queue) \in Batch /\ Tail(queue) \in Seq(Batch)
    BY <2>1, HeadTailProperties
  <2>3. rows' \in [Stat -> [Day -> Row]]
    BY <1>4, <2>2 DEF Commit, TypeInv, TypeOK, Batch
  <2>4. [queue EXCEPT ![1].todo = @ \ {s}] \in Seq(Batch)
    <3>1. 1 \in 1..Len(queue)
      BY <2>1, <2>2, HeadTailProperties, LenProperties
    <3>2. queue[1] \in Batch
      BY <2>1, <3>1, ElementOfSeq
    <3>3. [queue[1] EXCEPT !.todo = @ \ {s}] \in Batch
      BY <3>2 DEF Batch
    <3> QED
      BY <2>1, <3>1, <3>3, ExceptSeq
  <2>5. queue' \in Seq(Batch)
    BY <1>4, <2>2, <2>4 DEF Commit
  <2> QED
    BY <1>4, <2>3, <2>5
       DEF Commit, TypeInv, TypeOK, environment, DayAtHand, DayRequested, BoundarySet
<1>5. CASE Crash
  <2>1. run' \in RunRecord /\ DayAtHand' /\ DayRequested' /\ BoundarySet'
    BY <1>5, StopTypes DEF Crash
  <2>2. budget' \in Budget
    BY <1>5, BudgetTypes DEF Crash, TypeInv
  <2> QED
    BY <1>5, <2>1, <2>2, EmptySeq DEF Crash, TypeInv, TypeOK, environment
<1> QED
  BY <1>1, <1>2, <1>3, <1>4, <1>5 DEF Environment

\* A step that only moves the run on.
LEMMA RunOnlyTypes ==
  ASSUME TypeInv, run' \in RunRecord, DayAtHand', DayRequested', BoundarySet',
         UNCHANGED <<environment, store, table, budget>>
  PROVE  TypeInv'
BY DEF TypeInv, TypeOK, environment, table

\* A step of the run that saves the Store.
LEMMA StoreAndRunTypes ==
  ASSUME TypeInv, store' \in StoreRecord,
         run' \in RunRecord, DayAtHand', DayRequested', BoundarySet', budget' \in Budget,
         UNCHANGED <<environment, table>>
  PROVE  TypeInv'
BY DEF TypeInv, TypeOK, environment, table

LEMMA StartTypes ==
  ASSUME TypeInv, ScheduledRun \/ RunNow \/ User
  PROVE  TypeInv'
<1> USE DEF TypeInv
<1>1. CASE Begin
  <2>1. run' \in RunRecord /\ DayAtHand' /\ DayRequested' /\ BoundarySet'
    BY <1>1 DEF Begin, At, TypeOK, RunRecord, PCs, DayAtHand, DayRequested, BoundarySet
  <2> QED
    BY <1>1, <2>1, RunOnlyTypes DEF Begin
<1>2. ASSUME NEW from \in Day, NEW upto \in Day, StartBackfill(from, upto)
      PROVE  TypeInv'
  <2>1. run' \in RunRecord /\ DayAtHand' /\ DayRequested' /\ BoundarySet'
    BY <1>2 DEF StartBackfill, At, TypeOK, RunRecord, PCs, DayAtHand, DayRequested, BoundarySet
  <2>2. budget' \in Budget
    BY <1>2, BudgetTypes DEF StartBackfill, Serve
  <2> QED
    BY <1>2, <2>1, <2>2, StoreAndRunTypes DEF StartBackfill, TypeOK
<1>3. ASSUME NEW day \in Day, StartImportDay(day)
      PROVE  TypeInv'
  <2>1. run' \in RunRecord /\ DayAtHand' /\ DayRequested' /\ BoundarySet'
    BY <1>3 DEF StartImportDay, At, TypeOK, RunRecord, PCs, DayAtHand, DayRequested, BoundarySet
  <2>2. budget' \in Budget
    BY <1>3, BudgetTypes DEF StartImportDay, Serve
  <2> QED
    BY <1>3, <2>1, <2>2, StoreAndRunTypes DEF StartImportDay, TypeOK
<1>4. CASE AddChannels
  <2> DEFINE first == IF store.marker = NoDay THEN 0 ELSE store.marker + 1
             since == [s \in Stat |-> IF s \in LateStat THEN first ELSE added[s]]
  <2>1. added' = since
    BY <1>4 DEF AddChannels
  <2>2. first \in 0..Absent
    BY MaxDayAssumption DEF TypeOK, StoreRecord, Day, NoDay, Absent
  <2>3. since \in [Stat -> 0..Absent]
    BY <2>2 DEF TypeOK
  <2> HIDE DEF since
  <2>4. budget' \in Budget
    BY <1>4, BudgetTypes DEF AddChannels, Serve
  <2> QED
    BY <1>4, <2>1, <2>3, <2>4 DEF AddChannels, table, TypeOK, DayAtHand, DayRequested, BoundarySet
<1>5. CASE LoadChannels
  <2>1. store' \in StoreRecord
    BY <1>5 DEF LoadChannels, TypeOK, StoreRecord
  <2>2. run' \in RunRecord /\ DayAtHand' /\ DayRequested' /\ BoundarySet'
    BY <1>5, <2>1 DEF LoadChannels, TypeOK, StoreRecord, DayAtHand, DayRequested, BoundarySet
  <2> QED
    BY <1>5, <2>1, <2>2 DEF LoadChannels, TypeOK, table
<1>6. ASSUME NEW m \in Modes, SetMode(m)
      PROVE  TypeInv'
  <2>1. budget' \in Budget
    BY <1>6, BudgetTypes DEF SetMode, Serve
  <2> QED
    BY <1>6, <2>1 DEF SetMode, TypeOK, table, DayAtHand, DayRequested, BoundarySet
<1> QED
  BY <1>1, <1>2, <1>3, <1>4, <1>5, <1>6 DEF ScheduledRun, RunNow, User

LEMMA GuardTypes ==
  ASSUME TypeInv, Guard
  PROVE  TypeInv'
<1>1. CASE GuardRefuses
  BY <1>1, StopTypes, RunOnlyTypes DEF GuardRefuses
<1>2. CASE GuardAccepts
  <2>1. store' \in StoreRecord
    BY <1>2, PendingType DEF GuardAccepts, TypeInv, TypeOK
  <2>2. store'.boundary = store.boundary
    <3>1. store \in StoreRecord
      BY DEF TypeInv, TypeOK
    <3>2. ClearPending(store).boundary = store.boundary
      BY <3>1 DEF ClearPending, StoreRecord
    <3> QED
      BY <1>2, <3>2 DEF GuardAccepts
  <2>3. PICK pc \in {"plan", "resume"}, day \in Day \cup {NoDay} :
           /\ run' = [run EXCEPT !.pc = pc, !.recovery = day]
           /\ pc = "plan" => run.job = "import_day"
    <3>1. store.pending \in Day \cup {NoDay}
      BY DEF TypeInv, TypeOK, StoreRecord
    <3> QED
      BY <1>2, <3>1 DEF GuardAccepts
  <2>4. run' \in RunRecord /\ DayAtHand' /\ DayRequested' /\ BoundarySet'
    BY <2>2, <2>3 DEF TypeInv, TypeOK, RunRecord, PCs, DayAtHand, DayRequested, BoundarySet
  <2> QED
    BY <1>2, <2>1, <2>4, StoreAndRunTypes DEF GuardAccepts, TypeInv, TypeOK
<1>3. CASE GuardSkipped
  <2>1. run' \in RunRecord /\ DayAtHand' /\ DayRequested' /\ BoundarySet'
    BY <1>3 DEF GuardSkipped, Goto, TypeInv, TypeOK, RunRecord, PCs, DayAtHand, DayRequested,
                BoundarySet
  <2> QED
    BY <1>3, <2>1, RunOnlyTypes DEF GuardSkipped
<1> QED
  BY <1>1, <1>2, <1>3 DEF Guard

\* The boundary a run finds is a date.
LEMMA BoundaryTypes ==
  ASSUME TypeOK
  PROVE  Fallback \in Date /\ MeasuredBoundary \in Date /\ Yesterday \in 0..MaxDay
<1>1. Fallback \in Date
  BY MaxDayAssumption, UsageImportAssumption DEF Fallback, Later, TypeOK, Date
<1>2. MeasuredBoundary \in Date
  <2> DEFINE held == {d \in Day : d < today /\ ~Empty(Usage(d))}
  <2>1. held \in SUBSET Day
    OBVIOUS
  <2>2. held # {} => MinOf(held) \in Day
    BY <2>1, MinOfDays
  <2>3. MeasuredBoundary = IF held = {} THEN Fallback ELSE MinOf(held)
    BY DEF MeasuredBoundary
  <2> QED
    BY <1>1, <2>2, <2>3, MaxDayAssumption DEF Day, Date
<1>3. Yesterday \in 0..MaxDay
  BY MaxDayAssumption DEF Yesterday, TypeOK, Date
<1> QED
  BY <1>1, <1>2, <1>3

LEMMA RetentionTypes ==
  ASSUME TypeInv, RetentionStep
  PROVE  TypeInv'
<1> USE DEF TypeInv
<1>1. today \in Date /\ store \in StoreRecord
  BY DEF TypeOK
<1>2. ASSUME GoOn, store'.boundary \in Date
      PROVE  run' \in RunRecord /\ DayAtHand' /\ DayRequested' /\ BoundarySet'
  BY <1>2, BoundaryTypes
     DEF GoOn, TypeOK, RunRecord, PCs, DayAtHand, DayRequested, BoundarySet
<1>3. \A b \in Date : SetRetention(store, b, today) \in StoreRecord
                      /\ SetRetention(store, b, today).boundary = b
  BY <1>1, SetRetentionType DEF SetRetention, StoreRecord
<1>4. store.boundary # NoDay => store.boundary \in Date
  BY <1>1 DEF StoreRecord
<1>5. CASE RetentionDone
  <2>1. store' \in StoreRecord /\ store'.boundary \in Date
    BY <1>1, <1>3, <1>4, <1>5, BoundaryTypes DEF RetentionDone, BoundaryKnown
  <2> QED
    BY <1>2, <1>5, <2>1, StoreAndRunTypes DEF RetentionDone, TypeOK
<1>6. CASE RetentionFails
  <2>1. store' \in StoreRecord /\ store'.boundary \in Date
    BY <1>1, <1>3, <1>4, <1>6, BoundaryTypes DEF RetentionFails
  <2>2. run' \in RunRecord /\ DayAtHand' /\ DayRequested' /\ BoundarySet'
    BY <1>2, <1>6, <2>1, StopTypes DEF RetentionFails
  <2>3. budget' \in Budget
    BY <1>6, BudgetTypes DEF RetentionFails
  <2> QED
    BY <1>6, <2>1, <2>2, <2>3, StoreAndRunTypes DEF RetentionFails
<1> QED
  BY <1>5, <1>6 DEF RetentionStep

\* A setter other than SetRetention leaves the boundary alone.
LEMMA BoundaryKept ==
  ASSUME NEW st \in StoreRecord
  PROVE  /\ \A day : MarkImported(st, day).boundary = st.boundary
         /\ \A first, last, how : MarkSkipped(st, first, last, how).boundary = st.boundary
         /\ \A day, how : MarkDay(st, day, how).boundary = st.boundary
         /\ \A day, on : NoteEmpty(st, day, on).boundary = st.boundary
         /\ \A day, on, hash : SetRevision(st, day, on, hash).boundary = st.boundary
         /\ \A days : DropRevisions(st, days).boundary = st.boundary
         /\ \A tail : SetTail(st, tail).boundary = st.boundary
         /\ \A next : [st EXCEPT !.tail.next = next].boundary = st.boundary
         /\ \A on : SetChecked(st, on).boundary = st.boundary
         /\ \A day : SetPending(st, day).boundary = st.boundary
         /\ ClearPending(st).boundary = st.boundary
BY DEF StoreRecord, MarkImported, MarkSkipped, MarkDay, NoteEmpty, SetRevision, DropRevisions,
       SetTail, SetChecked, SetPending, ClearPending

\* Moving on to a step that needs neither a day nor the boundary.
LEMMA GotoTypes ==
  ASSUME TypeInv, NEW pc \in PCs, Goto(pc), pc # "plan",
         pc \in {"fetch_day", "write", "verify", "track", "advance"} => run.day \in Day,
         pc \in {"revisions", "compare", "checked", "work"} \/ run.after = "checked"
           => store'.boundary \in Date
  PROVE  run' \in RunRecord /\ DayAtHand' /\ DayRequested' /\ BoundarySet'
BY DEF Goto, TypeInv, TypeOK, RunRecord, DayAtHand, DayRequested, BoundarySet

\* Fetching a window of days changes the run's cache only.
LEMMA FetchTypes ==
  ASSUME TypeInv, NEW window, run' = [run EXCEPT !.cache = Fetched(window)],
         store'.boundary = store.boundary
  PROVE  run' \in RunRecord /\ DayAtHand' /\ DayRequested' /\ BoundarySet'
<1>1. Fetched(window) \in [Day -> Answer \cup {Unfetched}] /\ run \in RunRecord
  BY FetchedType DEF TypeInv, TypeOK
<1>2. run' \in RunRecord
  BY <1>1 DEF RunRecord
<1>3. run'.pc = run.pc /\ run'.job = run.job /\ run'.day = run.day /\ run'.from = run.from
      /\ run'.after = run.after
  BY <1>1 DEF RunRecord
<1> QED
  BY <1>2, <1>3 DEF TypeInv, DayAtHand, DayRequested, BoundarySet

\* A rewrite of a range of days is well-formed, whether it starts or takes over a stored one.
LEMMA BeginRewriteTypes ==
  ASSUME NEW st \in StoreRecord, NEW first \in 0..(MaxDay + 1), NEW last \in 0..MaxDay,
         NEW requestedEnd \in 0..MaxDay, NEW onEmpty \in {"error", "patience"}
  PROVE  /\ BeginRewrite(st, first, last, requestedEnd, onEmpty) \in StoreRecord
         /\ BeginRewrite(st, first, last, requestedEnd, onEmpty).boundary = st.boundary
<1>1. [next |-> first, to |-> last, requestedEnd |-> requestedEnd, onEmpty |-> onEmpty]
        \in TailRecord
  BY DEF TailRecord
<1> QED
  BY <1>1, TailType, BoundaryKept DEF BeginRewrite

LEMMA ReviseTypes ==
  ASSUME TypeInv, Revise
  PROVE  TypeInv'
<1> USE DEF TypeInv
<1>1. store \in StoreRecord /\ budget \in Budget
  BY DEF TypeOK
<1>2. CASE FetchRevisions
  <2>1. store' = DropRevisions(store, Expired(store)) /\ At("revisions")
    BY <1>2 DEF FetchRevisions
  <2>2. store' \in StoreRecord /\ store'.boundary = store.boundary
    BY <1>1, <2>1, DropRevisionsType, BoundaryKept
  <2>3. store'.boundary \in Date
    BY <2>1, <2>2 DEF At, BoundarySet
  <2>4. \/ Goto("compare") /\ UNCHANGED budget
        \/ (\E window : run' = [run EXCEPT !.cache = Fetched(window)]) /\ UNCHANGED budget
        \/ RequestFails
    BY <1>2 DEF FetchRevisions
  <2>5. CASE Goto("compare") /\ UNCHANGED budget
    <3>1. run' \in RunRecord /\ DayAtHand' /\ DayRequested' /\ BoundarySet'
      BY <2>3, <2>5, GotoTypes DEF PCs
    <3> QED
      BY <1>1, <1>2, <2>2, <2>5, <3>1, StoreAndRunTypes DEF FetchRevisions
  <2>6. CASE (\E window : run' = [run EXCEPT !.cache = Fetched(window)]) /\ UNCHANGED budget
    <3>1. run' \in RunRecord /\ DayAtHand' /\ DayRequested' /\ BoundarySet'
      BY <2>2, <2>6, FetchTypes
    <3> QED
      BY <1>1, <1>2, <2>2, <2>6, <3>1, StoreAndRunTypes DEF FetchRevisions
  <2>7. CASE RequestFails
    BY <1>2, <2>2, <2>7, RequestFailsTypes, StoreAndRunTypes DEF FetchRevisions
  <2> QED
    BY <2>4, <2>5, <2>6, <2>7
<1>3. CASE RevisionsAlreadyChecked
  <2>1. run' \in RunRecord /\ DayAtHand' /\ DayRequested' /\ BoundarySet'
    BY <1>3, GotoTypes DEF RevisionsAlreadyChecked, PCs, At, BoundarySet
  <2> QED
    BY <1>3, <2>1, RunOnlyTypes DEF RevisionsAlreadyChecked
<1>4. CASE CompareRevisions
  <2> DEFINE final == {d \in RevisionDaysOf(store) : Final(d)}
             changed == {d \in RevisionDaysOf(store) : Changed(d)}
             st == DropRevisions(store, final)
             first == MinOf(changed)
  <2>1. st \in StoreRecord /\ st.boundary = store.boundary /\ st.boundary \in Date
    BY <1>1, <1>4, DropRevisionsType, BoundaryKept DEF CompareRevisions, At, BoundarySet
  <2>2. first \in 0..(MaxDay + 1)
    BY MinOfDays, MaxDayAssumption DEF RevisionDaysOf, Day, NoDay
  <2>3. st.lastWritten \in 0..MaxDay
    BY <2>1, MaxDayAssumption DEF StoreRecord, Day, NoDay
  <2> HIDE DEF st, first
  <2>4. CASE /\ store' = BeginRewrite(st, first, st.lastWritten, st.lastWritten, "error")
             /\ run' = [run EXCEPT !.pc = "rewrite", !.after = "checked"]
    <3>1. store' \in StoreRecord /\ store'.boundary \in Date
      BY <2>1, <2>2, <2>3, <2>4, BeginRewriteTypes
    <3>2. run' \in RunRecord /\ DayAtHand' /\ DayRequested' /\ BoundarySet'
      BY <2>4, <3>1 DEF TypeOK, RunRecord, PCs, DayAtHand, DayRequested, BoundarySet
    <3> QED
      BY <1>1, <1>4, <3>1, <3>2, StoreAndRunTypes DEF CompareRevisions
  <2>5. CASE store' = st /\ Goto("checked")
    <3>1. run' \in RunRecord /\ DayAtHand' /\ DayRequested' /\ BoundarySet'
      BY <2>1, <2>5, GotoTypes DEF PCs
    <3> QED
      BY <1>1, <1>4, <2>1, <2>5, <3>1, StoreAndRunTypes DEF CompareRevisions
  <2> QED
    BY <1>4, <2>4, <2>5 DEF CompareRevisions, st, first
<1>5. CASE RevisionsChecked
  <2>1. run.yesterday + 1 \in Date
    BY MaxDayAssumption DEF TypeOK, RunRecord, Date
  <2>2. store' \in StoreRecord /\ store'.boundary = store.boundary
    BY <1>1, <1>5, <2>1, SetCheckedType, BoundaryKept DEF RevisionsChecked
  <2>3. run' \in RunRecord /\ DayAtHand' /\ DayRequested' /\ BoundarySet'
    BY <1>5, <2>2, GotoTypes DEF RevisionsChecked, PCs, At, BoundarySet
  <2> QED
    BY <1>1, <1>5, <2>2, <2>3, StoreAndRunTypes DEF RevisionsChecked
<1> QED
  BY <1>2, <1>3, <1>4, <1>5 DEF Revise

\* A day's write begins: the day, its caller and its baselines are fixed.
LEMMA BeginWriteTypes ==
  ASSUME TypeInv, NEW day \in Day, NEW caller \in {"walk", "rewrite"}, BeginWrite(day, caller)
  PROVE  /\ store' \in StoreRecord
         /\ run' \in RunRecord /\ DayAtHand' /\ DayRequested' /\ BoundarySet'
<1>1. store \in StoreRecord /\ run \in RunRecord
  BY DEF TypeInv, TypeOK
<1>2. CASE Stop /\ UNCHANGED store
  BY <1>1, <1>2, StopTypes
<1>3. CASE /\ store' = IF InsideHistory(day) THEN store ELSE SetPending(store, day)
           /\ run' = [run EXCEPT !.pc = "write", !.day = day, !.caller = caller,
                                 !.base = Baselines(day)]
  <2>1. store' \in StoreRecord /\ store'.boundary = store.boundary
    BY <1>1, <1>3, PendingType, BoundaryKept
  <2>2. Baselines(day) \in [Stat -> Nat] /\ day \in 0..(MaxDay + 1)
    BY BaselinesType, MaxDayAssumption DEF TypeInv, Day
  <2>3. run' \in RunRecord
    BY <1>1, <1>3, <2>2 DEF RunRecord, PCs
  <2>4. /\ run'.pc = "write" /\ run'.job = run.job /\ run'.from = run.from
        /\ run'.day = day /\ run'.after = run.after
    BY <1>1, <1>3 DEF RunRecord
  <2> QED
    BY <2>1, <2>3, <2>4 DEF TypeInv, DayAtHand, DayRequested, BoundarySet
<1> QED
  BY <1>2, <1>3 DEF BeginWrite

LEMMA WriteTypes ==
  ASSUME TypeInv, Write
  PROVE  TypeInv'
<1> USE DEF TypeInv
<1>1. store \in StoreRecord /\ budget \in Budget /\ run \in RunRecord /\ today \in Date
  BY DEF TypeOK
<1>2. CASE WriteRefused
  <2>1. run.day \in Day
    BY <1>2 DEF WriteRefused, At, DayAtHand
  <2>2. store' \in StoreRecord
    BY <1>1, <1>2, <2>1, PendingType, MarkDayType DEF WriteRefused, Status
  <2> QED
    BY <1>1, <1>2, <2>2, StopTypes, StoreAndRunTypes DEF WriteRefused
<1>3. CASE WriteRows
  <2>1. run.day \in Day
    BY <1>3 DEF WriteRows, At, DayAtHand
  <2>2. queue \in Seq(Batch)
    BY DEF TypeOK
  <2>3. [day |-> run.day, rows |-> NewRows, todo |-> ActiveStats(run.day)] \in Batch
    BY <2>1, NewRowsType DEF ActiveStats, Batch
  <2>4. queue' \in Seq(Batch)
    BY <1>3, <2>2, <2>3, AppendProperties DEF WriteRows
  <2>5. run' \in RunRecord /\ DayAtHand' /\ DayRequested' /\ BoundarySet'
    BY <1>3, <2>1, GotoTypes DEF WriteRows, PCs, BoundarySet
  <2> QED
    BY <1>3, <2>4, <2>5 DEF WriteRows, TypeOK, environment
<1>4. CASE VerifyPasses
  <2>1. run.day \in Day
    BY <1>4 DEF VerifyPasses, At, DayAtHand
  <2>2. store' \in StoreRecord /\ store'.boundary = store.boundary
    BY <1>1, <1>4, <2>1, MarkImportedType, BoundaryKept DEF VerifyPasses
  <2>3. run' \in RunRecord /\ DayAtHand' /\ DayRequested' /\ BoundarySet'
    BY <1>4, <2>1, <2>2, GotoTypes DEF VerifyPasses, PCs, BoundarySet
  <2> QED
    BY <1>1, <1>4, <2>2, <2>3, StoreAndRunTypes DEF VerifyPasses
<1>5. CASE VerifyTimesOut
  <2>1. run.day \in Day
    BY <1>5 DEF VerifyTimesOut, At, DayAtHand
  <2>2. store' \in StoreRecord
    BY <1>1, <1>5, <2>1, MarkDayType DEF VerifyTimesOut, Status
  <2>3. budget' \in Budget
    BY <1>1, <1>5, BudgetTypes DEF VerifyTimesOut
  <2> QED
    BY <1>5, <2>2, <2>3, StopTypes, StoreAndRunTypes DEF VerifyTimesOut
<1>6. CASE TrackRevision
  <2>1. run.day \in Day
    BY <1>6 DEF TrackRevision, At, DayAtHand
  <2>2. Records.amount \in Amount \cup {0}
    BY <1>1, <2>1, Amounts DEF Records, RunRecord
  <2>3. store' \in StoreRecord /\ store'.boundary = store.boundary
    BY <1>1, <1>6, <2>1, <2>2, SetRevisionType, DropRevisionsType, BoundaryKept
       DEF TrackRevision
  <2>4. run' \in RunRecord /\ DayAtHand' /\ DayRequested' /\ BoundarySet'
    BY <1>6, <2>1, <2>3, GotoTypes DEF TrackRevision, PCs, BoundarySet
  <2> QED
    BY <1>1, <1>6, <2>3, <2>4, StoreAndRunTypes DEF TrackRevision
<1>7. CASE Advance
  <2>1. run.day \in Day /\ run.day + 1 \in 0..(MaxDay + 1)
    BY <1>7, MaxDayAssumption DEF Advance, At, DayAtHand, Day
  <2>2. CASE run' = [run EXCEPT !.pc = "walk", !.day = @ + 1] /\ UNCHANGED store
    <3>1. run' \in RunRecord
      BY <1>1, <2>1, <2>2 DEF RunRecord, PCs
    <3>2. /\ run'.pc = "walk" /\ run'.job = run.job /\ run'.from = run.from
          /\ run'.after = run.after
      BY <1>1, <2>2 DEF RunRecord
    <3>3. DayAtHand' /\ DayRequested' /\ BoundarySet'
      BY <2>2, <3>2 DEF DayAtHand, DayRequested, BoundarySet
    <3> QED
      BY <1>1, <1>7, <2>2, <3>1, <3>3, StoreAndRunTypes DEF Advance
  <2>3. CASE Goto("rewrite") /\ store' = [store EXCEPT !.tail.next = run.day + 1]
    <3>1. store' \in StoreRecord /\ store'.boundary = store.boundary
      BY <1>1, <2>1, <2>3, TailType, BoundaryKept
    <3>2. run' \in RunRecord /\ DayAtHand' /\ DayRequested' /\ BoundarySet'
      BY <2>3, <3>1, GotoTypes DEF PCs, BoundarySet
    <3> QED
      BY <1>1, <1>7, <3>1, <3>2, StoreAndRunTypes DEF Advance
  <2>4. CASE Stop /\ UNCHANGED store
    BY <1>1, <1>7, <2>4, StopTypes, StoreAndRunTypes DEF Advance
  <2> QED
    BY <1>7, <2>2, <2>3, <2>4 DEF Advance
<1> QED
  BY <1>2, <1>3, <1>4, <1>5, <1>6, <1>7 DEF Write

LEMMA WalkTypes ==
  ASSUME TypeInv, Walk
  PROVE  TypeInv'
<1> USE DEF TypeInv
<1>1. /\ store \in StoreRecord /\ budget \in Budget /\ run \in RunRecord /\ today \in Date
      /\ run.yesterday \in 0..MaxDay /\ store.marker \in Day \cup {NoDay}
  BY DEF TypeOK, RunRecord, StoreRecord
<1>2. CASE WalkStart
  <2> DEFINE b == store.boundary
             start == IF run.recovery # NoDay THEN run.recovery
                      ELSE IF store.marker # NoDay THEN store.marker + 1 ELSE b
             last == Earlier(b - 1, Yesterday)
             from == IF start < b THEN last + 1 ELSE start
             walk == [run EXCEPT !.pc = "walk", !.yesterday = Yesterday, !.day = from,
                                 !.windowEnd = from - 1, !.leading = NoDay]
  <2>1. b \in Date
    BY <1>2 DEF WalkStart, At, BoundarySet
  <2>2. start \in Date
    BY <1>1, <2>1, NextOfDay, MaxDayAssumption DEF RunRecord, Day, Date, NoDay
  <2>3. last \in Day \cup {NoDay} /\ Yesterday \in 0..MaxDay
    BY <1>1, <2>1, BoundaryTypes, MaxDayAssumption DEF Earlier, Day, Date, NoDay
  <2>4. from \in 1..(MaxDay + 1)
    BY <2>2, <2>3, MaxDayAssumption DEF Day, Date, NoDay
  <2>5. CASE Stop /\ UNCHANGED store
    BY <1>1, <1>2, <2>5, StopTypes, StoreAndRunTypes DEF WalkStart
  <2>6. CASE /\ store' = IF start < b THEN MarkSkipped(store, start, last, "unavailable")
                         ELSE store
             /\ run' = walk
    <3>1. store' \in StoreRecord /\ store'.boundary \in Date
      BY <1>1, <2>1, <2>3, <2>6, MarkSkippedType, BoundaryKept DEF Skipped
    <3> HIDE DEF from
    <3>2. run' \in RunRecord
      <4>1. from - 1 \in 0..MaxDay /\ from \in 0..(MaxDay + 1)
        BY <2>4, MaxDayAssumption
      <4> QED
        BY <1>1, <2>3, <2>6, <4>1 DEF RunRecord, PCs
    <3>3. run'.pc = "walk" /\ run'.job = run.job /\ run'.from = run.from
      BY <1>1, <2>6 DEF RunRecord
    <3>4. DayAtHand' /\ DayRequested' /\ BoundarySet'
      BY <3>1, <3>3 DEF DayAtHand, DayRequested, BoundarySet
    <3> QED
      BY <1>1, <1>2, <3>1, <3>2, <3>4, StoreAndRunTypes DEF WalkStart
  <2> QED
    BY <1>2, <2>5, <2>6 DEF WalkStart
<1>3. CASE WalkFetch
  <2> DEFINE window == WindowFrom(run.day, run.yesterday)
  <2>1. MaxOf(window) \in 0..MaxDay
    <3>1. run.day \in Int /\ run.day >= 0 /\ run.day <= run.yesterday
      BY <1>1, <1>3 DEF WalkFetch, WalkAt, RunRecord
    <3>2. Earlier(run.day + Window - 1, run.yesterday) \in run.day..run.yesterday
      BY <1>1, <3>1, UsageImportAssumption DEF Earlier
    <3>3. MaxOf(window) = Earlier(run.day + Window - 1, run.yesterday)
      BY <3>1, <3>2, MaxOfRange DEF WindowFrom
    <3> QED
      BY <1>1, <3>1, <3>2, <3>3, MaxDayAssumption
  <2>2. CASE run' = [run EXCEPT !.cache = Fetched(window), !.windowEnd = MaxOf(window)]
             /\ UNCHANGED budget
    <3> HIDE DEF window
    <3>1. run' \in RunRecord
      BY <1>1, <2>1, <2>2, FetchedType DEF RunRecord
    <3>2. run'.pc = run.pc /\ run'.job = run.job /\ run'.from = run.from /\ run'.day = run.day
          /\ run'.after = run.after
      BY <1>1, <2>2 DEF RunRecord
    <3>3. DayAtHand' /\ DayRequested' /\ BoundarySet'
      BY <1>3, <3>2 DEF WalkFetch, DayAtHand, DayRequested, BoundarySet
    <3> QED
      BY <1>1, <1>3, <2>2, <3>1, <3>3, StoreAndRunTypes DEF WalkFetch
  <2>3. CASE RequestFails
    BY <1>1, <1>3, <2>3, RequestFailsTypes, StoreAndRunTypes DEF WalkFetch
  <2> QED
    BY <1>3, <2>2, <2>3 DEF WalkFetch
<1>4. CASE WalkLeading
  <2>1. PICK d \in Day :
          /\ WalkDay(d)
          /\ run' = [run EXCEPT !.leading = IF @ = NoDay THEN d ELSE @, !.day = d + 1]
    BY <1>4 DEF WalkLeading
  <2>2. d + 1 \in 0..(MaxDay + 1) /\ run.leading \in Day \cup {NoDay}
    BY <1>1, MaxDayAssumption DEF Day, RunRecord
  <2>3. run' \in RunRecord
    BY <1>1, <2>1, <2>2 DEF RunRecord
  <2>4. run'.pc = "walk" /\ run'.job = run.job /\ run'.from = run.from /\ run'.after = run.after
    BY <1>1, <2>1 DEF RunRecord, WalkDay, WalkAt, At
  <2>5. DayAtHand' /\ DayRequested' /\ BoundarySet'
    BY <1>4, <2>4 DEF WalkLeading, DayAtHand, DayRequested, BoundarySet
  <2> QED
    BY <1>1, <1>4, <2>3, <2>5, RunOnlyTypes DEF WalkLeading
<1>5. CASE WalkSkipsLeading
  <2>1. PICK d \in Day :
          /\ WalkDay(d)
          /\ store' = SetRetention(MarkSkipped(store, run.leading, d - 1, "unavailable"), d, today)
          /\ run' = [run EXCEPT !.leading = NoDay]
    BY <1>5 DEF WalkSkipsLeading
  <2>2. d \in Date /\ d - 1 \in Day \cup {NoDay}
    BY NextOfDay, MaxDayAssumption DEF Day, Date
  <2>3. store' \in StoreRecord
    BY <1>1, <2>1, <2>2, MarkSkippedType, SetRetentionType DEF Skipped
  <2>4. store'.boundary \in Date
    <3>1. MarkSkipped(store, run.leading, d - 1, "unavailable") \in StoreRecord
      BY <1>1, <2>2, MarkSkippedType DEF Skipped
    <3> QED
      BY <2>1, <2>2, <3>1 DEF SetRetention, StoreRecord
  <2>5. run' \in RunRecord
    BY <1>1, <2>1 DEF RunRecord
  <2>6. run'.pc = "walk" /\ run'.job = run.job /\ run'.from = run.from
    BY <1>1, <2>1 DEF RunRecord, WalkDay, WalkAt, At
  <2>7. DayAtHand' /\ DayRequested' /\ BoundarySet'
    BY <2>4, <2>6 DEF DayAtHand, DayRequested, BoundarySet
  <2> QED
    BY <1>1, <1>5, <2>3, <2>5, <2>7, StoreAndRunTypes DEF WalkSkipsLeading
<1>6. CASE WalkPatience
  <2>1. PICK d \in Day :
          /\ WalkDay(d)
          /\ \/ /\ store' = MarkSkipped(NoteEmpty(store, d, today), d, d, "gap")
                /\ run' = [run EXCEPT !.day = d + 1]
                /\ UNCHANGED budget
             \/ store' = NoteEmpty(store, d, today) /\ Stop /\ UNCHANGED budget
             \/ store' = NoteEmpty(store, d, today) /\ RequestFails
    BY <1>6 DEF WalkPatience
  <2>2. NoteEmpty(store, d, today) \in StoreRecord
    BY <1>1, NoteEmptyType
  <2>3. CASE /\ store' = MarkSkipped(NoteEmpty(store, d, today), d, d, "gap")
             /\ run' = [run EXCEPT !.day = d + 1]
             /\ UNCHANGED budget
    <3>1. store' \in StoreRecord /\ store'.boundary = store.boundary
      BY <1>1, <2>2, <2>3, MarkSkippedType, BoundaryKept DEF Skipped
    <3>2. run' \in RunRecord
      <4>1. d + 1 \in 0..(MaxDay + 1)
        BY MaxDayAssumption DEF Day
      <4> QED
        BY <1>1, <2>3, <4>1 DEF RunRecord
    <3>3. run'.pc = "walk" /\ run'.job = run.job /\ run'.from = run.from
          /\ run'.after = run.after
      BY <1>1, <2>1, <2>3 DEF RunRecord, WalkDay, WalkAt, At
    <3>4. DayAtHand' /\ DayRequested' /\ BoundarySet'
      BY <3>1, <3>3 DEF DayAtHand, DayRequested, BoundarySet
    <3> QED
      BY <1>1, <1>6, <2>3, <3>1, <3>2, <3>4, StoreAndRunTypes DEF WalkPatience
  <2>4. CASE store' = NoteEmpty(store, d, today) /\ Stop /\ UNCHANGED budget
    BY <1>1, <1>6, <2>2, <2>4, StopTypes, StoreAndRunTypes DEF WalkPatience
  <2>5. CASE store' = NoteEmpty(store, d, today) /\ RequestFails
    BY <1>6, <2>2, <2>5, RequestFailsTypes, StoreAndRunTypes DEF WalkPatience
  <2> QED
    BY <2>1, <2>3, <2>4, <2>5
<1>7. CASE WalkWrite
  <2>1. PICK d \in Day : BeginWrite(d, "walk")
    BY <1>7 DEF WalkWrite
  <2> QED
    BY <1>1, <1>7, <2>1, BeginWriteTypes, StoreAndRunTypes DEF WalkWrite
<1>8. CASE WalkDone \/ NothingToWalk
  BY <1>1, <1>8, StopTypes, StoreAndRunTypes DEF WalkDone, NothingToWalk
<1> QED
  BY <1>2, <1>3, <1>4, <1>5, <1>6, <1>7, <1>8 DEF Walk

LEMMA RewriteTypes ==
  ASSUME TypeInv, Rewrite
  PROVE  TypeInv'
<1> USE DEF TypeInv
<1>1. store \in StoreRecord /\ budget \in Budget /\ run \in RunRecord /\ today \in Date
  BY DEF TypeOK
<1>2. \A d \in Day : d + 1 \in 0..(MaxDay + 1)
  BY MaxDayAssumption DEF Day
<1>3. CASE ResumeTail
  <2>1. CASE run' = [run EXCEPT !.pc = "rewrite", !.after = "retention"]
    <3>1. run' \in RunRecord
      BY <1>1, <2>1 DEF RunRecord, PCs
    <3>2. /\ run'.pc = "rewrite" /\ run'.after = "retention"
          /\ run'.job = run.job /\ run'.from = run.from
      BY <1>1, <2>1 DEF RunRecord
    <3>3. DayAtHand' /\ DayRequested' /\ BoundarySet'
      BY <3>2 DEF DayAtHand, DayRequested, BoundarySet
    <3> QED
      BY <1>3, <3>1, <3>3, RunOnlyTypes DEF ResumeTail
  <2>2. CASE Goto("retention")
    <3>1. store' = store
      BY <1>3 DEF ResumeTail
    <3>2. run' \in RunRecord /\ DayAtHand' /\ DayRequested' /\ BoundarySet'
      BY <2>2, <3>1, GotoTypes DEF PCs, BoundarySet
    <3> QED
      BY <1>3, <3>2, RunOnlyTypes DEF ResumeTail
  <2> QED
    BY <1>3, <2>1, <2>2 DEF ResumeTail
<1>4. CASE RewriteSkip
  <2>1. store' \in StoreRecord /\ store'.boundary = store.boundary
    BY <1>1, <1>2, <1>4, TailType, BoundaryKept DEF RewriteSkip
  <2>2. DayAtHand' /\ DayRequested' /\ BoundarySet' /\ run' \in RunRecord
    BY <1>1, <1>4, <2>1 DEF RewriteSkip, DayAtHand, DayRequested, BoundarySet
  <2> QED
    BY <1>1, <1>4, <2>1, <2>2, StoreAndRunTypes DEF RewriteSkip
<1>5. CASE RewriteFetch
  <2>1. PICK d \in Day :
          \/ run' = [run EXCEPT !.cache = Fetched(WindowFrom(d, store.tail.to))] /\ UNCHANGED budget
          \/ RequestFails
    BY <1>5 DEF RewriteFetch
  <2>2. store' = store
    BY <1>5 DEF RewriteFetch
  <2>3. CASE run' = [run EXCEPT !.cache = Fetched(WindowFrom(d, store.tail.to))] /\ UNCHANGED budget
    BY <1>1, <1>5, <2>2, <2>3, FetchTypes, StoreAndRunTypes DEF RewriteFetch
  <2>4. CASE RequestFails
    BY <1>1, <1>5, <2>2, <2>4, RequestFailsTypes, StoreAndRunTypes DEF RewriteFetch
  <2> QED
    BY <2>1, <2>3, <2>4
<1>6. CASE RewriteUnavailable
  BY <1>1, <1>6, StopTypes, StoreAndRunTypes DEF RewriteUnavailable
<1>7. CASE RewritePatience
  <2>1. PICK d \in Day :
          \/ /\ store' = [MarkSkipped(NoteEmpty(store, d, today), d, d, "gap")
                            EXCEPT !.tail.next = d + 1]
             /\ UNCHANGED run
          \/ store' = NoteEmpty(store, d, today) /\ Stop
    BY <1>7 DEF RewritePatience
  <2>2. NoteEmpty(store, d, today) \in StoreRecord
    BY <1>1, NoteEmptyType
  <2>3. CASE /\ store' = [MarkSkipped(NoteEmpty(store, d, today), d, d, "gap")
                            EXCEPT !.tail.next = d + 1]
             /\ UNCHANGED run
    <3>1. MarkSkipped(NoteEmpty(store, d, today), d, d, "gap") \in StoreRecord
      BY <2>2, MarkSkippedType DEF Skipped
    <3>2. store' \in StoreRecord
      BY <1>2, <2>3, <3>1, TailType
    <3>3. store'.boundary = store.boundary
      BY <1>1, <2>2, <2>3, <3>1, BoundaryKept
    <3>4. DayAtHand' /\ DayRequested' /\ BoundarySet' /\ run' \in RunRecord
      BY <1>1, <2>3, <3>3 DEF DayAtHand, DayRequested, BoundarySet
    <3> QED
      BY <1>1, <1>7, <3>2, <3>4, StoreAndRunTypes DEF RewritePatience
  <2>4. CASE store' = NoteEmpty(store, d, today) /\ Stop
    BY <1>1, <1>7, <2>2, <2>4, StopTypes, StoreAndRunTypes DEF RewritePatience
  <2> QED
    BY <2>1, <2>3, <2>4
<1>8. CASE RewriteWrite
  <2>1. PICK d \in Day : BeginWrite(d, "rewrite")
    BY <1>8 DEF RewriteWrite
  <2> QED
    BY <1>1, <1>8, <2>1, BeginWriteTypes, StoreAndRunTypes DEF RewriteWrite
<1>9. CASE RewriteDone
  <2>1. store' \in StoreRecord /\ store'.boundary = store.boundary
    BY <1>1, <1>9, TailType, BoundaryKept DEF RewriteDone
  <2>2. run.after \in {"retention", "checked", "end"}
    BY <1>1 DEF RunRecord
  <2>3. run' \in RunRecord /\ DayAtHand' /\ DayRequested' /\ BoundarySet'
    <3>1. CASE run.after = "end"
      BY <1>9, <3>1, StopTypes DEF RewriteDone
    <3>2. CASE run.after # "end"
      BY <1>9, <2>1, <2>2, <3>2, GotoTypes DEF RewriteDone, PCs, BoundarySet
    <3> QED
      BY <3>1, <3>2
  <2> QED
    BY <1>1, <1>9, <2>1, <2>3, StoreAndRunTypes DEF RewriteDone
<1> QED
  BY <1>3, <1>4, <1>5, <1>6, <1>7, <1>8, <1>9 DEF Rewrite

LEMMA BackfillTypes ==
  ASSUME TypeInv, Backfill
  PROVE  TypeInv'
<1> USE DEF TypeInv
<1>1. store \in StoreRecord /\ budget \in Budget /\ run \in RunRecord
  BY DEF TypeOK
<1>2. /\ run.from \in 0..MaxDay /\ run.upto \in 0..MaxDay /\ run.yesterday \in 0..MaxDay
      /\ store.boundary \in 0..(MaxDay + 1) /\ store.marker \in 0..MaxDay
      /\ store.lastWritten \in 0..MaxDay /\ Yesterday \in 0..MaxDay
  <2>1. /\ \A d \in Day \cup {NoDay} : d \in 0..MaxDay
        /\ \A d \in Date \cup {NoDay} : d \in 0..(MaxDay + 1)
    BY MaxDayAssumption DEF Day, Date, NoDay
  <2>2. run.from \in Day \cup {NoDay} /\ run.upto \in Day \cup {NoDay}
        /\ run.yesterday \in 0..MaxDay
    BY <1>1 DEF RunRecord
  <2>3. store.boundary \in Date \cup {NoDay} /\ store.marker \in Day \cup {NoDay}
        /\ store.lastWritten \in Day \cup {NoDay}
    BY <1>1 DEF StoreRecord
  <2> QED
    BY <2>1, <2>2, <2>3, BoundaryTypes
<1>3. BackfillFirst \in 0..(MaxDay + 1)
  BY <1>2, MaxDayAssumption DEF BackfillFirst, Later
<1>4. CASE BackfillSkips
  <2> DEFINE end == Earlier(run.upto, Yesterday)
             oldLast == Earlier(end, store.boundary - 1)
             st == IF run.from <= oldLast
                   THEN MarkSkipped(store, run.from, oldLast, "unavailable") ELSE store
             first == BackfillFirst
             gapFirst == IF st.marker # NoDay THEN st.marker + 1 ELSE first
  <2>1. st \in StoreRecord /\ st.boundary = store.boundary
    <3>1. CASE run.from <= oldLast
      <4>1. oldLast \in Day \cup {NoDay}
        BY <1>2, <3>1, MaxDayAssumption DEF Earlier, Day, NoDay
      <4> QED
        BY <1>1, <3>1, <4>1, MarkSkippedType, BoundaryKept DEF Skipped
    <3>2. CASE ~(run.from <= oldLast)
      BY <1>1, <3>2
    <3> QED
      BY <3>1, <3>2
  <2>2. st.marker \in 0..MaxDay
    BY <2>1, MaxDayAssumption DEF StoreRecord, Day, NoDay
  <2> HIDE DEF st
  <2>3. gapFirst < first => first - 1 \in Day \cup {NoDay}
    BY <1>3, <2>2, MaxDayAssumption DEF Day, NoDay
  <2>4. store' \in StoreRecord /\ store'.boundary = store.boundary
    <3>1. \/ store' = store \/ store' = st
          \/ gapFirst < first /\ store' = MarkSkipped(st, gapFirst, first - 1, "not_requested")
      BY <1>4 DEF BackfillSkips, st
    <3>2. CASE gapFirst < first /\ store' = MarkSkipped(st, gapFirst, first - 1, "not_requested")
      BY <2>1, <2>3, <3>2, MarkSkippedType, BoundaryKept DEF Skipped
    <3> QED
      BY <1>1, <2>1, <3>1, <3>2
  <2>5. Stop \/ run' = [run EXCEPT !.pc = "backfill", !.yesterday = Yesterday]
    BY <1>4 DEF BackfillSkips
  <2>6. CASE run' = [run EXCEPT !.pc = "backfill", !.yesterday = Yesterday]
    <3>1. run' \in RunRecord
      BY <1>1, <1>2, <2>6 DEF RunRecord, PCs
    <3>2. /\ run'.pc = "backfill" /\ run'.after = run.after
          /\ run'.job = run.job /\ run'.from = run.from
      BY <1>1, <2>6 DEF RunRecord
    <3>3. DayAtHand' /\ DayRequested' /\ BoundarySet'
      BY <2>4, <3>2 DEF DayAtHand, DayRequested, BoundarySet
    <3> QED
      BY <1>1, <1>4, <2>4, <3>1, <3>3, StoreAndRunTypes DEF BackfillSkips
  <2>7. CASE Stop
    BY <1>1, <1>4, <2>4, <2>7, StopTypes, StoreAndRunTypes DEF BackfillSkips
  <2> QED
    BY <2>5, <2>6, <2>7
<1>5. CASE BackfillBegins
  <2>1. /\ BackfillEnd \in 0..MaxDay
        /\ Later(BackfillEnd, store.lastWritten) \in 0..MaxDay
    BY <1>2 DEF BackfillEnd, Earlier, Later
  <2>2. store' \in StoreRecord /\ store'.boundary = store.boundary
    BY <1>1, <1>3, <1>5, <2>1, BeginRewriteTypes DEF BackfillBegins
  <2>3. run' = [run EXCEPT !.pc = "rewrite", !.after = "end"]
    BY <1>5 DEF BackfillBegins
  <2>4. run' \in RunRecord
    BY <1>1, <2>3 DEF RunRecord, PCs
  <2>5. /\ run'.pc = "rewrite" /\ run'.after = "end"
        /\ run'.job = run.job /\ run'.from = run.from
    BY <1>1, <2>3 DEF RunRecord
  <2>6. DayAtHand' /\ DayRequested' /\ BoundarySet'
    BY <2>5 DEF DayAtHand, DayRequested, BoundarySet
  <2> QED
    BY <1>1, <1>5, <2>2, <2>4, <2>6, StoreAndRunTypes DEF BackfillBegins
<1> QED
  BY <1>4, <1>5 DEF Backfill

LEMMA ImportDayTypes ==
  ASSUME TypeInv, ImportDay
  PROVE  TypeInv'
<1> USE DEF TypeInv
<1>1. store \in StoreRecord /\ budget \in Budget /\ run \in RunRecord
  BY DEF TypeOK
<1>2. ASSUME NEW caller \in {"append", "reimport"}, NEW base \in [Stat -> Nat],
             run.from \in Day, store' = store,
             run' = [run EXCEPT !.pc = "fetch_day", !.day = run.from, !.caller = caller,
                                !.base = base]
      PROVE  run' \in RunRecord /\ DayAtHand' /\ DayRequested' /\ BoundarySet'
  <2>1. run.from \in 0..(MaxDay + 1)
    BY <1>2, MaxDayAssumption DEF Day
  <2>2. run' \in RunRecord
    BY <1>1, <1>2, <2>1 DEF RunRecord, PCs
  <2>3. /\ run'.pc = "fetch_day" /\ run'.after = run.after /\ run'.day = run.from
        /\ run'.job = run.job /\ run'.from = run.from
    BY <1>1, <1>2 DEF RunRecord
  <2> QED
    BY <1>2, <2>2, <2>3 DEF DayAtHand, DayRequested, BoundarySet
<1>3. CASE PlanAppend
  <2>1. run.from \in Day /\ store' = store
    BY <1>3 DEF PlanAppend, At, DayRequested
  <2>2. Baselines(run.from) \in [Stat -> Nat]
    BY <2>1, BaselinesType
  <2>3. run' \in RunRecord /\ DayAtHand' /\ DayRequested' /\ BoundarySet'
    BY <1>2, <1>3, <2>1, <2>2, StopTypes DEF PlanAppend
  <2> QED
    BY <1>3, <2>3, RunOnlyTypes DEF PlanAppend
<1>4. CASE PlanReimport
  <2>1. run.from \in Day /\ store' = store
    BY <1>4 DEF PlanReimport, At, DayRequested
  <2>2. ReimportBase(run.from) \in [Stat -> Nat]
    BY <2>1, ReimportBaseType
  <2>3. run' \in RunRecord /\ DayAtHand' /\ DayRequested' /\ BoundarySet'
    BY <1>2, <1>4, <2>1, <2>2, StopTypes DEF PlanReimport
  <2> QED
    BY <1>4, <2>3, RunOnlyTypes DEF PlanReimport
<1>5. CASE PlanRefused
  BY <1>5, StopTypes, RunOnlyTypes DEF PlanRefused
<1>6. CASE FetchDay
  <2>1. run.day \in Day
    BY <1>6 DEF FetchDay, At, DayAtHand
  <2>2. CASE /\ run' = [run EXCEPT !.pc = "write", !.cache[run.day] = Usage(run.day)]
             /\ store' = IF run.caller = "append" THEN SetPending(store, run.day) ELSE store
             /\ UNCHANGED budget
    <3>1. store' \in StoreRecord /\ store'.boundary = store.boundary
      BY <1>1, <2>1, <2>2, PendingType, BoundaryKept
    <3>2. Usage(run.day) \in Answer
      BY <2>1, UsageType
    <3>3. run' \in RunRecord
      <4> DEFINE cache == [run.cache EXCEPT ![run.day] = Usage(run.day)]
      <4>1. cache \in [Day -> Answer \cup {Unfetched}]
        BY <1>1, <3>2 DEF RunRecord
      <4>2. run' = [run EXCEPT !.pc = "write", !.cache = cache]
        BY <1>1, <2>2 DEF RunRecord
      <4> HIDE DEF cache
      <4> QED
        BY <1>1, <4>1, <4>2 DEF RunRecord, PCs
    <3>4. /\ run'.pc = "write" /\ run'.after = run.after /\ run'.day = run.day
          /\ run'.job = run.job /\ run'.from = run.from
      BY <1>1, <2>2 DEF RunRecord
    <3>5. DayAtHand' /\ DayRequested' /\ BoundarySet'
      BY <2>1, <3>1, <3>4 DEF DayAtHand, DayRequested, BoundarySet
    <3> QED
      BY <1>1, <1>6, <2>2, <3>1, <3>3, <3>5, StoreAndRunTypes DEF FetchDay
  <2>3. CASE RequestFails /\ UNCHANGED store
    BY <1>1, <1>6, <2>3, RequestFailsTypes, StoreAndRunTypes DEF FetchDay
  <2> QED
    BY <1>6, <2>2, <2>3 DEF FetchDay
<1> QED
  BY <1>3, <1>4, <1>5, <1>6 DEF ImportDay

LEMMA TypeStep ==
  ASSUME TypeInv, [Next]_vars
  PROVE  TypeInv'
<1>1. CASE ScheduledRun \/ RunNow \/ User
  BY <1>1, StartTypes
<1>2. CASE RunStep
  BY <1>2, GuardTypes, RetentionTypes, ReviseTypes, WalkTypes, RewriteTypes, WriteTypes,
     BackfillTypes, ImportDayTypes DEF RunStep
<1>3. CASE Environment
  BY <1>3, EnvironmentTypes
<1>4. CASE UNCHANGED vars
  BY <1>4 DEF vars, TypeInv, TypeOK, DayAtHand, DayRequested, BoundarySet
<1> QED
  BY <1>1, <1>2, <1>3, <1>4 DEF Next

\* Whatever the runs, services, crashes and recoveries of a site do, its Store, its
\* statistics and the run in memory stay well-formed: sums never fall below the day's own
\* amount, every stored day is a day of the calendar, and a rewrite stays within it.
THEOREM TypeCorrect == Spec => []TypeOK
<1>1. Init => TypeInv
  BY TypeInit
<1>2. TypeInv /\ [Next]_vars => TypeInv'
  BY TypeStep
<1>3. TypeInv => TypeOK
  BY DEF TypeInv
<1> QED
  BY <1>1, <1>2, <1>3, PTL DEF Spec

-----------------------------------------------------------------------------
(* No gap before its time.  The invariant says of everything the import     *)
(* knows that it is in the past: the days Amber has published, the days in  *)
(* the run's cache, the days with statistics, the days of a rewrite, and,   *)
(* for each empty day, the dates it was seen empty on.                      *)

PublishedPast == \A d \in Day : amber[d] # Nothing => d < today

RunPast ==
  /\ run.yesterday < today
  /\ run.pc = "verify" => run.day < today
  /\ \A d \in Day : run.cache[d] \notin {Unfetched, Nothing} => d < today

StorePast(st, on) ==
  /\ st.lastWritten < on
  /\ st.tail.to < on
  /\ \A d \in Day : st.emptySeen[d] \subseteq (d + 1)..on

PastInv == TypeInv /\ PublishedPast /\ RunPast /\ StorePast(store, today)

NoNewGap(old, new) == \A d \in Day : new.status[d] = "gap" => old.status[d] = "gap"

GapRule ==
  \A d \in Day : store.status[d] # "gap" /\ store'.status[d] = "gap" => today >= d + Patience

LEMMA PastInit ==
  ASSUME Init
  PROVE  PastInv
<1>1. TypeInv
  BY TypeInit
<1>2. PublishedPast
  BY DEF Init, PublishedPast
<1>3. RunPast
  BY DEF Init, Idle, RunPast
<1>4. StorePast(store, today)
  BY DEF Init, EmptyStore, StorePast, NoTail, NoDay
<1> QED
  BY <1>1, <1>2, <1>3, <1>4 DEF PastInv

\* What each setter of the Store adds is in the past when its argument is.
LEMMA SettersStayInThePast ==
  ASSUME NEW st \in StoreRecord, NEW on \in Date, StorePast(st, on)
  PROVE  /\ \A day \in Day : day < on => StorePast(MarkImported(st, day), on)
         /\ \A first, last, how : StorePast(MarkSkipped(st, first, last, how), on)
         /\ \A day, how : StorePast(MarkDay(st, day, how), on)
         /\ \A day \in Day : day < on => StorePast(NoteEmpty(st, day, on), on)
         /\ \A day, since, hash : StorePast(SetRevision(st, day, since, hash), on)
         /\ \A days : StorePast(DropRevisions(st, days), on)
         /\ \A tail \in TailRecord : tail.to < on => StorePast(SetTail(st, tail), on)
         /\ \A next : StorePast([st EXCEPT !.tail.next = next], on)
         /\ \A date : StorePast(SetChecked(st, date), on)
         /\ \A boundary, date : StorePast(SetRetention(st, boundary, date), on)
         /\ \A day : StorePast(SetPending(st, day), on)
         /\ StorePast(ClearPending(st), on)
<1> USE DEF StorePast
<1>1. ASSUME NEW day \in Day, day < on
      PROVE  StorePast(MarkImported(st, day), on)
  BY <1>1 DEF StoreRecord, MarkImported, Later
<1>2. ASSUME NEW first, NEW last, NEW how
      PROVE  StorePast(MarkSkipped(st, first, last, how), on)
  BY DEF StoreRecord, MarkSkipped
<1>3. ASSUME NEW day, NEW how
      PROVE  StorePast(MarkDay(st, day, how), on)
  BY DEF StoreRecord, MarkDay
<1>4. ASSUME NEW day \in Day, day < on
      PROVE  StorePast(NoteEmpty(st, day, on), on)
  <2>1. on \in (day + 1)..on
    BY <1>4 DEF Day, Date
  <2>2. NoteEmpty(st, day, on).emptySeen
          = [st.emptySeen EXCEPT ![day] = st.emptySeen[day] \cup {on}]
    BY DEF NoteEmpty, MarkDay, StoreRecord
  <2>3. /\ NoteEmpty(st, day, on).lastWritten = st.lastWritten
        /\ NoteEmpty(st, day, on).tail = st.tail
    BY DEF NoteEmpty, MarkDay, StoreRecord
  <2> QED
    BY <2>1, <2>2, <2>3 DEF StoreRecord
<1>5. \A day, since, hash : StorePast(SetRevision(st, day, since, hash), on)
  BY DEF StoreRecord, SetRevision
<1>6. /\ \A days : StorePast(DropRevisions(st, days), on)
      /\ \A date : StorePast(SetChecked(st, date), on)
      /\ \A boundary, date : StorePast(SetRetention(st, boundary, date), on)
      /\ \A day : StorePast(SetPending(st, day), on)
      /\ StorePast(ClearPending(st), on)
  BY DEF StoreRecord, DropRevisions, SetChecked, SetRetention, SetPending, ClearPending
<1>7. ASSUME NEW tail \in TailRecord, tail.to < on
      PROVE  StorePast(SetTail(st, tail), on)
  BY <1>7 DEF StoreRecord, SetTail
<1>8. \A next : StorePast([st EXCEPT !.tail.next = next], on)
  BY DEF StoreRecord, TailRecord
<1> QED
  BY <1>1, <1>2, <1>3, <1>4, <1>5, <1>6, <1>7, <1>8

\* Only a day skipped as a gap becomes one.
LEMMA SettersMakeNoGap ==
  ASSUME NEW st \in StoreRecord
  PROVE  /\ NoNewGap(st, st)
         /\ \A day \in Day : NoNewGap(st, MarkImported(st, day))
         /\ \A first, last, how : how # "gap" => NoNewGap(st, MarkSkipped(st, first, last, how))
         /\ \A day \in Day : \A how : how # "gap" => NoNewGap(st, MarkDay(st, day, how))
         /\ \A day \in Day : \A on : NoNewGap(st, NoteEmpty(st, day, on))
         /\ \A day, since, hash : NoNewGap(st, SetRevision(st, day, since, hash))
         /\ \A days : NoNewGap(st, DropRevisions(st, days))
         /\ \A tail : NoNewGap(st, SetTail(st, tail))
         /\ \A next : NoNewGap(st, [st EXCEPT !.tail.next = next])
         /\ \A date : NoNewGap(st, SetChecked(st, date))
         /\ \A boundary, date : NoNewGap(st, SetRetention(st, boundary, date))
         /\ \A day : NoNewGap(st, SetPending(st, day))
         /\ NoNewGap(st, ClearPending(st))
<1> USE DEF NoNewGap
<1>1. \A day \in Day : NoNewGap(st, MarkImported(st, day))
  BY DEF StoreRecord, MarkImported
<1>2. \A first, last, how : how # "gap" => NoNewGap(st, MarkSkipped(st, first, last, how))
  BY DEF StoreRecord, MarkSkipped
<1>3. \A day \in Day : \A how : how # "gap" => NoNewGap(st, MarkDay(st, day, how))
  BY DEF StoreRecord, MarkDay
<1>4. \A day \in Day : \A on : NoNewGap(st, NoteEmpty(st, day, on))
  BY DEF StoreRecord, NoteEmpty, MarkDay
<1>5. /\ NoNewGap(st, st)
      /\ \A day, since, hash : NoNewGap(st, SetRevision(st, day, since, hash))
      /\ \A days : NoNewGap(st, DropRevisions(st, days))
      /\ \A tail : NoNewGap(st, SetTail(st, tail))
      /\ \A next : NoNewGap(st, [st EXCEPT !.tail.next = next])
      /\ \A date : NoNewGap(st, SetChecked(st, date))
      /\ \A boundary, date : NoNewGap(st, SetRetention(st, boundary, date))
      /\ \A day : NoNewGap(st, SetPending(st, day))
      /\ NoNewGap(st, ClearPending(st))
  BY DEF StoreRecord, SetRevision, DropRevisions, SetTail, SetChecked, SetRetention, SetPending,
         ClearPending
<1> QED
  BY <1>1, <1>2, <1>3, <1>4, <1>5

\* Patience: a day seen empty on patience_days dates is at least that many days old.
LEMMA PatienceTakesDays ==
  ASSUME NEW st \in StoreRecord, NEW on \in Date, StorePast(st, on),
         NEW day \in Day, PatientEnough(st, day)
  PROVE  on >= day + Patience
<1>1. st.emptySeen[day] \in SUBSET ((day + 1)..on)
  BY DEF StorePast
<1>2. day + 1 \in Int /\ on \in Int /\ Patience \in Nat \ {0}
  BY UsageImportAssumption DEF Day, Date
<1>3. /\ IsFiniteSet((day + 1)..on)
      /\ Cardinality((day + 1)..on) = IF day + 1 > on THEN 0 ELSE on - (day + 1) + 1
  BY <1>2, FS_Interval
<1>4. /\ Cardinality(st.emptySeen[day]) <= Cardinality((day + 1)..on)
      /\ Cardinality(st.emptySeen[day]) \in Nat
  BY <1>1, <1>3, FS_Subset, FS_CardinalityType
<1> QED
  BY <1>2, <1>3, <1>4 DEF PatientEnough, Day, Date

PastStep ==
  /\ RunPast' /\ StorePast(store', today) /\ GapRule
  /\ UNCHANGED <<today, amber>>

LEMMA StoreTyped ==
  ASSUME PastInv
  PROVE  /\ store \in StoreRecord /\ run \in RunRecord /\ today \in Date
         /\ StorePast(store, today)
BY DEF PastInv, TypeInv, TypeOK

\* A save that adds nothing of the future and no gap, by a run that stays in the past.
LEMMA PastStepRule ==
  ASSUME RunPast', StorePast(store', today), NoNewGap(store, store'), UNCHANGED <<today, amber>>
  PROVE  PastStep
BY DEF PastStep, GapRule, NoNewGap

LEMMA StopPast ==
  ASSUME PastInv, Stop, today' = today
  PROVE  RunPast'
BY StoreTyped DEF Stop, Idle, RunPast, Date

LEMMA RunStaysInThePast ==
  ASSUME PastInv, today' = today, run'.cache = run.cache, run'.pc # "verify",
         run'.yesterday \in {run.yesterday, Yesterday}
  PROVE  RunPast'
BY StoreTyped DEF PastInv, RunPast, Yesterday, Date

LEMMA GotoPast ==
  ASSUME PastInv, today' = today, NEW pc, pc # "verify", Goto(pc)
  PROVE  RunPast'
<1>1. run'.cache = run.cache /\ run'.pc = pc /\ run'.yesterday = run.yesterday
  BY StoreTyped DEF Goto, RunRecord
<1> QED
  BY <1>1, RunStaysInThePast

\* What Amber answers for a day it has published is in the past.
LEMMA UsagePast ==
  ASSUME PastInv, NEW d \in Day, Usage(d) # Nothing
  PROVE  d < today
BY DEF PastInv, PublishedPast, Usage

LEMMA FetchPast ==
  ASSUME PastInv, today' = today, NEW window, run'.cache = Fetched(window), run'.pc = run.pc,
         run.pc # "verify", run'.yesterday = run.yesterday
  PROVE  RunPast'
<1>1. \A d \in Day : Fetched(window)[d] \notin {Unfetched, Nothing} => d < today
  BY UsagePast DEF Fetched, PastInv, RunPast
<1> QED
  BY <1>1 DEF PastInv, RunPast

LEMMA GuardPast ==
  ASSUME PastInv, Guard
  PROVE  PastStep
<1>1. UNCHANGED <<today, amber>>
  BY DEF Guard, GuardRefuses, GuardAccepts, GuardSkipped, environment
<1>2. CASE GuardRefuses
  BY <1>1, <1>2, StoreTyped, StopPast, SettersMakeNoGap, PastStepRule DEF GuardRefuses
<1>3. CASE GuardAccepts
  <2>1. StorePast(store', today) /\ NoNewGap(store, store')
    BY <1>3, StoreTyped, SettersStayInThePast, SettersMakeNoGap DEF GuardAccepts
  <2>2. run'.cache = run.cache /\ run'.yesterday = run.yesterday /\ run'.pc # "verify"
    BY <1>3, StoreTyped DEF GuardAccepts, RunRecord
  <2> QED
    BY <1>1, <2>1, <2>2, RunStaysInThePast, PastStepRule
<1>4. CASE GuardSkipped
  BY <1>1, <1>4, StoreTyped, GotoPast, SettersMakeNoGap, PastStepRule DEF GuardSkipped
<1> QED
  BY <1>2, <1>3, <1>4 DEF Guard

LEMMA RetentionPast ==
  ASSUME PastInv, RetentionStep
  PROVE  PastStep
<1>1. UNCHANGED <<today, amber>>
  BY DEF RetentionStep, RetentionDone, RetentionFails, environment
<1>2. ASSUME GoOn
      PROVE  RunPast'
  <2>1. run'.cache = run.cache /\ run'.yesterday = Yesterday /\ run'.pc # "verify"
    BY <1>2, StoreTyped DEF GoOn, RunRecord
  <2> QED
    BY <1>1, <2>1, RunStaysInThePast
<1>3. RunPast'
  BY <1>1, <1>2, StopPast DEF RetentionStep, RetentionDone, RetentionFails
<1>4. store' = store \/ \E boundary : store' = SetRetention(store, boundary, today)
  BY DEF RetentionStep, RetentionDone, RetentionFails
<1>5. StorePast(store', today) /\ NoNewGap(store, store')
  BY <1>4, StoreTyped, SettersStayInThePast, SettersMakeNoGap
<1> QED
  BY <1>1, <1>3, <1>5, PastStepRule

\* A rewrite that starts ends in the past; one that takes over a stored range keeps its end.
LEMMA BeginRewritePast ==
  ASSUME NEW st \in StoreRecord, NEW on \in Date, StorePast(st, on),
         NEW first \in 0..(MaxDay + 1), NEW last \in 0..MaxDay, last < on,
         NEW requestedEnd \in 0..MaxDay, NEW onEmpty \in {"error", "patience"}
  PROVE  /\ StorePast(BeginRewrite(st, first, last, requestedEnd, onEmpty), on)
         /\ NoNewGap(st, BeginRewrite(st, first, last, requestedEnd, onEmpty))
<1> DEFINE tail == [next |-> first, to |-> last, requestedEnd |-> requestedEnd,
                    onEmpty |-> onEmpty]
<1>1. tail \in TailRecord /\ tail.to < on
  BY DEF TailRecord
<1> HIDE DEF tail
<1>2. BeginRewrite(st, first, last, requestedEnd, onEmpty)
        \in {[st EXCEPT !.tail.next = first], SetTail(st, tail)}
  BY DEF BeginRewrite, tail
<1> QED
  BY <1>1, <1>2, SettersStayInThePast, SettersMakeNoGap

LEMMA RevisePast ==
  ASSUME PastInv, Revise
  PROVE  PastStep
<1>1. UNCHANGED <<today, amber>>
  BY DEF Revise, FetchRevisions, RevisionsAlreadyChecked, CompareRevisions, RevisionsChecked,
         environment
<1>2. CASE FetchRevisions
  <2>1. StorePast(store', today) /\ NoNewGap(store, store')
    BY <1>2, StoreTyped, SettersStayInThePast, SettersMakeNoGap DEF FetchRevisions
  <2>2. \/ Goto("compare")
        \/ \E window : run' = [run EXCEPT !.cache = Fetched(window)]
        \/ Stop
    BY <1>2 DEF FetchRevisions, RequestFails
  <2>3. ASSUME NEW window, run' = [run EXCEPT !.cache = Fetched(window)]
        PROVE  RunPast'
    <3>1. run'.cache = Fetched(window) /\ run'.pc = run.pc /\ run'.yesterday = run.yesterday
      BY <2>3, StoreTyped DEF RunRecord
    <3> QED
      BY <1>1, <1>2, <3>1, FetchPast DEF FetchRevisions, At
  <2> QED
    BY <1>1, <2>1, <2>2, <2>3, GotoPast, StopPast, PastStepRule
<1>3. CASE RevisionsAlreadyChecked
  BY <1>1, <1>3, StoreTyped, GotoPast, SettersMakeNoGap, PastStepRule DEF RevisionsAlreadyChecked
<1>4. CASE CompareRevisions
  <2> DEFINE final == {d \in RevisionDaysOf(store) : Final(d)}
             changed == {d \in RevisionDaysOf(store) : Changed(d)}
             st == DropRevisions(store, final)
             first == MinOf(changed)
  <2>1. st \in StoreRecord /\ StorePast(st, today) /\ NoNewGap(store, st)
    BY StoreTyped, DropRevisionsType, SettersStayInThePast, SettersMakeNoGap
  <2>2. first \in 0..(MaxDay + 1)
    BY MinOfDays, MaxDayAssumption DEF RevisionDaysOf, Day, NoDay
  <2>3. st.lastWritten \in 0..MaxDay /\ st.lastWritten < today
    BY <2>1, MaxDayAssumption DEF StoreRecord, Day, NoDay, StorePast
  <2> HIDE DEF st, first
  <2>4. CASE /\ store' = BeginRewrite(st, first, st.lastWritten, st.lastWritten, "error")
             /\ run' = [run EXCEPT !.pc = "rewrite", !.after = "checked"]
    <3>1. StorePast(store', today) /\ NoNewGap(st, store')
      BY <2>1, <2>2, <2>3, <2>4, StoreTyped, BeginRewritePast
    <3>2. NoNewGap(store, store')
      BY <2>1, <3>1 DEF NoNewGap
    <3>3. run'.cache = run.cache /\ run'.pc # "verify" /\ run'.yesterday = run.yesterday
      BY <2>4, StoreTyped DEF RunRecord
    <3> QED
      BY <1>1, <3>1, <3>2, <3>3, RunStaysInThePast, PastStepRule
  <2>5. CASE store' = st /\ Goto("checked")
    BY <1>1, <2>1, <2>5, GotoPast, PastStepRule
  <2> QED
    BY <1>4, <2>4, <2>5 DEF CompareRevisions, st, first
<1>5. CASE RevisionsChecked
  <2>1. StorePast(store', today) /\ NoNewGap(store, store')
    BY <1>5, StoreTyped, SettersStayInThePast, SettersMakeNoGap DEF RevisionsChecked
  <2> QED
    BY <1>1, <1>5, <2>1, GotoPast, PastStepRule DEF RevisionsChecked
<1> QED
  BY <1>2, <1>3, <1>4, <1>5 DEF Revise

LEMMA BeginWritePast ==
  ASSUME PastInv, UNCHANGED <<today, amber>>, NEW day \in Day,
         NEW caller \in {"walk", "rewrite"}, BeginWrite(day, caller)
  PROVE  PastStep
<1>1. StorePast(store', today) /\ NoNewGap(store, store')
  BY StoreTyped, SettersStayInThePast, SettersMakeNoGap DEF BeginWrite
<1>2. Stop \/ run' = [run EXCEPT !.pc = "write", !.day = day, !.caller = caller,
                                 !.base = Baselines(day)]
  BY DEF BeginWrite
<1>3. CASE run' = [run EXCEPT !.pc = "write", !.day = day, !.caller = caller,
                              !.base = Baselines(day)]
  <2>1. run'.cache = run.cache /\ run'.pc # "verify" /\ run'.yesterday = run.yesterday
    BY <1>3, StoreTyped DEF RunRecord
  <2> QED
    BY <1>1, <2>1, RunStaysInThePast, PastStepRule
<1> QED
  BY <1>1, <1>2, <1>3, StopPast, PastStepRule

LEMMA WritePast ==
  ASSUME PastInv, Write
  PROVE  PastStep
<1>1. UNCHANGED <<today, amber>>
  BY DEF Write, WriteRefused, WriteRows, VerifyPasses, VerifyTimesOut, TrackRevision, Advance,
         environment
<1>2. ASSUME run.pc \in {"write", "verify", "track", "advance"}
      PROVE  run.day \in Day
  BY <1>2 DEF PastInv, TypeInv, DayAtHand
<1>3. CASE WriteRefused
  <2>1. run.day \in Day
    BY <1>2, <1>3 DEF WriteRefused, At
  <2> DEFINE forgets == run.caller \in {"append", "reimport"} \/ ~InsideHistory(run.day)
             st == IF forgets THEN ClearPending(store) ELSE store
  <2>2. st \in StoreRecord /\ StorePast(st, today) /\ NoNewGap(store, st)
    BY StoreTyped, PendingType, SettersStayInThePast, SettersMakeNoGap
  <2>3. store' = MarkDay(st, run.day, "failed")
    BY <1>3 DEF WriteRefused
  <2> HIDE DEF st
  <2>4. StorePast(store', today) /\ NoNewGap(st, store')
    BY <2>1, <2>2, <2>3, StoreTyped, SettersStayInThePast, SettersMakeNoGap
  <2>5. NoNewGap(store, store')
    BY <2>2, <2>4 DEF NoNewGap
  <2> QED
    BY <1>1, <1>3, <2>4, <2>5, StopPast, PastStepRule DEF WriteRefused
<1>4. CASE WriteRows
  <2>1. run.day \in Day
    BY <1>2, <1>4 DEF WriteRows, At
  <2>2. Complete(run.cache[run.day])
    BY <1>4 DEF WriteRows, Records
  <2>3. run.day < today
    BY <2>1, <2>2 DEF PastInv, RunPast, Complete, Unfetched, Nothing
  <2>4. /\ run'.cache = run.cache /\ run'.pc = "verify" /\ run'.yesterday = run.yesterday
        /\ run'.day = run.day
    BY <1>4, StoreTyped DEF WriteRows, Goto, RunRecord
  <2>5. RunPast'
    BY <1>1, <2>3, <2>4 DEF PastInv, RunPast
  <2> QED
    BY <1>1, <1>4, <2>5, StoreTyped, SettersMakeNoGap, PastStepRule DEF WriteRows
<1>5. CASE VerifyPasses
  <2>1. run.day \in Day /\ run.day < today
    BY <1>2, <1>5 DEF VerifyPasses, At, PastInv, RunPast
  <2>2. StorePast(store', today) /\ NoNewGap(store, store')
    BY <1>5, <2>1, StoreTyped, SettersStayInThePast, SettersMakeNoGap DEF VerifyPasses
  <2> QED
    BY <1>1, <1>5, <2>2, GotoPast, PastStepRule DEF VerifyPasses
<1>6. CASE VerifyTimesOut
  <2>1. run.day \in Day
    BY <1>2, <1>6 DEF VerifyTimesOut, At
  <2>2. StorePast(store', today) /\ NoNewGap(store, store')
    BY <1>6, <2>1, StoreTyped, SettersStayInThePast, SettersMakeNoGap DEF VerifyTimesOut
  <2> QED
    BY <1>1, <1>6, <2>2, StopPast, PastStepRule DEF VerifyTimesOut
<1>7. CASE TrackRevision
  <2>1. run.day \in Day
    BY <1>2, <1>7 DEF TrackRevision, At
  <2>2. StorePast(store', today) /\ NoNewGap(store, store')
    BY <1>7, <2>1, StoreTyped, SettersStayInThePast, SettersMakeNoGap DEF TrackRevision
  <2> QED
    BY <1>1, <1>7, <2>2, GotoPast, PastStepRule DEF TrackRevision
<1>8. CASE Advance
  <2>1. StorePast(store', today) /\ NoNewGap(store, store')
    BY <1>8, StoreTyped, SettersStayInThePast, SettersMakeNoGap DEF Advance
  <2>2. run' = [run EXCEPT !.pc = "walk", !.day = @ + 1] \/ Goto("rewrite") \/ Stop
    BY <1>8 DEF Advance
  <2>3. CASE run' = [run EXCEPT !.pc = "walk", !.day = @ + 1]
    <3>1. run'.cache = run.cache /\ run'.pc # "verify" /\ run'.yesterday = run.yesterday
      BY <2>3, StoreTyped DEF RunRecord
    <3> QED
      BY <1>1, <2>1, <3>1, RunStaysInThePast, PastStepRule
  <2> QED
    BY <1>1, <2>1, <2>2, <2>3, GotoPast, StopPast, PastStepRule
<1> QED
  BY <1>3, <1>4, <1>5, <1>6, <1>7, <1>8 DEF Write

\* A day skipped as a gap was empty on enough dates, this one included.
LEMMA GapAfterPatience ==
  ASSUME PastInv, NEW day \in Day, day < today, NEW st, st = NoteEmpty(store, day, today),
         PatientEnough(st, day)
  PROVE  /\ StorePast(MarkSkipped(st, day, day, "gap"), today)
         /\ \A d \in Day :
              store.status[d] # "gap" /\ MarkSkipped(st, day, day, "gap").status[d] = "gap"
                => today >= d + Patience
<1>1. st \in StoreRecord /\ StorePast(st, today) /\ NoNewGap(store, st)
  BY StoreTyped, NoteEmptyType, SettersStayInThePast, SettersMakeNoGap
<1>2. today >= day + Patience
  BY <1>1, StoreTyped, PatienceTakesDays
<1>3. \A d \in Day : d # day => MarkSkipped(st, day, day, "gap").status[d] = st.status[d]
  BY <1>1 DEF MarkSkipped, StoreRecord, Day
<1>4. StorePast(MarkSkipped(st, day, day, "gap"), today)
  BY <1>1, StoreTyped, SettersStayInThePast
<1> QED
  BY <1>1, <1>2, <1>3, <1>4 DEF NoNewGap

LEMMA WalkPast ==
  ASSUME PastInv, Walk
  PROVE  PastStep
<1>1. UNCHANGED <<today, amber>>
  BY DEF Walk, WalkStart, WalkFetch, WalkLeading, WalkSkipsLeading, WalkPatience, WalkWrite,
         WalkDone, NothingToWalk, environment
<1>2. CASE WalkStart
  <2>1. store' = store
        \/ \E first, last : store' = MarkSkipped(store, first, last, "unavailable")
    BY <1>2 DEF WalkStart
  <2>2. StorePast(store', today) /\ NoNewGap(store, store')
    BY <2>1, StoreTyped, SettersStayInThePast, SettersMakeNoGap
  <2>3. Stop \/ \E from, end : run' = [run EXCEPT !.pc = "walk", !.yesterday = Yesterday,
                                 !.day = from, !.windowEnd = end, !.leading = NoDay]
    BY <1>2 DEF WalkStart
  <2>4. ASSUME NEW from, NEW end,
               run' = [run EXCEPT !.pc = "walk", !.yesterday = Yesterday, !.day = from,
                                  !.windowEnd = end, !.leading = NoDay]
        PROVE  RunPast'
    <3>1. run'.cache = run.cache /\ run'.pc # "verify" /\ run'.yesterday = Yesterday
      BY <2>4, StoreTyped DEF RunRecord
    <3> QED
      BY <1>1, <3>1, RunStaysInThePast
  <2> QED
    BY <1>1, <2>2, <2>3, <2>4, StopPast, PastStepRule
<1>3. CASE WalkFetch
  <2>1. store' = store /\ run.pc = "walk"
    BY <1>3 DEF WalkFetch, WalkAt, At
  <2>2. Stop \/ \E window, end : run' = [run EXCEPT !.cache = Fetched(window), !.windowEnd = end]
    BY <1>3 DEF WalkFetch, RequestFails
  <2>3. ASSUME NEW window, NEW end,
               run' = [run EXCEPT !.cache = Fetched(window), !.windowEnd = end]
        PROVE  RunPast'
    <3>1. run'.cache = Fetched(window) /\ run'.pc = run.pc /\ run'.yesterday = run.yesterday
      BY <2>3, StoreTyped DEF RunRecord
    <3> QED
      BY <1>1, <2>1, <3>1, FetchPast
  <2> QED
    BY <1>1, <2>1, <2>2, <2>3, StoreTyped, SettersMakeNoGap, StopPast, PastStepRule
<1>4. CASE WalkLeading
  <2>1. store' = store
    BY <1>4 DEF WalkLeading
  <2>2. PICK d \in Day :
          /\ WalkDay(d)
          /\ run' = [run EXCEPT !.leading = IF @ = NoDay THEN d ELSE @, !.day = d + 1]
    BY <1>4 DEF WalkLeading
  <2>3. run'.cache = run.cache /\ run'.pc # "verify" /\ run'.yesterday = run.yesterday
    BY <2>2, StoreTyped DEF RunRecord, WalkDay, WalkAt, At
  <2> QED
    BY <1>1, <2>1, <2>3, StoreTyped, SettersMakeNoGap, RunStaysInThePast, PastStepRule
<1>5. CASE WalkSkipsLeading
  <2>1. PICK d \in Day :
          /\ WalkDay(d)
          /\ store' = SetRetention(MarkSkipped(store, run.leading, d - 1, "unavailable"), d, today)
          /\ run' = [run EXCEPT !.leading = NoDay]
    BY <1>5 DEF WalkSkipsLeading
  <2> DEFINE st == MarkSkipped(store, run.leading, d - 1, "unavailable")
  <2>2. st \in StoreRecord /\ StorePast(st, today) /\ NoNewGap(store, st)
    <3>1. d - 1 \in Day \cup {NoDay}
      BY NextOfDay
    <3> QED
      BY <3>1, StoreTyped, MarkSkippedType, SettersStayInThePast, SettersMakeNoGap DEF Skipped
  <2> HIDE DEF st
  <2>3. StorePast(store', today) /\ NoNewGap(st, store')
    BY <2>1, <2>2, StoreTyped, SettersStayInThePast, SettersMakeNoGap DEF st
  <2>4. NoNewGap(store, store')
    BY <2>2, <2>3 DEF NoNewGap
  <2>5. run'.cache = run.cache /\ run'.pc # "verify" /\ run'.yesterday = run.yesterday
    BY <2>1, StoreTyped DEF RunRecord, WalkDay, WalkAt, At
  <2> QED
    BY <1>1, <2>3, <2>4, <2>5, RunStaysInThePast, PastStepRule
<1>6. CASE WalkPatience
  <2>1. PICK d \in Day :
          /\ WalkDay(d)
          /\ \/ /\ PatientEnough(NoteEmpty(store, d, today), d)
                /\ store' = MarkSkipped(NoteEmpty(store, d, today), d, d, "gap")
                /\ run' = [run EXCEPT !.day = d + 1]
             \/ store' = NoteEmpty(store, d, today) /\ Stop
    BY <1>6 DEF WalkPatience, RequestFails
  <2>2. d < today /\ run.pc = "walk"
    BY <2>1, StoreTyped DEF WalkDay, WalkAt, At, PastInv, RunPast, RunRecord, Day, Date
  <2>3. CASE /\ PatientEnough(NoteEmpty(store, d, today), d)
             /\ store' = MarkSkipped(NoteEmpty(store, d, today), d, d, "gap")
             /\ run' = [run EXCEPT !.day = d + 1]
    <3>1. StorePast(store', today) /\ GapRule
      BY <2>2, <2>3, GapAfterPatience DEF GapRule
    <3>2. run'.cache = run.cache /\ run'.pc # "verify" /\ run'.yesterday = run.yesterday
      BY <2>2, <2>3, StoreTyped DEF RunRecord
    <3> QED
      BY <1>1, <3>1, <3>2, RunStaysInThePast DEF PastStep
  <2>4. CASE store' = NoteEmpty(store, d, today) /\ Stop
    BY <1>1, <2>2, <2>4, StoreTyped, SettersStayInThePast, SettersMakeNoGap, StopPast, PastStepRule
  <2> QED
    BY <2>1, <2>3, <2>4
<1>7. CASE WalkWrite
  BY <1>1, <1>7, BeginWritePast DEF WalkWrite
<1>8. CASE WalkDone \/ NothingToWalk
  BY <1>1, <1>8, StoreTyped, SettersMakeNoGap, StopPast, PastStepRule DEF WalkDone, NothingToWalk
<1> QED
  BY <1>2, <1>3, <1>4, <1>5, <1>6, <1>7, <1>8 DEF Walk

LEMMA RewritePast ==
  ASSUME PastInv, Rewrite
  PROVE  PastStep
<1>1. UNCHANGED <<today, amber>>
  BY DEF Rewrite, ResumeTail, RewriteSkip, RewriteFetch, RewriteUnavailable, RewritePatience,
         RewriteWrite, RewriteDone, environment
<1>2. CASE ResumeTail
  <2>1. store' = store
    BY <1>2 DEF ResumeTail
  <2>2. CASE run' = [run EXCEPT !.pc = "rewrite", !.after = "retention"]
    <3>1. run'.cache = run.cache /\ run'.pc # "verify" /\ run'.yesterday = run.yesterday
      BY <2>2, StoreTyped DEF RunRecord
    <3> QED
      BY <1>1, <2>1, <3>1, StoreTyped, SettersMakeNoGap, RunStaysInThePast, PastStepRule
  <2>3. CASE Goto("retention")
    BY <1>1, <2>1, <2>3, StoreTyped, SettersMakeNoGap, GotoPast, PastStepRule
  <2> QED
    BY <1>2, <2>2, <2>3 DEF ResumeTail
<1>3. CASE RewriteSkip
  <2>1. run' = run /\ RunPast'
    BY <1>1, <1>3 DEF RewriteSkip, PastInv, RunPast
  <2>2. StorePast(store', today) /\ NoNewGap(store, store')
    BY <1>3, StoreTyped, SettersStayInThePast, SettersMakeNoGap DEF RewriteSkip
  <2> QED
    BY <1>1, <2>1, <2>2, PastStepRule
<1>4. CASE RewriteFetch
  <2>1. store' = store /\ run.pc = "rewrite"
    BY <1>4 DEF RewriteFetch, RewriteAt, At
  <2>2. Stop \/ \E window : run' = [run EXCEPT !.cache = Fetched(window)]
    BY <1>4 DEF RewriteFetch, RequestFails
  <2>3. ASSUME NEW window, run' = [run EXCEPT !.cache = Fetched(window)]
        PROVE  RunPast'
    <3>1. run'.cache = Fetched(window) /\ run'.pc = run.pc /\ run'.yesterday = run.yesterday
      BY <2>3, StoreTyped DEF RunRecord
    <3> QED
      BY <1>1, <2>1, <3>1, FetchPast
  <2> QED
    BY <1>1, <2>1, <2>2, <2>3, StoreTyped, SettersMakeNoGap, StopPast, PastStepRule
<1>5. CASE RewriteUnavailable
  BY <1>1, <1>5, StoreTyped, SettersMakeNoGap, StopPast, PastStepRule DEF RewriteUnavailable
<1>6. CASE RewritePatience
  <2>1. PICK d \in Day :
          /\ d <= store.tail.to
          /\ \/ /\ PatientEnough(NoteEmpty(store, d, today), d)
                /\ store' = [MarkSkipped(NoteEmpty(store, d, today), d, d, "gap")
                               EXCEPT !.tail.next = d + 1]
                /\ UNCHANGED run
             \/ store' = NoteEmpty(store, d, today) /\ Stop
    BY <1>6 DEF RewritePatience, RewriteDay, RewriteAt
  <2>2. d < today
    BY <2>1, StoreTyped DEF StorePast, StoreRecord, TailRecord, Day, Date
  <2>3. CASE /\ PatientEnough(NoteEmpty(store, d, today), d)
             /\ store' = [MarkSkipped(NoteEmpty(store, d, today), d, d, "gap")
                            EXCEPT !.tail.next = d + 1]
             /\ UNCHANGED run
    <3> DEFINE st == MarkSkipped(NoteEmpty(store, d, today), d, d, "gap")
    <3>1. /\ StorePast(st, today)
          /\ \A e \in Day : store.status[e] # "gap" /\ st.status[e] = "gap" => today >= e + Patience
      BY <2>2, <2>3, GapAfterPatience
    <3>2. st \in StoreRecord
      BY StoreTyped, NoteEmptyType, MarkSkippedType DEF Skipped
    <3> HIDE DEF st
    <3>3. StorePast(store', today) /\ NoNewGap(st, store')
      BY <2>3, <3>1, <3>2, StoreTyped, SettersStayInThePast, SettersMakeNoGap DEF st
    <3>4. GapRule
      BY <3>1, <3>3 DEF GapRule, NoNewGap
    <3>5. RunPast'
      BY <1>1, <2>3 DEF PastInv, RunPast
    <3> QED
      BY <1>1, <3>3, <3>4, <3>5 DEF PastStep
  <2>4. CASE store' = NoteEmpty(store, d, today) /\ Stop
    BY <1>1, <2>2, <2>4, StoreTyped, SettersStayInThePast, SettersMakeNoGap, StopPast, PastStepRule
  <2> QED
    BY <2>1, <2>3, <2>4
<1>7. CASE RewriteWrite
  BY <1>1, <1>7, BeginWritePast DEF RewriteWrite
<1>8. CASE RewriteDone
  <2>1. NoTail \in TailRecord /\ NoTail.to < today
    BY StoreTyped, TailType DEF NoTail, NoDay, Date
  <2>2. StorePast(store', today) /\ NoNewGap(store, store')
    BY <1>8, <2>1, StoreTyped, SettersStayInThePast, SettersMakeNoGap DEF RewriteDone
  <2>3. Stop \/ (Goto(run.after) /\ run.after # "verify")
    BY <1>8, StoreTyped DEF RewriteDone, RunRecord
  <2> QED
    BY <1>1, <2>2, <2>3, GotoPast, StopPast, PastStepRule
<1> QED
  BY <1>2, <1>3, <1>4, <1>5, <1>6, <1>7, <1>8 DEF Rewrite

LEMMA BackfillPast ==
  ASSUME PastInv, Backfill
  PROVE  PastStep
<1>1. UNCHANGED <<today, amber>>
  BY DEF Backfill, BackfillSkips, BackfillBegins, environment
<1>2. /\ run.from \in 0..MaxDay /\ run.upto \in 0..MaxDay /\ run.yesterday \in 0..MaxDay
      /\ store.boundary \in 0..(MaxDay + 1) /\ store.lastWritten \in 0..MaxDay
  <2>1. /\ \A d \in Day \cup {NoDay} : d \in 0..MaxDay
        /\ \A d \in Date \cup {NoDay} : d \in 0..(MaxDay + 1)
    BY MaxDayAssumption DEF Day, Date, NoDay
  <2>2. run.from \in Day \cup {NoDay} /\ run.upto \in Day \cup {NoDay}
        /\ run.yesterday \in 0..MaxDay
    BY StoreTyped DEF RunRecord
  <2>3. store.boundary \in Date \cup {NoDay} /\ store.lastWritten \in Day \cup {NoDay}
    BY StoreTyped DEF StoreRecord
  <2> QED
    BY <2>1, <2>2, <2>3
<1>3. CASE BackfillSkips
  <2> DEFINE end == Earlier(run.upto, Yesterday)
             oldLast == Earlier(end, store.boundary - 1)
             st == IF run.from <= oldLast
                   THEN MarkSkipped(store, run.from, oldLast, "unavailable") ELSE store
  <2>1. st \in StoreRecord /\ StorePast(st, today) /\ NoNewGap(store, st)
    <3>1. CASE run.from <= oldLast
      <4>1. Yesterday \in 0..MaxDay
        BY BoundaryTypes DEF PastInv, TypeInv
      <4>2. oldLast \in Day \cup {NoDay}
        BY <1>2, <3>1, <4>1, MaxDayAssumption DEF Earlier, Day, NoDay
      <4> QED
        BY <3>1, <4>2, StoreTyped, MarkSkippedType, SettersStayInThePast, SettersMakeNoGap
           DEF Skipped
    <3>2. CASE ~(run.from <= oldLast)
      BY <3>2, StoreTyped, SettersMakeNoGap
    <3> QED
      BY <3>1, <3>2
  <2> HIDE DEF st
  <2>2. \/ store' = store \/ store' = st
        \/ \E first, last : store' = MarkSkipped(st, first, last, "not_requested")
    BY <1>3 DEF BackfillSkips, st
  <2>3. StorePast(store', today) /\ (NoNewGap(st, store') \/ NoNewGap(store, store'))
    BY <2>1, <2>2, StoreTyped, SettersStayInThePast, SettersMakeNoGap
  <2>4. NoNewGap(store, store')
    BY <2>1, <2>3 DEF NoNewGap
  <2>5. Stop \/ run' = [run EXCEPT !.pc = "backfill", !.yesterday = Yesterday]
    BY <1>3 DEF BackfillSkips
  <2>6. CASE run' = [run EXCEPT !.pc = "backfill", !.yesterday = Yesterday]
    <3>1. run'.cache = run.cache /\ run'.pc # "verify" /\ run'.yesterday = Yesterday
      BY <2>6, StoreTyped DEF RunRecord
    <3> QED
      BY <1>1, <2>3, <2>4, <3>1, RunStaysInThePast, PastStepRule
  <2> QED
    BY <1>1, <2>3, <2>4, <2>5, <2>6, StopPast, PastStepRule
<1>4. CASE BackfillBegins
  <2>1. /\ BackfillEnd \in 0..MaxDay
        /\ Later(BackfillEnd, store.lastWritten) \in 0..MaxDay
        /\ BackfillFirst \in 0..(MaxDay + 1)
    BY <1>2, MaxDayAssumption DEF BackfillEnd, BackfillFirst, Earlier, Later
  <2>2. Later(BackfillEnd, store.lastWritten) < today
    BY <1>2, StoreTyped DEF BackfillEnd, Earlier, Later, PastInv, RunPast, StorePast, Date
  <2>3. StorePast(store', today) /\ NoNewGap(store, store')
    BY <1>4, <2>1, <2>2, StoreTyped, BeginRewritePast DEF BackfillBegins
  <2>4. run'.cache = run.cache /\ run'.pc # "verify" /\ run'.yesterday = run.yesterday
    BY <1>4, StoreTyped DEF BackfillBegins, RunRecord
  <2> QED
    BY <1>1, <2>3, <2>4, RunStaysInThePast, PastStepRule
<1> QED
  BY <1>3, <1>4 DEF Backfill

LEMMA ImportDayPast ==
  ASSUME PastInv, ImportDay
  PROVE  PastStep
<1>1. UNCHANGED <<today, amber>>
  BY DEF ImportDay, PlanAppend, PlanReimport, PlanRefused, FetchDay, environment
<1>2. CASE PlanAppend \/ PlanReimport \/ PlanRefused
  <2>1. store' = store
    BY <1>2 DEF PlanAppend, PlanReimport, PlanRefused
  <2>2. Stop \/ \E caller, base :
                  run' = [run EXCEPT !.pc = "fetch_day", !.day = run.from, !.caller = caller,
                                     !.base = base]
    BY <1>2 DEF PlanAppend, PlanReimport, PlanRefused
  <2>3. ASSUME NEW caller, NEW base,
               run' = [run EXCEPT !.pc = "fetch_day", !.day = run.from, !.caller = caller,
                                  !.base = base]
        PROVE  RunPast'
    <3>1. run'.cache = run.cache /\ run'.pc # "verify" /\ run'.yesterday = run.yesterday
      BY <2>3, StoreTyped DEF RunRecord
    <3> QED
      BY <1>1, <3>1, RunStaysInThePast
  <2> QED
    BY <1>1, <2>1, <2>2, <2>3, StoreTyped, SettersMakeNoGap, StopPast, PastStepRule
<1>3. CASE FetchDay
  <2>1. StorePast(store', today) /\ NoNewGap(store, store')
    BY <1>3, StoreTyped, SettersStayInThePast, SettersMakeNoGap DEF FetchDay
  <2>2. Stop \/ run' = [run EXCEPT !.pc = "write", !.cache[run.day] = Usage(run.day)]
    BY <1>3 DEF FetchDay, RequestFails
  <2>3. CASE run' = [run EXCEPT !.pc = "write", !.cache[run.day] = Usage(run.day)]
    <3>1. /\ run'.cache = [run.cache EXCEPT ![run.day] = Usage(run.day)]
          /\ run'.pc = "write" /\ run'.yesterday = run.yesterday
      BY <2>3, StoreTyped DEF RunRecord
    <3>2. run.cache \in [Day -> Answer \cup {Unfetched}]
      BY StoreTyped DEF RunRecord
    <3>3. \A d \in Day : run'.cache[d] \notin {Unfetched, Nothing} => d < today
      BY <3>1, <3>2, UsagePast DEF PastInv, RunPast
    <3>4. RunPast'
      BY <1>1, <3>1, <3>3 DEF PastInv, RunPast
    <3> QED
      BY <1>1, <2>1, <3>4, PastStepRule
  <2> QED
    BY <1>1, <2>1, <2>2, <2>3, StopPast, PastStepRule
<1> QED
  BY <1>2, <1>3 DEF ImportDay

\* The calendar, Amber, the recorder, a crash and the user change neither a status nor what
\* the import knows of the past.
LEMMA OthersPast ==
  ASSUME PastInv, ScheduledRun \/ RunNow \/ User \/ Environment
  PROVE  PublishedPast' /\ RunPast' /\ StorePast(store', today') /\ GapRule
<1>1. today' \in {today, today + 1} /\ today \in Date
  BY StoreTyped
     DEF ScheduledRun, RunNow, Begin, User, StartBackfill, StartImportDay, AddChannels, LoadChannels,
         SetMode, Environment, Tick, Publish, UnexpectedChannel, Commit, Crash, environment
<1>2. store' = store \/ \E since : store' = [store EXCEPT !.since = since]
  BY DEF ScheduledRun, RunNow, Begin, User, StartBackfill, StartImportDay, AddChannels, LoadChannels,
         SetMode, Environment, Tick, Publish, UnexpectedChannel, Commit, Crash
<1>3. StorePast(store', today') /\ GapRule
  <2>1. /\ store'.lastWritten = store.lastWritten /\ store'.tail = store.tail
        /\ store'.emptySeen = store.emptySeen /\ store'.status = store.status
    BY <1>2, StoreTyped DEF StoreRecord
  <2>2. store.lastWritten \in Int /\ store.tail.to \in Int
    BY StoreTyped DEF StoreRecord, TailRecord, Day, NoDay
  <2> QED
    BY <1>1, <2>1, <2>2, StoreTyped DEF StorePast, GapRule, Day, Date
<1>4. PublishedPast'
  <2>1. CASE UNCHANGED amber
    BY <1>1, <2>1 DEF PastInv, PublishedPast, Day, Date
  <2>2. ASSUME NEW d \in Day, Publish(d)
        PROVE  PublishedPast'
    BY <2>2 DEF Publish, PastInv, TypeInv, TypeOK, PublishedPast
  <2>3. ASSUME NEW d \in Day, UnexpectedChannel(d)
        PROVE  PublishedPast'
    BY <2>3 DEF UnexpectedChannel, Complete, Nothing, PastInv, TypeInv, TypeOK, PublishedPast
  <2> QED
    BY <2>1, <2>2, <2>3
       DEF ScheduledRun, RunNow, Begin, User, StartBackfill, StartImportDay, AddChannels, LoadChannels,
           SetMode, Environment, Tick, Commit, Crash, environment
<1>5. RunPast'
  <2>1. \/ run' = Idle
        \/ run' = run
        \/ /\ run'.cache = run.cache /\ run'.yesterday = run.yesterday /\ run'.pc = "guard"
    BY StoreTyped
       DEF ScheduledRun, RunNow, Begin, User, StartBackfill, StartImportDay, AddChannels, LoadChannels,
           SetMode, Environment, Tick, Publish, UnexpectedChannel, Commit, Crash, Stop, RunRecord
  <2>2. run.yesterday \in Int /\ run.day \in Int /\ today \in Int /\ today >= 1
    BY StoreTyped, MaxDayAssumption DEF RunRecord, Date
  <2>3. CASE run' = Idle
    BY <1>1, <2>2, <2>3 DEF RunPast, Idle
  <2>4. CASE run'.cache = run.cache
    <3>1. \A d \in Day : run'.cache[d] \notin {Unfetched, Nothing} => d < today'
      BY <1>1, <2>2, <2>4 DEF PastInv, RunPast, Day
    <3>2. run'.yesterday < today' /\ (run'.pc = "verify" => run'.day < today')
      BY <1>1, <2>1, <2>2 DEF PastInv, RunPast, Idle
    <3> QED
      BY <3>1, <3>2 DEF RunPast
  <2> QED
    BY <2>1, <2>3, <2>4
<1> QED
  BY <1>3, <1>4, <1>5

LEMMA PastNext ==
  ASSUME PastInv, Next
  PROVE  PastInv' /\ GapRule
<1>1. TypeInv'
  BY TypeStep DEF PastInv
<1>2. CASE RunStep
  <2>1. PastStep
    BY <1>2, GuardPast, RetentionPast, RevisePast, WalkPast, RewritePast, WritePast,
       BackfillPast, ImportDayPast DEF RunStep
  <2> QED
    BY <1>1, <2>1 DEF PastStep, PastInv, PublishedPast
<1>3. CASE ScheduledRun \/ RunNow \/ User \/ Environment
  BY <1>1, <1>3, OthersPast DEF PastInv
<1> QED
  BY <1>2, <1>3 DEF Next

\* Guard 2 for every patience, retention and window: a day the walk or a rewrite gives up
\* as a gap is at least patience_days old, however many runs, crashes, repeated attempts on
\* one date and services there were.
THEOREM GapsWaitForPatience == Spec => GapOnlyAfterPatience
<1>1. Init => PastInv
  BY PastInit
<1>2. PastInv /\ [Next]_vars => PastInv'
  <2>1. CASE UNCHANGED vars /\ PastInv
    <3>1. TypeInv'
      BY <2>1, TypeStep DEF PastInv
    <3> QED
      BY <2>1, <3>1 DEF vars, PastInv, PublishedPast, RunPast, StorePast
  <2> QED
    BY <2>1, PastNext
<1>3. PastInv /\ [Next]_vars => [GapRule]_vars
  BY PastNext
<1> QED
  BY <1>1, <1>2, <1>3, PTL DEF Spec, GapOnlyAfterPatience, GapRule
=============================================================================

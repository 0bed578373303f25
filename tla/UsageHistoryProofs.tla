------------------------- MODULE UsageHistoryProofs -------------------------
(***************************************************************************)
(* The history of UsageImport: without backfills the Store implements      *)
(* ImportLedger, whatever the runs, import_day, revisions, crashes and     *)
(* recoveries do, for every number of days and statistics and every        *)
(* patience, window and retention.  The statistics of a late channel have  *)
(* no row before its first day, with every service.  And about what is in  *)
(* the statistics table: the sums are continuous, guard 1 never locks the  *)
(* site out, all statistics of an imported day show the same records, an   *)
(* imported day that is out of date is one that is looked at again, and,   *)
(* with backfills and import_day, a run that ends leaves no lockout.       *)
(***************************************************************************)
EXTENDS UsageImportProofs

-----------------------------------------------------------------------------
(* The inductive invariant *)

OutcomeOf(st, d) ==
  CASE st.status[d] = "imported" -> "imported"
    [] st.status[d] \in Skipped -> "skipped"
    [] OTHER -> "open"

Settled(st, d) == OutcomeOf(st, d) # "open"

\* A day may be settled next: it follows the marker, or starts the history.
Follows(st, day) == st.marker = NoDay \/ day = st.marker + 1

\* The history in the Store: last_written is an imported day of it, no settled day is
\* after the marker and no open one between settled ones; only imported days are in the
\* revision set; an unfinished rewrite has settled days before it only.
StoreInOrder(st) ==
  /\ st.lastWritten <= st.marker
  /\ st.lastWritten # NoDay => st.status[st.lastWritten] = "imported"
  /\ \A d \in Day : Settled(st, d) => d <= st.marker
  /\ \A e, d \in Day : Settled(st, e) /\ e <= d /\ d <= st.marker => Settled(st, d)
  /\ \A d \in Day : st.status[d] # "not_requested"
  /\ \A d \in Day : InRevisionSet(st, d) => st.status[d] = "imported"
  /\ st.tail.onEmpty = "error" /\ st.tail.to <= st.marker
  /\ \A d \in Day : st.tail.next <= d /\ d <= st.tail.to => Settled(st, d)

BoundaryPast == store.boundary <= today

Writing == {"write", "verify", "track", "advance"}

\* Until the walk begins, the day to be recovered is the one that follows the marker.
RecoveryFollows ==
  run.pc \notin {"walk", "fetch_day"} /\ (run.pc \in Writing => run.caller = "rewrite")
    => run.recovery = NoDay \/ Follows(store, run.recovery)

\* The walk is at the day after the marker, or passes empty days from there on.
WalkFollows ==
  run.pc = "walk" =>
    IF run.leading = NoDay THEN Follows(store, run.day)
    ELSE /\ store.lastWritten = NoDay
         /\ Follows(store, run.leading) /\ run.leading < run.day

\* The day being written follows the marker, or is an imported day written again.
DayFollows ==
  /\ run.pc \in {"fetch_day", "write", "verify"} =>
       \/ Follows(store, run.day) /\ run.caller # "rewrite"
       \/ store.status[run.day] = "imported" /\ run.caller # "walk"
  /\ run.pc = "fetch_day" => run.caller \in {"append", "reimport"}
  /\ run.pc \in {"track", "advance"} =>
       store.status[run.day] = "imported" /\ (run.caller = "walk" => run.day = store.marker)
  /\ run.pc \in Writing /\ run.caller = "walk" => run.leading = NoDay

NoBackfill == run.job # "backfill" /\ run.pc # "backfill"

RunInOrder == RecoveryFollows /\ WalkFollows /\ DayFollows /\ NoBackfill

HistoryInv == PastInv /\ StoreInOrder(store) /\ BoundaryPast /\ RunInOrder

-----------------------------------------------------------------------------
(* How a save changes the history *)

SameHistory(old, new) ==
  /\ new.marker = old.marker
  /\ \A d \in Day : OutcomeOf(new, d) = OutcomeOf(old, d)

\* Days first..last follow the history and all get one outcome.
Settles(old, new, first, last, what) ==
  /\ first <= last /\ Follows(old, first)
  /\ new.marker = last
  /\ \A d \in Day : OutcomeOf(new, d) = IF d \in first..last THEN what ELSE OutcomeOf(old, d)

\* What a step may do to the history.
Extends(old, new) ==
  \/ SameHistory(old, new)
  \/ \E first, last \in Day : \E what \in {"imported", "skipped"} :
       /\ what = "imported" => first = last
       /\ Settles(old, new, first, last, what)

\* A save that touches no day record, marker or last written day.
LEMMA OtherFieldsInOrder ==
  ASSUME NEW st \in StoreRecord, StoreInOrder(st), NEW new,
         new.marker = st.marker, new.lastWritten = st.lastWritten, new.status = st.status,
         new.tail = st.tail, \A d \in Day : InRevisionSet(new, d) => st.status[d] = "imported"
  PROVE  StoreInOrder(new) /\ SameHistory(st, new)
BY DEF StoreInOrder, SameHistory, Settled, OutcomeOf

LEMMA SettersInOrder ==
  ASSUME NEW st \in StoreRecord, StoreInOrder(st)
  PROVE  /\ \A day : StoreInOrder(SetPending(st, day)) /\ SameHistory(st, SetPending(st, day))
         /\ StoreInOrder(ClearPending(st)) /\ SameHistory(st, ClearPending(st))
         /\ \A days : StoreInOrder(DropRevisions(st, days)) /\ SameHistory(st, DropRevisions(st, days))
         /\ \A on : StoreInOrder(SetChecked(st, on)) /\ SameHistory(st, SetChecked(st, on))
         /\ \A b, on : StoreInOrder(SetRetention(st, b, on)) /\ SameHistory(st, SetRetention(st, b, on))
<1> USE DEF StoreRecord, InRevisionSet
<1>1. \A day : StoreInOrder(SetPending(st, day)) /\ SameHistory(st, SetPending(st, day))
  BY OtherFieldsInOrder DEF SetPending, StoreInOrder
<1>2. StoreInOrder(ClearPending(st)) /\ SameHistory(st, ClearPending(st))
  BY OtherFieldsInOrder DEF ClearPending, StoreInOrder
<1>3. \A days : StoreInOrder(DropRevisions(st, days)) /\ SameHistory(st, DropRevisions(st, days))
  BY OtherFieldsInOrder DEF DropRevisions, StoreInOrder
<1>4. \A on : StoreInOrder(SetChecked(st, on)) /\ SameHistory(st, SetChecked(st, on))
  BY OtherFieldsInOrder DEF SetChecked, StoreInOrder
<1>5. \A b, on : StoreInOrder(SetRetention(st, b, on)) /\ SameHistory(st, SetRetention(st, b, on))
  <2> SUFFICES ASSUME NEW b, NEW on
               PROVE  /\ StoreInOrder(SetRetention(st, b, on))
                      /\ SameHistory(st, SetRetention(st, b, on))
    OBVIOUS
  <2> DEFINE new == SetRetention(st, b, on)
  <2>1. /\ new.marker = st.marker /\ new.lastWritten = st.lastWritten /\ new.status = st.status
        /\ new.tail = st.tail /\ new.revisions = st.revisions
    BY DEF SetRetention
  <2> HIDE DEF new
  <2> QED
    BY <2>1, OtherFieldsInOrder DEF StoreInOrder, new
<1> QED
  BY <1>1, <1>2, <1>3, <1>4, <1>5

LEMMA SetRevisionInOrder ==
  ASSUME NEW st \in StoreRecord, StoreInOrder(st), NEW day \in Day,
         st.status[day] = "imported", NEW on, NEW hash
  PROVE  StoreInOrder(SetRevision(st, day, on, hash)) /\ SameHistory(st, SetRevision(st, day, on, hash))
BY OtherFieldsInOrder DEF StoreRecord, InRevisionSet, SetRevision, StoreInOrder

\* The stored progress of a rewrite, over settled days.
LEMMA TailInOrder ==
  ASSUME NEW st \in StoreRecord, StoreInOrder(st), NEW new, new = [st EXCEPT !.tail = new.tail],
         new.tail.onEmpty = "error", new.tail.to <= st.marker,
         \A d \in Day : new.tail.next <= d /\ d <= new.tail.to => Settled(st, d)
  PROVE  StoreInOrder(new) /\ SameHistory(st, new)
<1>1. /\ new.marker = st.marker /\ new.lastWritten = st.lastWritten /\ new.status = st.status
      /\ new.revisions = st.revisions
  BY DEF StoreRecord
<1> QED
  BY <1>1 DEF StoreInOrder, SameHistory, Settled, OutcomeOf, InRevisionSet

\* A day that is open, or imported, is noted as empty or failed.
LEMMA MarkDayInOrder ==
  ASSUME NEW st \in StoreRecord, StoreInOrder(st), NEW day \in Day, OutcomeOf(st, day) # "skipped",
         NEW how \in {"failed", "empty"}
  PROVE  StoreInOrder(MarkDay(st, day, how)) /\ SameHistory(st, MarkDay(st, day, how))
<1> DEFINE new == MarkDay(st, day, how)
<1>1. /\ new.marker = st.marker /\ new.lastWritten = st.lastWritten /\ new.tail = st.tail
      /\ new.revisions = st.revisions
      /\ \A d \in Day : d # day => new.status[d] = st.status[d]
      /\ new.status[day] = IF st.status[day] = "imported" THEN "imported" ELSE how
  BY DEF StoreRecord, MarkDay
<1>2. \A d \in Day : OutcomeOf(new, d) = OutcomeOf(st, d)
  BY <1>1 DEF OutcomeOf, Skipped
<1>3. \A d \in Day : st.status[d] = "imported" => new.status[d] = "imported"
  BY <1>1
<1>4. st.lastWritten \in Day \cup {NoDay}
  BY DEF StoreRecord
<1> HIDE DEF new
<1>5. \A d \in Day : new.status[d] # "not_requested"
  BY <1>1 DEF StoreInOrder
<1> QED
  BY <1>1, <1>2, <1>3, <1>4, <1>5 DEF new, StoreInOrder, SameHistory, Settled, InRevisionSet

LEMMA NoteEmptyInOrder ==
  ASSUME NEW st \in StoreRecord, StoreInOrder(st), NEW day \in Day, OutcomeOf(st, day) # "skipped",
         NEW on \in Date
  PROVE  StoreInOrder(NoteEmpty(st, day, on)) /\ SameHistory(st, NoteEmpty(st, day, on))
<1> DEFINE mid == [st EXCEPT !.emptySeen[day] = @ \cup {on}]
<1>1. mid \in StoreRecord
  BY DEF StoreRecord
<1>2. /\ mid.marker = st.marker /\ mid.lastWritten = st.lastWritten /\ mid.status = st.status
      /\ mid.tail = st.tail /\ mid.revisions = st.revisions
  BY DEF StoreRecord
<1> HIDE DEF mid
<1>3. StoreInOrder(mid) /\ SameHistory(st, mid)
  BY <1>2, OtherFieldsInOrder DEF StoreInOrder, InRevisionSet
<1>4. StoreInOrder(MarkDay(mid, day, "empty")) /\ SameHistory(mid, MarkDay(mid, day, "empty"))
  BY <1>1, <1>3, MarkDayInOrder DEF SameHistory
<1> QED
  BY <1>3, <1>4 DEF SameHistory, NoteEmpty, mid

LEMMA HistoryNumbers ==
  ASSUME NEW st \in StoreRecord
  PROVE  /\ st.marker \in Nat /\ st.lastWritten \in Nat /\ st.tail.to \in Nat
         /\ Day \subseteq Nat /\ NoDay = 0 /\ NoDay \notin Day
<1>1. Day \cup {NoDay} \subseteq Nat /\ NoDay = 0 /\ NoDay \notin Day
  BY MaxDayAssumption DEF Day, NoDay
<1>2. /\ st.marker \in Day \cup {NoDay} /\ st.lastWritten \in Day \cup {NoDay}
      /\ st.tail.to \in Nat
  BY DEF StoreRecord, TailRecord
<1> QED
  BY <1>1, <1>2

\* The day that follows the history is imported.
LEMMA ImportSettles ==
  ASSUME NEW st \in StoreRecord, StoreInOrder(st), NEW day \in Day, Follows(st, day)
  PROVE  /\ StoreInOrder(MarkImported(st, day))
         /\ Settles(st, MarkImported(st, day), day, day, "imported")
<1> DEFINE new == MarkImported(st, day)
<1>1. /\ st.marker \in Nat /\ st.lastWritten \in Nat /\ day \in Nat /\ day # NoDay
      /\ Day \subseteq Nat /\ NoDay = 0 /\ NoDay \notin Day
  BY HistoryNumbers
<1>2. st.marker < day /\ st.lastWritten < day /\ st.tail.to <= day
  BY <1>1, HistoryNumbers DEF Follows, StoreInOrder, NoDay
<1>3. /\ new.marker = day /\ new.lastWritten = day /\ new.tail = st.tail
      /\ new.revisions = st.revisions
      /\ \A d \in Day : new.status[d] = IF d = day THEN "imported" ELSE st.status[d]
  BY <1>1, <1>2 DEF StoreRecord, MarkImported, Later
<1> HIDE DEF new
<1>4. \A d \in Day : OutcomeOf(new, d) = IF d = day THEN "imported" ELSE OutcomeOf(st, d)
  <2>1. \A d \in Day : d # day => OutcomeOf(new, d) = OutcomeOf(st, d)
    BY <1>3 DEF OutcomeOf
  <2>2. OutcomeOf(new, day) = "imported"
    BY <1>3 DEF OutcomeOf, Skipped
  <2> QED
    BY <2>1, <2>2
<1>5. \A d \in Day : Settled(new, d) <=> d = day \/ Settled(st, d)
  BY <1>4 DEF Settled
<1>6. \A d \in Day : Settled(new, d) => d <= new.marker
  BY <1>1, <1>2, <1>3, <1>5 DEF StoreInOrder
<1>7. \A e, d \in Day : Settled(new, e) /\ e <= d /\ d <= new.marker => Settled(new, d)
  <2> SUFFICES ASSUME NEW e \in Day, NEW d \in Day, Settled(new, e), e <= d, d <= day, d # day
               PROVE  Settled(st, d)
    BY <1>3, <1>5
  <2>1. Settled(st, e) /\ st.marker # NoDay
    <3>1. e # day /\ e > 0
      BY <1>1
    <3> QED
      BY <1>1, <1>5, <3>1 DEF StoreInOrder
  <2>2. d <= st.marker
    BY <1>1, <2>1 DEF Follows
  <2> QED
    BY <2>1, <2>2 DEF StoreInOrder
<1>8. StoreInOrder(new)
  BY <1>1, <1>2, <1>3, <1>5, <1>6, <1>7 DEF StoreInOrder, InRevisionSet
<1>9. Settles(st, new, day, day, "imported")
  <2>1. \A d \in Day : d \in day..day <=> d = day
    BY <1>1
  <2> QED
    BY <1>1, <1>3, <1>4, <2>1 DEF Settles
<1> QED
  BY <1>8, <1>9 DEF new

\* An imported day is recorded as imported again.
LEMMA ImportAgainInOrder ==
  ASSUME NEW st \in StoreRecord, StoreInOrder(st), NEW day \in Day, st.status[day] = "imported"
  PROVE  StoreInOrder(MarkImported(st, day)) /\ SameHistory(st, MarkImported(st, day))
<1> DEFINE new == MarkImported(st, day)
<1>1. st.marker \in Nat /\ st.lastWritten \in Nat /\ Day \subseteq Nat
  BY HistoryNumbers
<1>2. day <= st.marker
  BY DEF StoreInOrder, Settled, OutcomeOf
<1>3. /\ new.marker = st.marker /\ new.lastWritten = Later(st.lastWritten, day)
      /\ new.tail = st.tail /\ new.revisions = st.revisions
      /\ \A d \in Day : new.status[d] = st.status[d]
  BY <1>1, <1>2 DEF StoreRecord, MarkImported, Later
<1> HIDE DEF new
<1>4. /\ new.lastWritten <= new.marker
      /\ new.lastWritten # NoDay => new.status[new.lastWritten] = "imported"
  BY <1>1, <1>2, <1>3 DEF Later, StoreInOrder, StoreRecord
<1> QED
  BY <1>3, <1>4 DEF new, StoreInOrder, SameHistory, Settled, OutcomeOf, InRevisionSet

\* Days that follow the history are skipped.
LEMMA SkipSettles ==
  ASSUME NEW st \in StoreRecord, StoreInOrder(st), NEW first \in Day, NEW last \in Day,
         first <= last, Follows(st, first), NEW how \in {"unavailable", "gap"}
  PROVE  /\ StoreInOrder(MarkSkipped(st, first, last, how))
         /\ Settles(st, MarkSkipped(st, first, last, how), first, last, "skipped")
<1> DEFINE new == MarkSkipped(st, first, last, how)
<1>1. st.marker \in Nat /\ st.lastWritten \in Nat /\ Day \subseteq Nat /\ NoDay = 0 /\ NoDay \notin Day
  BY HistoryNumbers
<1>2. st.marker < first /\ st.lastWritten < first /\ st.tail.to <= last
  BY <1>1, HistoryNumbers DEF Follows, StoreInOrder
<1>3. /\ new.marker = last /\ new.lastWritten = st.lastWritten /\ new.tail = st.tail
      /\ \A d \in Day : new.revisions[d] = IF d \in first..last THEN NoRevision ELSE st.revisions[d]
      /\ \A d \in Day : new.status[d] = IF d \in first..last THEN how ELSE st.status[d]
  BY <1>1, <1>2 DEF StoreRecord, MarkSkipped, Later
<1> HIDE DEF new
<1>4. \A d \in Day : OutcomeOf(new, d) = IF d \in first..last THEN "skipped" ELSE OutcomeOf(st, d)
  BY <1>3 DEF OutcomeOf, Skipped
<1>5. \A d \in Day : Settled(new, d) <=> d \in first..last \/ Settled(st, d)
  BY <1>4 DEF Settled
<1>6. \A d \in Day : Settled(new, d) => d <= new.marker
  BY <1>1, <1>2, <1>3, <1>5 DEF StoreInOrder
<1>7. \A e, d \in Day : Settled(new, e) /\ e <= d /\ d <= new.marker => Settled(new, d)
  <2> SUFFICES ASSUME NEW e \in Day, NEW d \in Day, Settled(new, e), e <= d, d <= last,
                      d \notin first..last
               PROVE  Settled(st, d)
    BY <1>3, <1>5
  <2>1. d < first /\ e < first
    BY <1>1
  <2>2. Settled(st, e)
    BY <1>1, <1>5, <2>1
  <2>3. e <= st.marker
    BY <2>2 DEF StoreInOrder
  <2>4. d <= st.marker
    BY <1>1, <2>1, <2>3 DEF Follows
  <2> QED
    BY <2>2, <2>4 DEF StoreInOrder
<1>8. new.lastWritten # NoDay => new.status[new.lastWritten] = "imported"
  <2>1. st.lastWritten \in Day \cup {NoDay}
    BY DEF StoreRecord
  <2> QED
    BY <1>1, <1>2, <1>3, <2>1 DEF StoreInOrder
<1>9. \A d \in Day : InRevisionSet(new, d) => new.status[d] = "imported"
  BY <1>3 DEF StoreInOrder, InRevisionSet
<1>10. \A d \in Day : new.status[d] # "not_requested"
  BY <1>3 DEF StoreInOrder
<1>11. StoreInOrder(new)
  <2>1. new.lastWritten <= new.marker
    BY <1>1, <1>2, <1>3
  <2>2. /\ new.tail.onEmpty = "error" /\ new.tail.to <= new.marker
        /\ \A d \in Day : new.tail.next <= d /\ d <= new.tail.to => Settled(new, d)
    BY <1>2, <1>3, <1>5 DEF StoreInOrder
  <2> QED
    BY <1>6, <1>7, <1>8, <1>9, <1>10, <2>1, <2>2 DEF StoreInOrder
<1>12. Settles(st, new, first, last, "skipped")
  BY <1>3, <1>4 DEF Settles
<1> QED
  BY <1>11, <1>12 DEF new

\* Two saves, the first of which leaves the history as it is.
LEMMA ThenExtends ==
  ASSUME NEW old, NEW mid, NEW new, SameHistory(old, mid), Extends(mid, new)
  PROVE  Extends(old, new)
<1>1. CASE SameHistory(mid, new)
  BY <1>1 DEF SameHistory, Extends
<1>2. CASE \E first, last \in Day : \E what \in {"imported", "skipped"} :
             /\ what = "imported" => first = last
             /\ Settles(mid, new, first, last, what)
  <2>1. PICK first \in Day, last \in Day, what \in {"imported", "skipped"} :
           /\ what = "imported" => first = last
           /\ Settles(mid, new, first, last, what)
    BY <1>2
  <2>2. Settles(old, new, first, last, what)
    BY <2>1 DEF SameHistory, Settles, Follows
  <2> QED
    BY <2>1, <2>2 DEF Extends
<1> QED
  BY <1>1, <1>2 DEF Extends

-----------------------------------------------------------------------------
(* The steps *)

HistoryStep ==
  StoreInOrder(store') /\ BoundaryPast' /\ RunInOrder' /\ Extends(store, store')

Early == {"idle", "guard", "resume", "retention", "revisions", "compare", "checked", "work",
          "plan", "rewrite"}

LEMMA HistoryTyped ==
  ASSUME HistoryInv
  PROVE  /\ store \in StoreRecord /\ run \in RunRecord /\ today \in Date
         /\ StoreInOrder(store) /\ Extends(store, store)
BY DEF HistoryInv, PastInv, TypeInv, TypeOK, Extends, SameHistory

LEMMA HistoryInit ==
  ASSUME Init
  PROVE  HistoryInv
<1>1. PastInv
  BY PastInit
<1>2. StoreInOrder(store)
  <2>1. store.tail = NoTail /\ store.marker = NoDay /\ store.lastWritten = NoDay
    BY DEF Init, EmptyStore
  <2>2. \A d \in Day : store.status[d] = "none" /\ store.revisions[d] = NoRevision
    BY DEF Init, EmptyStore
  <2>3. \A d \in Day : ~Settled(store, d) /\ ~InRevisionSet(store, d)
    BY <2>2 DEF Settled, OutcomeOf, Skipped, InRevisionSet
  <2>4. \A d \in Day : ~(d <= NoDay)
    BY MaxDayAssumption DEF Day, NoDay
  <2> QED
    BY <2>1, <2>2, <2>3, <2>4 DEF StoreInOrder, NoTail, NoDay
<1>3. BoundaryPast
  BY DEF Init, EmptyStore, BoundaryPast, NoDay
<1>4. RunInOrder
  BY DEF Init, Idle, RunInOrder, RecoveryFollows, WalkFollows, DayFollows, NoBackfill, Writing
<1> QED
  BY <1>1, <1>2, <1>3, <1>4 DEF HistoryInv

\* A run that ends holds no day any more.
LEMMA StopInOrder ==
  ASSUME Stop
  PROVE  RunInOrder'
BY DEF Stop, Idle, RunInOrder, RecoveryFollows, WalkFollows, DayFollows, NoBackfill, Writing

\* Before the walk a run holds the day to be recovered only.
LEMMA EarlyInOrder ==
  ASSUME HistoryInv, run.pc \in Early \/ (run.pc \in Writing /\ run.caller = "rewrite"),
         run'.pc \in Early, run'.job = run.job, run'.recovery = run.recovery,
         store'.marker = store.marker
  PROVE  RunInOrder'
BY DEF HistoryInv, RunInOrder, RecoveryFollows, WalkFollows, DayFollows, NoBackfill, Writing,
       Early, Follows

\* A save that neither moves the marker nor changes the boundary.
LEMMA BoundaryStays ==
  ASSUME HistoryInv, store'.boundary = store.boundary, today' = today
  PROVE  BoundaryPast'
BY DEF HistoryInv, BoundaryPast

LEMMA GuardHistory ==
  ASSUME HistoryInv, Guard
  PROVE  HistoryStep
<1>1. today' = today
  BY DEF Guard, GuardRefuses, GuardAccepts, GuardSkipped, environment
<1>2. CASE GuardRefuses
  BY <1>1, <1>2, HistoryTyped, StopInOrder, BoundaryStays DEF GuardRefuses, HistoryStep
<1>3. CASE GuardAccepts
  <2>1. /\ StoreInOrder(store') /\ SameHistory(store, store')
        /\ store'.boundary = store.boundary
    <3>1. ClearPending(store).boundary = store.boundary
      BY HistoryTyped DEF ClearPending, StoreRecord
    <3> QED
      BY <1>3, <3>1, HistoryTyped, SettersInOrder DEF GuardAccepts, SameHistory
  <2>2. /\ run'.pc \in {"plan", "resume"} /\ run'.job = run.job
        /\ run'.recovery = IF StatisticsAgree THEN NoDay ELSE store.pending
    BY <1>3, HistoryTyped DEF GuardAccepts, RunRecord
  <2>3. ~StatisticsAgree => Follows(store, store.pending)
    BY <1>3 DEF GuardAccepts, GuardStops, PendingExplains, NextDay, Follows
  <2>4. RunInOrder'
    BY <2>1, <2>2, <2>3
       DEF HistoryInv, RunInOrder, RecoveryFollows, WalkFollows, DayFollows, NoBackfill, Writing,
           Follows, SameHistory
  <2> QED
    BY <1>1, <2>1, <2>4, BoundaryStays DEF HistoryStep, Extends
<1>4. CASE GuardSkipped
  <2>1. run'.pc = "resume" /\ run'.job = run.job /\ run'.recovery = run.recovery /\ store' = store
    BY <1>4, HistoryTyped DEF GuardSkipped, Goto, RunRecord
  <2>2. RunInOrder'
    BY <1>4, <2>1, EarlyInOrder DEF Early, GuardSkipped, At
  <2> QED
    BY <1>1, <2>1, <2>2, HistoryTyped, BoundaryStays DEF HistoryStep
<1> QED
  BY <1>2, <1>3, <1>4 DEF Guard

LEMMA RetentionHistory ==
  ASSUME HistoryInv, RetentionStep
  PROVE  HistoryStep
<1>1. today' = today /\ run.pc = "retention"
  BY DEF RetentionStep, RetentionDone, RetentionFails, environment, At
<1>2. Fallback <= today
  BY HistoryTyped, UsageImportAssumption DEF Fallback, Later, Date
<1>3. MeasuredBoundary <= today
  <2> DEFINE held == {d \in Day : d < today /\ ~Empty(Usage(d))}
  <2>1. held # {} => MinOf(held) \in held
    BY MinOfDays
  <2> HIDE DEF held
  <2>2. MeasuredBoundary = IF held = {} THEN Fallback ELSE MinOf(held)
    BY DEF MeasuredBoundary, held
  <2>3. \A d \in held : d <= today
    BY HistoryTyped DEF held, Day, Date
  <2> QED
    BY <1>2, <2>1, <2>2, <2>3
<1>4. store' = store \/ \E b : b <= today /\ store' = SetRetention(store, b, today)
  BY <1>2, <1>3 DEF RetentionStep, RetentionDone, RetentionFails
<1>5. StoreInOrder(store') /\ SameHistory(store, store')
  BY <1>4, HistoryTyped, SettersInOrder DEF SameHistory
<1>6. BoundaryPast'
  <2>1. \A b : SetRetention(store, b, today).boundary = b
    BY HistoryTyped DEF SetRetention, StoreRecord
  <2> QED
    BY <1>1, <1>4, <2>1, BoundaryStays DEF BoundaryPast
<1>7. CASE GoOn
  <2>1. run'.pc = "revisions" /\ run'.job = run.job /\ run'.recovery = run.recovery
    BY <1>7, HistoryTyped DEF GoOn, RunRecord
  <2>2. RunInOrder'
    BY <1>1, <1>5, <2>1, EarlyInOrder DEF Early, SameHistory
  <2> QED
    BY <1>5, <1>6, <2>2 DEF HistoryStep, Extends
<1>8. CASE Stop
  BY <1>5, <1>6, <1>8, StopInOrder DEF HistoryStep, Extends
<1> QED
  BY <1>7, <1>8 DEF RetentionStep, RetentionDone, RetentionFails

LEMMA GotoInOrder ==
  ASSUME HistoryInv, NEW pc \in Early, Goto(pc),
         run.pc \in Early \/ (run.pc \in Writing /\ run.caller = "rewrite"),
         store'.marker = store.marker
  PROVE  RunInOrder'
<1>1. run'.pc = pc /\ run'.job = run.job /\ run'.recovery = run.recovery
  BY HistoryTyped DEF Goto, RunRecord
<1> QED
  BY <1>1, EarlyInOrder

\* A rewrite goes over settled days, whether it takes over a stored range or not.
LEMMA BeginRewriteInOrder ==
  ASSUME NEW st \in StoreRecord, StoreInOrder(st), NEW first \in Day, st.status[first] = "imported"
  PROVE  LET new == BeginRewrite(st, first, st.lastWritten, st.lastWritten, "error") IN
         StoreInOrder(new) /\ SameHistory(st, new) /\ new.boundary = st.boundary
<1> DEFINE new == BeginRewrite(st, first, st.lastWritten, st.lastWritten, "error")
<1>1. \A d \in Day : first <= d /\ d <= st.marker => Settled(st, d)
  BY DEF StoreInOrder, Settled, OutcomeOf, Skipped
<1>2. new = [st EXCEPT !.tail = new.tail] /\ new.tail.onEmpty = "error" /\ new.tail.next = first
      /\ (new.tail.to = st.lastWritten \/ new.tail.to = st.tail.to)
      /\ new.boundary = st.boundary
  BY DEF BeginRewrite, SetTail, StoreRecord, TailRecord, StoreInOrder
<1>3. new.tail.to <= st.marker
  BY <1>2 DEF StoreInOrder
<1> HIDE DEF new
<1>4. \A d \in Day : d <= new.tail.to => d <= st.marker
  <2>1. new.tail.to \in Int /\ st.marker \in Int /\ Day \subseteq Int
    BY <1>2, HistoryNumbers DEF StoreRecord, TailRecord
  <2> QED
    BY <1>3, <2>1
<1> QED
  BY <1>1, <1>2, <1>3, <1>4, TailInOrder DEF new

LEMMA ReviseHistory ==
  ASSUME HistoryInv, Revise
  PROVE  HistoryStep
<1>1. today' = today /\ run.pc \in Early
  BY DEF Revise, FetchRevisions, RevisionsAlreadyChecked, CompareRevisions, RevisionsChecked,
         environment, At, Early
<1>2. CASE FetchRevisions
  <2>1. StoreInOrder(store') /\ SameHistory(store, store') /\ store'.boundary = store.boundary
    BY <1>2, HistoryTyped, SettersInOrder, BoundaryKept DEF FetchRevisions
  <2>2. Goto("compare") \/ (\E cache : run' = [run EXCEPT !.cache = cache]) \/ Stop
    BY <1>2 DEF FetchRevisions, RequestFails
  <2>3. ASSUME NEW cache, run' = [run EXCEPT !.cache = cache]
        PROVE  RunInOrder'
    <3>1. run'.pc = run.pc /\ run'.job = run.job /\ run'.recovery = run.recovery
      BY <2>3, HistoryTyped DEF RunRecord
    <3> QED
      BY <1>1, <2>1, <3>1, EarlyInOrder DEF SameHistory
  <2>4. RunInOrder'
    BY <1>1, <2>1, <2>2, <2>3, GotoInOrder, StopInOrder DEF SameHistory, Early
  <2> QED
    BY <1>1, <2>1, <2>4, BoundaryStays DEF HistoryStep, Extends
<1>3. CASE RevisionsAlreadyChecked
  BY <1>1, <1>3, HistoryTyped, GotoInOrder, BoundaryStays
     DEF RevisionsAlreadyChecked, HistoryStep, Early
<1>4. CASE CompareRevisions
  <2> DEFINE final == {d \in RevisionDaysOf(store) : Final(d)}
             changed == {d \in RevisionDaysOf(store) : Changed(d)}
             st == DropRevisions(store, final)
             first == MinOf(changed)
  <2>1. /\ st \in StoreRecord /\ StoreInOrder(st) /\ SameHistory(store, st)
        /\ st.boundary = store.boundary /\ st.status = store.status
    <3>1. st.status = store.status
      BY HistoryTyped DEF DropRevisions, StoreRecord
    <3> QED
      BY <3>1, HistoryTyped, DropRevisionsType, SettersInOrder, BoundaryKept
  <2>2. changed # {} => first \in Day /\ store.status[first] = "imported"
    BY MinOfDays, HistoryTyped DEF RevisionDaysOf, StoreInOrder
  <2> HIDE DEF st, first
  <2>3. CASE /\ changed # {}
             /\ store' = BeginRewrite(st, first, st.lastWritten, st.lastWritten, "error")
             /\ run' = [run EXCEPT !.pc = "rewrite", !.after = "checked"]
    <3>1. StoreInOrder(store') /\ SameHistory(st, store') /\ store'.boundary = store.boundary
      BY <2>1, <2>2, <2>3, BeginRewriteInOrder
    <3>2. run'.pc = "rewrite" /\ run'.job = run.job /\ run'.recovery = run.recovery
      BY <2>3, HistoryTyped DEF RunRecord
    <3>3. SameHistory(store, store')
      BY <2>1, <3>1 DEF SameHistory
    <3> QED
      BY <1>1, <3>1, <3>2, <3>3, EarlyInOrder, BoundaryStays DEF HistoryStep, Extends, SameHistory, Early
  <2>4. CASE store' = st /\ Goto("checked")
    BY <1>1, <2>1, <2>4, GotoInOrder, BoundaryStays DEF HistoryStep, Extends, SameHistory, Early
  <2> QED
    BY <1>4, <2>3, <2>4 DEF CompareRevisions, st, first
<1>5. CASE RevisionsChecked
  <2>1. StoreInOrder(store') /\ SameHistory(store, store') /\ store'.boundary = store.boundary
    BY <1>5, HistoryTyped, SettersInOrder, BoundaryKept DEF RevisionsChecked
  <2> QED
    BY <1>1, <1>5, <2>1, GotoInOrder, BoundaryStays
       DEF RevisionsChecked, HistoryStep, Extends, SameHistory, Early
<1> QED
  BY <1>2, <1>3, <1>4, <1>5 DEF Revise

\* A day that follows the history is open.
LEMMA FollowingDayIsOpen ==
  ASSUME NEW st \in StoreRecord, StoreInOrder(st), NEW day \in Day, Follows(st, day)
  PROVE  OutcomeOf(st, day) = "open" /\ st.marker < day
<1>1. st.marker < day
  BY HistoryNumbers DEF Follows
<1> QED
  BY <1>1, HistoryNumbers DEF StoreInOrder, Settled

\* The day being written is not a skipped one.
LEMMA DayWrittenNotSkipped ==
  ASSUME HistoryInv, run.pc \in {"fetch_day", "write", "verify"}
  PROVE  run.day \in Day /\ OutcomeOf(store, run.day) # "skipped"
<1>1. run.day \in Day
  BY DEF HistoryInv, PastInv, TypeInv, DayAtHand
<1>2. CASE Follows(store, run.day)
  BY <1>1, <1>2, HistoryTyped, FollowingDayIsOpen
<1>3. CASE store.status[run.day] = "imported"
  BY <1>1, <1>3 DEF OutcomeOf, Skipped
<1> QED
  BY <1>1, <1>2, <1>3 DEF HistoryInv, RunInOrder, DayFollows

LEMMA BeginWriteHistory ==
  ASSUME HistoryInv, today' = today, NEW day \in Day, NEW caller \in {"walk", "rewrite"},
         caller = "walk" => run.leading = NoDay /\ Follows(store, day),
         caller = "rewrite" => store.status[day] = "imported" /\ run.pc = "rewrite",
         BeginWrite(day, caller)
  PROVE  HistoryStep
<1>1. /\ StoreInOrder(store') /\ SameHistory(store, store') /\ store'.boundary = store.boundary
      /\ store'.status = store.status
  BY HistoryTyped, SettersInOrder, BoundaryKept
     DEF BeginWrite, SameHistory, SetPending, StoreRecord
<1>2. CASE Stop
  BY <1>1, <1>2, StopInOrder, BoundaryStays DEF HistoryStep, Extends
<1>3. CASE run' = [run EXCEPT !.pc = "write", !.day = day, !.caller = caller,
                              !.base = Baselines(day)]
  <2>1. /\ run'.pc = "write" /\ run'.day = day /\ run'.caller = caller /\ run'.job = run.job
        /\ run'.recovery = run.recovery /\ run'.leading = run.leading
    BY <1>3, HistoryTyped DEF RunRecord
  <2>2. RecoveryFollows'
    BY <1>1, <2>1 DEF RecoveryFollows, HistoryInv, RunInOrder, Writing, SameHistory, Follows
  <2>3. WalkFollows' /\ DayFollows' /\ NoBackfill'
    BY <1>1, <2>1
       DEF WalkFollows, DayFollows, NoBackfill, HistoryInv, RunInOrder, Writing, SameHistory, Follows
  <2> QED
    BY <1>1, <2>2, <2>3, BoundaryStays DEF HistoryStep, Extends, RunInOrder
<1> QED
  BY <1>2, <1>3 DEF BeginWrite

LEMMA WriteHistory ==
  ASSUME HistoryInv, Write
  PROVE  HistoryStep
<1>1. today' = today /\ run.pc \in Writing
  BY DEF Write, WriteRefused, WriteRows, VerifyPasses, VerifyTimesOut, TrackRevision, Advance,
         environment, At, Writing
<1>2. run.day \in Day
  BY <1>1 DEF HistoryInv, PastInv, TypeInv, DayAtHand, Writing
<1>3. CASE WriteRefused
  <2> DEFINE forgets == run.caller \in {"append", "reimport"} \/ ~InsideHistory(run.day)
             st == IF forgets THEN ClearPending(store) ELSE store
  <2>1. /\ st \in StoreRecord /\ StoreInOrder(st) /\ SameHistory(store, st)
        /\ st.boundary = store.boundary
    BY HistoryTyped, PendingType, SettersInOrder, BoundaryKept DEF SameHistory
  <2>2. store' = MarkDay(st, run.day, "failed")
    BY <1>3 DEF WriteRefused
  <2> HIDE DEF st
  <2>3. OutcomeOf(st, run.day) # "skipped"
    BY <1>2, <1>3, <2>1, DayWrittenNotSkipped DEF SameHistory, WriteRefused, At
  <2>4. StoreInOrder(store') /\ SameHistory(st, store') /\ store'.boundary = st.boundary
    BY <1>2, <2>1, <2>2, <2>3, MarkDayInOrder, BoundaryKept
  <2>5. SameHistory(store, store')
    BY <2>1, <2>4 DEF SameHistory
  <2>6. RunInOrder'
    BY <1>3, StopInOrder DEF WriteRefused
  <2> QED
    BY <1>1, <2>1, <2>4, <2>5, <2>6, BoundaryStays DEF HistoryStep, Extends
<1>4. CASE WriteRows
  <2>1. /\ run'.pc = "verify" /\ run'.day = run.day /\ run'.caller = run.caller
        /\ run'.job = run.job /\ run'.recovery = run.recovery /\ run'.leading = run.leading
        /\ run.pc = "write" /\ store' = store
    BY <1>4, HistoryTyped DEF WriteRows, Goto, RunRecord, At
  <2>2. RunInOrder'
    BY <2>1 DEF HistoryInv, RunInOrder, RecoveryFollows, WalkFollows, DayFollows, NoBackfill,
                Writing
  <2> QED
    BY <1>1, <2>1, <2>2, HistoryTyped, BoundaryStays DEF HistoryStep
<1>5. CASE VerifyPasses
  <2>1. /\ run'.pc = "track" /\ run'.day = run.day /\ run'.caller = run.caller
        /\ run'.job = run.job /\ run'.recovery = run.recovery /\ run'.leading = run.leading
        /\ run.pc = "verify" /\ store' = MarkImported(store, run.day)
    BY <1>5, HistoryTyped DEF VerifyPasses, Goto, RunRecord, At
  <2>2. store'.status[run.day] = "imported" /\ store'.boundary = store.boundary
    BY <1>2, <2>1, HistoryTyped, BoundaryKept DEF MarkImported, StoreRecord
  <2>3. CASE Follows(store, run.day) /\ run.caller # "rewrite"
    <3>1. StoreInOrder(store') /\ Settles(store, store', run.day, run.day, "imported")
      BY <1>2, <2>1, <2>3, HistoryTyped, ImportSettles
    <3>2. RunInOrder'
      BY <2>1, <2>2, <2>3, <3>1
         DEF HistoryInv, RunInOrder, RecoveryFollows, WalkFollows, DayFollows, NoBackfill,
             Writing, Settles
    <3> QED
      BY <1>1, <1>2, <2>2, <3>1, <3>2, BoundaryStays DEF HistoryStep, Extends
  <2>4. CASE store.status[run.day] = "imported" /\ run.caller # "walk"
    <3>1. StoreInOrder(store') /\ SameHistory(store, store')
      BY <1>2, <2>1, <2>4, HistoryTyped, ImportAgainInOrder
    <3>2. RunInOrder'
      BY <2>1, <2>2, <2>4, <3>1
         DEF HistoryInv, RunInOrder, RecoveryFollows, WalkFollows, DayFollows, NoBackfill,
             Writing, SameHistory, Follows
    <3> QED
      BY <1>1, <2>2, <3>1, <3>2, BoundaryStays DEF HistoryStep, Extends
  <2> QED
    BY <2>1, <2>3, <2>4 DEF HistoryInv, RunInOrder, DayFollows
<1>6. CASE VerifyTimesOut
  <2>1. OutcomeOf(store, run.day) # "skipped"
    BY <1>6, DayWrittenNotSkipped DEF VerifyTimesOut, At
  <2>2. /\ StoreInOrder(store') /\ SameHistory(store, store')
        /\ store'.boundary = store.boundary
    BY <1>2, <1>6, <2>1, HistoryTyped, MarkDayInOrder, BoundaryKept DEF VerifyTimesOut
  <2>3. RunInOrder'
    BY <1>6, StopInOrder DEF VerifyTimesOut
  <2> QED
    BY <1>1, <2>2, <2>3, BoundaryStays DEF HistoryStep, Extends
<1>7. CASE TrackRevision
  <2>1. /\ run'.pc = "advance" /\ run'.day = run.day /\ run'.caller = run.caller
        /\ run'.job = run.job /\ run'.recovery = run.recovery /\ run'.leading = run.leading
        /\ run.pc = "track"
    BY <1>7, HistoryTyped DEF TrackRevision, Goto, RunRecord, At
  <2>2. store.status[run.day] = "imported"
    BY <2>1 DEF HistoryInv, RunInOrder, DayFollows
  <2>3. /\ StoreInOrder(store') /\ SameHistory(store, store')
        /\ store'.boundary = store.boundary /\ store'.status = store.status
    BY <1>2, <1>7, <2>2, HistoryTyped, SetRevisionInOrder, SettersInOrder, BoundaryKept
       DEF TrackRevision, SetRevision, DropRevisions, StoreRecord
  <2>4. RunInOrder'
    BY <2>1, <2>3 DEF HistoryInv, RunInOrder, RecoveryFollows, WalkFollows, DayFollows,
                      NoBackfill, Writing, SameHistory, Follows
  <2> QED
    BY <1>1, <2>3, <2>4, BoundaryStays DEF HistoryStep, Extends
<1>8. CASE Advance
  <2>1. run.pc = "advance" /\ store.status[run.day] = "imported"
    BY <1>8 DEF Advance, At, HistoryInv, RunInOrder, DayFollows
  <2>2. CASE /\ run.caller = "walk"
             /\ run' = [run EXCEPT !.pc = "walk", !.day = @ + 1]
             /\ UNCHANGED store
    <3>1. /\ run'.pc = "walk" /\ run'.day = run.day + 1 /\ run'.job = run.job
          /\ run'.leading = run.leading
      BY <2>2, HistoryTyped DEF RunRecord
    <3>2. RunInOrder'
      BY <2>1, <2>2, <3>1
         DEF HistoryInv, RunInOrder, RecoveryFollows, WalkFollows, DayFollows, NoBackfill,
             Writing, Follows
    <3> QED
      BY <1>1, <2>2, <3>2, HistoryTyped, BoundaryStays DEF HistoryStep
  <2>3. CASE /\ run.caller = "rewrite"
             /\ Goto("rewrite")
             /\ store' = [store EXCEPT !.tail.next = run.day + 1]
    <3>1. /\ store' = [store EXCEPT !.tail = store'.tail] /\ store'.tail.onEmpty = "error"
          /\ store'.tail.to = store.tail.to /\ store'.tail.next = run.day + 1
          /\ store'.boundary = store.boundary
      BY <2>3, HistoryTyped DEF StoreRecord, TailRecord, StoreInOrder
    <3>2. \A d \in Day : run.day + 1 <= d /\ d <= store.tail.to => Settled(store, d)
      <4>1. Settled(store, run.day)
        BY <2>1 DEF Settled, OutcomeOf, Skipped
      <4>2. \A d \in Day : d <= store.tail.to => d <= store.marker
        BY HistoryTyped, HistoryNumbers DEF StoreInOrder
      <4>3. \A d \in Day : run.day + 1 <= d => run.day <= d
        BY <1>2 DEF Day
      <4> QED
        BY <1>2, <4>1, <4>2, <4>3, HistoryTyped DEF StoreInOrder
    <3>3. StoreInOrder(store') /\ SameHistory(store, store')
      BY <3>1, <3>2, HistoryTyped, TailInOrder DEF StoreInOrder
    <3> QED
      BY <1>1, <2>3, <3>1, <3>3, GotoInOrder, BoundaryStays
         DEF HistoryStep, Extends, SameHistory, Early
  <2>4. CASE Stop /\ UNCHANGED store
    BY <1>1, <2>4, HistoryTyped, StopInOrder, BoundaryStays DEF HistoryStep
  <2> QED
    BY <1>8, <2>2, <2>3, <2>4 DEF Advance
<1> QED
  BY <1>3, <1>4, <1>5, <1>6, <1>7, <1>8 DEF Write

LEMMA WalkHistory ==
  ASSUME HistoryInv, Walk
  PROVE  HistoryStep
<1>1. today' = today
  BY DEF Walk, WalkStart, WalkFetch, WalkLeading, WalkSkipsLeading, WalkPatience, WalkWrite,
         WalkDone, NothingToWalk, environment
<1>2. CASE WalkStart
  <2> DEFINE b == store.boundary
             start == IF run.recovery # NoDay THEN run.recovery
                      ELSE IF store.marker # NoDay THEN store.marker + 1 ELSE b
             last == Earlier(b - 1, Yesterday)
  <2>1. /\ run.pc = "work" /\ run.job = "run"
        /\ IF start < b /\ run.recovery # NoDay THEN Stop /\ UNCHANGED store
           ELSE /\ store' = IF start < b THEN MarkSkipped(store, start, last, "unavailable")
                            ELSE store
                /\ run' = [run EXCEPT !.pc = "walk", !.yesterday = Yesterday,
                                      !.day = IF start < b THEN last + 1 ELSE start,
                                      !.windowEnd = (IF start < b THEN last + 1 ELSE start) - 1,
                                      !.leading = NoDay]
    BY <1>2 DEF WalkStart, At
  <2>2. /\ b \in Date /\ b <= today /\ today \in Date
        /\ run.recovery = NoDay \/ Follows(store, run.recovery)
    BY <2>1, HistoryTyped
       DEF HistoryInv, PastInv, TypeInv, BoundarySet, BoundaryPast, RunInOrder, RecoveryFollows, Writing
  <2>3. Follows(store, start)
    BY <2>2 DEF Follows
  <2> HIDE DEF b, start
  <2>4. CASE start < b /\ run.recovery # NoDay
    BY <1>1, <2>1, <2>4, HistoryTyped, StopInOrder, BoundaryStays DEF HistoryStep
  <2>5. CASE start < b /\ run.recovery = NoDay
    <3>1. start = store.marker + 1 /\ store.marker # NoDay /\ store.marker \in Day
      <4>1. store.marker \in Day \cup {NoDay} /\ ~(b < b)
        BY <2>2, HistoryTyped DEF StoreRecord, Date
      <4> QED
        BY <2>5, <4>1 DEF start
    <3>2. last = b - 1 /\ start <= last /\ start \in Day /\ last \in Day
      <4>1. last = b - 1
        BY <2>2 DEF Earlier, Yesterday, Date
      <4> QED
        BY <2>2, <2>5, <3>1, <4>1, MaxDayAssumption DEF Day, Date
    <3>3. store' = MarkSkipped(store, start, last, "unavailable")
      BY <2>1, <2>5
    <3> HIDE DEF last
    <3>4. StoreInOrder(store') /\ Settles(store, store', start, last, "skipped")
      BY <2>3, <3>2, <3>3, HistoryTyped, SkipSettles
    <3>5. /\ run'.pc = "walk" /\ run'.day = last + 1 /\ run'.leading = NoDay
          /\ run'.job = run.job
      BY <2>1, <2>5, HistoryTyped DEF RunRecord
    <3>6. RunInOrder'
      BY <3>4, <3>5 DEF HistoryInv, RunInOrder, RecoveryFollows, WalkFollows, DayFollows,
                        NoBackfill, Writing, Follows, Settles
    <3>7. store'.boundary = store.boundary
      BY <3>3, HistoryTyped, BoundaryKept
    <3> QED
      BY <1>1, <3>2, <3>4, <3>6, <3>7, BoundaryStays DEF HistoryStep, Extends
  <2>6. CASE ~(start < b)
    <3>1. store' = store /\ run'.pc = "walk" /\ run'.day = start /\ run'.leading = NoDay
          /\ run'.job = run.job
      BY <2>1, <2>6, HistoryTyped DEF RunRecord
    <3>2. RunInOrder'
      BY <2>3, <3>1 DEF HistoryInv, RunInOrder, RecoveryFollows, WalkFollows, DayFollows,
                        NoBackfill, Writing, Follows
    <3> QED
      BY <1>1, <3>1, <3>2, HistoryTyped, BoundaryStays DEF HistoryStep
  <2> QED
    BY <2>4, <2>5, <2>6
<1>3. CASE WalkFetch
  <2>1. store' = store /\ run.pc = "walk"
    BY <1>3 DEF WalkFetch, WalkAt, At
  <2>2. Stop \/ \E cache, end : run' = [run EXCEPT !.cache = cache, !.windowEnd = end]
    BY <1>3 DEF WalkFetch, RequestFails
  <2>3. ASSUME NEW cache, NEW end, run' = [run EXCEPT !.cache = cache, !.windowEnd = end]
        PROVE  RunInOrder'
    <3>1. /\ run'.pc = run.pc /\ run'.day = run.day /\ run'.leading = run.leading
          /\ run'.job = run.job /\ run'.recovery = run.recovery /\ run'.caller = run.caller
      BY <2>3, HistoryTyped DEF RunRecord
    <3> QED
      BY <2>1, <3>1 DEF HistoryInv, RunInOrder, RecoveryFollows, WalkFollows, DayFollows,
                        NoBackfill, Writing
  <2> QED
    BY <1>1, <2>1, <2>2, <2>3, HistoryTyped, StopInOrder, BoundaryStays DEF HistoryStep
<1>4. CASE WalkLeading
  <2>1. store' = store /\ store.lastWritten = NoDay
    BY <1>4 DEF WalkLeading
  <2>2. PICK d \in Day :
          /\ WalkDay(d)
          /\ run' = [run EXCEPT !.leading = IF @ = NoDay THEN d ELSE @, !.day = d + 1]
    BY <1>4 DEF WalkLeading
  <2>3. run.pc = "walk" /\ d = run.day
    BY <2>2 DEF WalkDay, WalkAt, At
  <2>4. /\ run'.pc = "walk" /\ run'.day = d + 1 /\ run'.job = run.job
        /\ run'.leading = IF run.leading = NoDay THEN d ELSE run.leading
    BY <2>2, <2>3, HistoryTyped DEF RunRecord
  <2>5. d \in Nat /\ d # NoDay /\ (run.leading # NoDay => run.leading \in Nat)
    BY HistoryTyped, HistoryNumbers DEF RunRecord
  <2>6. RunInOrder'
    <3>1. run.leading = NoDay => Follows(store, d)
      BY <2>3 DEF HistoryInv, RunInOrder, WalkFollows
    <3>2. run.leading # NoDay => Follows(store, run.leading) /\ run.leading < d
      BY <2>3 DEF HistoryInv, RunInOrder, WalkFollows
    <3>3. /\ run'.leading # NoDay /\ Follows(store, run'.leading) /\ run'.leading < run'.day
      BY <2>4, <2>5, <3>1, <3>2
    <3>4. WalkFollows'
      BY <2>1, <3>3 DEF WalkFollows, Follows
    <3> QED
      BY <2>4, <3>4 DEF HistoryInv, RunInOrder, RecoveryFollows, DayFollows, NoBackfill, Writing
  <2> QED
    BY <1>1, <2>1, <2>6, HistoryTyped, BoundaryStays DEF HistoryStep
<1>5. CASE WalkSkipsLeading
  <2>1. PICK d \in Day :
          /\ WalkDay(d) /\ run.leading # NoDay
          /\ store' = SetRetention(MarkSkipped(store, run.leading, d - 1, "unavailable"), d, today)
          /\ run' = [run EXCEPT !.leading = NoDay]
    BY <1>5 DEF WalkSkipsLeading
  <2>2. run.pc = "walk" /\ d = run.day /\ d <= run.yesterday
    BY <2>1 DEF WalkDay, WalkAt, At
  <2>3. Follows(store, run.leading) /\ run.leading < d
    BY <2>1, <2>2 DEF HistoryInv, RunInOrder, WalkFollows
  <2>4. run.leading \in Day /\ d - 1 \in Day /\ run.leading <= d - 1
    <3>1. run.leading \in Day
      BY <2>1, HistoryTyped DEF RunRecord
    <3> QED
      BY <2>3, <3>1, MaxDayAssumption DEF Day
  <2> DEFINE st == MarkSkipped(store, run.leading, d - 1, "unavailable")
  <2>5. /\ st \in StoreRecord /\ StoreInOrder(st)
        /\ Settles(store, st, run.leading, d - 1, "skipped")
    BY <2>3, <2>4, HistoryTyped, SkipSettles, MarkSkippedType DEF Skipped
  <2> HIDE DEF st
  <2>6. StoreInOrder(store') /\ SameHistory(st, store')
    BY <2>1, <2>5, SettersInOrder DEF st
  <2>7. Settles(store, store', run.leading, d - 1, "skipped")
    BY <2>5, <2>6 DEF Settles, SameHistory
  <2>8. /\ run'.pc = "walk" /\ run'.day = d /\ run'.leading = NoDay /\ run'.job = run.job
    BY <2>1, <2>2, HistoryTyped DEF RunRecord
  <2>9. RunInOrder'
    <3>1. store'.marker = d - 1 /\ d = (d - 1) + 1
      BY <2>7 DEF Settles, Day
    <3> QED
      BY <2>8, <3>1 DEF HistoryInv, RunInOrder, RecoveryFollows, WalkFollows, DayFollows,
                        NoBackfill, Writing, Follows
  <2>10. BoundaryPast'
    <3>1. store'.boundary = d
      BY <2>1, <2>5 DEF st, SetRetention, StoreRecord
    <3> QED
      BY <1>1, <2>2, <3>1, HistoryTyped
         DEF BoundaryPast, HistoryInv, PastInv, RunPast, RunRecord, Day, Date
  <2> QED
    BY <2>4, <2>6, <2>7, <2>9, <2>10 DEF HistoryStep, Extends
<1>6. CASE WalkPatience
  <2>1. PICK d \in Day :
          /\ WalkDay(d) /\ store.lastWritten # NoDay
          /\ \/ /\ store' = MarkSkipped(NoteEmpty(store, d, today), d, d, "gap")
                /\ run' = [run EXCEPT !.day = d + 1]
             \/ store' = NoteEmpty(store, d, today) /\ Stop
    BY <1>6 DEF WalkPatience, RequestFails
  <2>2. run.pc = "walk" /\ d = run.day
    BY <2>1 DEF WalkDay, WalkAt, At
  <2>3. run.leading = NoDay /\ Follows(store, d)
    BY <2>1, <2>2 DEF HistoryInv, RunInOrder, WalkFollows
  <2>4. OutcomeOf(store, d) # "skipped"
    BY <2>3, HistoryTyped, FollowingDayIsOpen
  <2> DEFINE st == NoteEmpty(store, d, today)
  <2>5. /\ st \in StoreRecord /\ StoreInOrder(st) /\ SameHistory(store, st)
        /\ st.boundary = store.boundary
    BY <2>4, HistoryTyped, NoteEmptyType, NoteEmptyInOrder, BoundaryKept
  <2> HIDE DEF st
  <2>6. CASE store' = MarkSkipped(st, d, d, "gap") /\ run' = [run EXCEPT !.day = d + 1]
    <3>1. Follows(st, d) /\ d <= d
      BY <2>3, <2>5 DEF SameHistory, Follows, Day
    <3>2. StoreInOrder(store') /\ Settles(st, store', d, d, "skipped")
      BY <2>5, <2>6, <3>1, SkipSettles
    <3>3. Extends(store, store')
      <4>1. Extends(st, store')
        BY <3>2 DEF Extends
      <4> QED
        BY <2>5, <4>1, ThenExtends
    <3>4. store'.boundary = store.boundary
      BY <2>5, <2>6, BoundaryKept
    <3>5. /\ run'.pc = "walk" /\ run'.day = d + 1 /\ run'.leading = NoDay /\ run'.job = run.job
      BY <2>2, <2>3, <2>6, HistoryTyped DEF RunRecord
    <3>6. RunInOrder'
      BY <3>2, <3>5 DEF HistoryInv, RunInOrder, RecoveryFollows, WalkFollows, DayFollows,
                        NoBackfill, Writing, Follows, Settles
    <3> QED
      BY <1>1, <3>2, <3>3, <3>4, <3>6, BoundaryStays DEF HistoryStep
  <2>7. CASE store' = st /\ Stop
    BY <1>1, <2>5, <2>7, StopInOrder, BoundaryStays DEF HistoryStep, Extends
  <2> QED
    BY <2>1, <2>6, <2>7 DEF st
<1>7. CASE WalkWrite
  <2>1. PICK d \in Day : WalkDay(d) /\ run.leading = NoDay /\ BeginWrite(d, "walk")
    BY <1>7 DEF WalkWrite
  <2>2. Follows(store, d)
    BY <2>1 DEF WalkDay, WalkAt, At, HistoryInv, RunInOrder, WalkFollows
  <2> QED
    BY <1>1, <2>1, <2>2, BeginWriteHistory
<1>8. CASE WalkDone \/ NothingToWalk
  BY <1>1, <1>8, HistoryTyped, StopInOrder, BoundaryStays DEF WalkDone, NothingToWalk, HistoryStep
<1> QED
  BY <1>2, <1>3, <1>4, <1>5, <1>6, <1>7, <1>8 DEF Walk

LEMMA RewriteHistory ==
  ASSUME HistoryInv, Rewrite
  PROVE  HistoryStep
<1>1. today' = today /\ run.pc \in Early
  BY DEF Rewrite, ResumeTail, RewriteSkip, RewriteFetch, RewriteUnavailable, RewritePatience,
         RewriteWrite, RewriteDone, environment, At, RewriteAt, RewriteDay, Early
<1>2. CASE ResumeTail
  <2>1. store' = store
    BY <1>2 DEF ResumeTail
  <2>2. CASE run' = [run EXCEPT !.pc = "rewrite", !.after = "retention"]
    <3>1. run'.pc = "rewrite" /\ run'.job = run.job /\ run'.recovery = run.recovery
      BY <2>2, HistoryTyped DEF RunRecord
    <3> QED
      BY <1>1, <2>1, <3>1, HistoryTyped, EarlyInOrder, BoundaryStays DEF HistoryStep, Early
  <2>3. CASE Goto("retention")
    BY <1>1, <2>1, <2>3, HistoryTyped, GotoInOrder, BoundaryStays DEF HistoryStep, Early
  <2> QED
    BY <1>2, <2>2, <2>3 DEF ResumeTail
<1>3. CASE RewriteSkip
  <2>1. PICK d \in Day : /\ d = store.tail.next /\ d <= store.tail.to
                         /\ store' = [store EXCEPT !.tail.next = d + 1]
    BY <1>3 DEF RewriteSkip, RewriteAt
  <2>2. run' = run
    BY <1>3 DEF RewriteSkip
  <2>3. /\ store' = [store EXCEPT !.tail = store'.tail] /\ store'.tail.onEmpty = "error"
        /\ store'.tail.to = store.tail.to /\ store'.tail.next = d + 1
        /\ store'.boundary = store.boundary
    BY <2>1, HistoryTyped DEF StoreRecord, TailRecord, StoreInOrder
  <2>4. \A e \in Day : d + 1 <= e => store.tail.next <= e
    BY <2>1 DEF Day
  <2>5. StoreInOrder(store') /\ SameHistory(store, store')
    BY <2>3, <2>4, HistoryTyped, TailInOrder DEF StoreInOrder
  <2> QED
    BY <1>1, <2>2, <2>3, <2>5, EarlyInOrder, BoundaryStays DEF HistoryStep, Extends, SameHistory
<1>4. CASE RewriteFetch
  <2>1. store' = store
    BY <1>4 DEF RewriteFetch
  <2>2. Stop \/ \E cache : run' = [run EXCEPT !.cache = cache]
    BY <1>4 DEF RewriteFetch, RequestFails
  <2>3. ASSUME NEW cache, run' = [run EXCEPT !.cache = cache]
        PROVE  RunInOrder'
    <3>1. run'.pc = run.pc /\ run'.job = run.job /\ run'.recovery = run.recovery
      BY <2>3, HistoryTyped DEF RunRecord
    <3> QED
      BY <1>1, <2>1, <3>1, EarlyInOrder
  <2> QED
    BY <1>1, <2>1, <2>2, <2>3, HistoryTyped, StopInOrder, BoundaryStays DEF HistoryStep
<1>5. CASE RewriteUnavailable
  BY <1>1, <1>5, HistoryTyped, StopInOrder, BoundaryStays DEF RewriteUnavailable, HistoryStep
<1>6. CASE RewritePatience
  BY <1>6, HistoryTyped DEF RewritePatience, StoreInOrder
<1>7. CASE RewriteWrite
  <2>1. PICK d \in Day : RewriteDay(d) /\ BeginWrite(d, "rewrite")
    BY <1>7 DEF RewriteWrite
  <2>2. Settled(store, d) /\ store.status[d] # "not_requested"
    BY <2>1, HistoryTyped DEF RewriteDay, RewriteAt, StoreInOrder, Day
  <2>3. store.status[d] = "imported" /\ run.pc = "rewrite"
    BY <2>1, <2>2 DEF RewriteDay, RewriteAt, RewriteSkips, At, Settled, OutcomeOf
  <2> QED
    BY <1>1, <2>1, <2>3, BeginWriteHistory
<1>8. CASE RewriteDone
  <2>1. /\ store' = [store EXCEPT !.tail = store'.tail] /\ store'.tail = NoTail
        /\ store'.boundary = store.boundary
    BY <1>8, HistoryTyped DEF RewriteDone, SetTail, StoreRecord
  <2>2. StoreInOrder(store') /\ SameHistory(store, store')
    <3>1. /\ NoTail.to <= store.marker /\ NoTail.onEmpty = "error"
          /\ \A d \in Day : ~(d <= NoTail.to)
      BY HistoryTyped, HistoryNumbers DEF NoTail, Day
    <3> QED
      BY <2>1, <3>1, HistoryTyped, TailInOrder
  <2>3. Stop \/ (Goto(run.after) /\ run.after \in Early)
    BY <1>8, HistoryTyped DEF RewriteDone, RunRecord, Early
  <2> QED
    BY <1>1, <2>1, <2>2, <2>3, GotoInOrder, StopInOrder, BoundaryStays
       DEF HistoryStep, Extends, SameHistory
<1> QED
  BY <1>2, <1>3, <1>4, <1>5, <1>6, <1>7, <1>8 DEF Rewrite

LEMMA ImportDayHistory ==
  ASSUME HistoryInv, ImportDay
  PROVE  HistoryStep
<1>1. today' = today
  BY DEF ImportDay, PlanAppend, PlanReimport, PlanRefused, FetchDay, environment
<1>2. ASSUME store' = store, run.from \in Day, run.pc = "plan",
             NEW caller \in {"append", "reimport"}, NEW base,
             run' = [run EXCEPT !.pc = "fetch_day", !.day = run.from, !.caller = caller,
                                !.base = base],
             Follows(store, run.from) \/ store.status[run.from] = "imported"
      PROVE  HistoryStep
  <2>1. /\ run'.pc = "fetch_day" /\ run'.day = run.from /\ run'.caller = caller
        /\ run'.job = run.job
    BY <1>2, HistoryTyped DEF RunRecord
  <2>2. RunInOrder'
    BY <1>2, <2>1 DEF HistoryInv, RunInOrder, RecoveryFollows, WalkFollows, DayFollows,
                      NoBackfill, Writing, Follows
  <2> QED
    BY <1>1, <1>2, <2>2, HistoryTyped, BoundaryStays DEF HistoryStep
<1>3. run.pc = "plan" => run.from \in Day
  BY DEF HistoryInv, PastInv, TypeInv, DayRequested
<1>4. CASE PlanAppend
  <2>1. Follows(store, run.from) /\ store' = store /\ run.pc = "plan"
    BY <1>4 DEF PlanAppend, HistoryInv, RunInOrder, RecoveryFollows, Follows, At, Writing
  <2>2. Stop \/ run' = [run EXCEPT !.pc = "fetch_day", !.day = run.from, !.caller = "append",
                                   !.base = Baselines(run.from)]
    BY <1>4 DEF PlanAppend
  <2> QED
    BY <1>1, <1>2, <1>3, <2>1, <2>2, HistoryTyped, StopInOrder, BoundaryStays DEF HistoryStep
<1>5. CASE PlanReimport
  <2>1. run.from = store.lastWritten /\ store' = store /\ run.pc = "plan"
    BY <1>5 DEF PlanReimport, At
  <2>2. store.status[run.from] = "imported"
    BY <1>3, <2>1, HistoryTyped, HistoryNumbers DEF StoreInOrder
  <2>3. Stop \/ run' = [run EXCEPT !.pc = "fetch_day", !.day = run.from, !.caller = "reimport",
                                   !.base = ReimportBase(run.from)]
    BY <1>5 DEF PlanReimport
  <2> QED
    BY <1>1, <1>2, <1>3, <2>1, <2>2, <2>3, HistoryTyped, StopInOrder, BoundaryStays DEF HistoryStep
<1>6. CASE PlanRefused
  BY <1>1, <1>6, HistoryTyped, StopInOrder, BoundaryStays DEF PlanRefused, HistoryStep
<1>7. CASE FetchDay
  <2>1. /\ StoreInOrder(store') /\ SameHistory(store, store')
        /\ store'.boundary = store.boundary /\ store'.status = store.status
        /\ store'.lastWritten = store.lastWritten
    BY <1>7, HistoryTyped, SettersInOrder, BoundaryKept
       DEF FetchDay, SameHistory, SetPending, StoreRecord
  <2>2. run.pc = "fetch_day"
    BY <1>7 DEF FetchDay, At
  <2>3. Stop \/ run' = [run EXCEPT !.pc = "write", !.cache[run.day] = Usage(run.day)]
    BY <1>7 DEF FetchDay, RequestFails
  <2>4. CASE run' = [run EXCEPT !.pc = "write", !.cache[run.day] = Usage(run.day)]
    <3>1. /\ run'.pc = "write" /\ run'.day = run.day /\ run'.caller = run.caller
          /\ run'.job = run.job
      BY <2>4, HistoryTyped DEF RunRecord
    <3>2. RunInOrder'
      BY <2>1, <2>2, <3>1 DEF HistoryInv, RunInOrder, RecoveryFollows, WalkFollows, DayFollows,
                              NoBackfill, Writing, Follows, SameHistory
    <3> QED
      BY <1>1, <2>1, <3>2, BoundaryStays DEF HistoryStep, Extends
  <2> QED
    BY <1>1, <2>1, <2>3, <2>4, StopInOrder, BoundaryStays DEF HistoryStep, Extends
<1> QED
  BY <1>4, <1>5, <1>6, <1>7 DEF ImportDay

\* The calendar, Amber, the recorder, a crash and the user leave the history alone; with
\* backfills excluded they start no run that could do otherwise.
LEMMA OthersHistory ==
  ASSUME HistoryInv, "backfill" \notin Services, ScheduledRun \/ RunNow \/ User \/ Environment
  PROVE  HistoryStep
<1>1. store' = store \/ \E since : store' = [store EXCEPT !.since = since]
  BY DEF ScheduledRun, RunNow, Begin, User, StartBackfill, StartImportDay, AddChannels, LoadChannels,
         SetMode, Environment, Tick, Publish, UnexpectedChannel, Commit, Crash
<1>2. StoreInOrder(store') /\ SameHistory(store, store')
  <2>1. CASE store' = store
    BY <2>1, HistoryTyped DEF SameHistory
  <2>2. ASSUME NEW since, store' = [store EXCEPT !.since = since]
        PROVE  StoreInOrder(store') /\ SameHistory(store, store')
    <3>1. /\ store'.marker = store.marker /\ store'.lastWritten = store.lastWritten
          /\ store'.status = store.status /\ store'.tail = store.tail
          /\ store'.revisions = store.revisions
      BY <2>2, HistoryTyped DEF StoreRecord
    <3> QED
      BY <3>1, HistoryTyped, OtherFieldsInOrder DEF StoreInOrder, InRevisionSet
  <2> QED
    BY <1>1, <2>1, <2>2
<1>3. /\ store'.boundary = store.boundary /\ store'.status = store.status
      /\ store'.lastWritten = store.lastWritten
  BY <1>1, HistoryTyped DEF StoreRecord
<1>4. today' \in {today, today + 1}
  BY DEF ScheduledRun, RunNow, Begin, User, StartBackfill, StartImportDay, AddChannels, LoadChannels,
         SetMode, Environment, Tick, Publish, UnexpectedChannel, Commit, Crash, environment
<1>5. BoundaryPast'
  <2>1. store.boundary \in Int /\ today \in Int
    BY HistoryTyped DEF StoreRecord, Date, NoDay
  <2> QED
    BY <1>3, <1>4, <2>1 DEF HistoryInv, BoundaryPast
<1>6. \/ Stop
      \/ run' = run
      \/ /\ run.pc = "idle" /\ run'.pc = "guard" /\ run'.recovery = run.recovery
         /\ run'.job \in {run.job, "import_day"}
  <2>1. CASE ScheduledRun \/ RunNow
    <3>1. run.pc = "idle" /\ run' = [run EXCEPT !.pc = "guard"]
      BY <2>1 DEF ScheduledRun, RunNow, Begin, At
    <3> QED
      BY <3>1, HistoryTyped DEF RunRecord
  <2>2. CASE User
    <3>1. \/ run' = run
          \/ \E day : /\ run.pc = "idle"
                      /\ run' = [run EXCEPT !.pc = "guard", !.job = "import_day", !.from = day]
      BY <2>2 DEF User, StartBackfill, StartImportDay, AddChannels, LoadChannels, SetMode,
                 Serve, At
    <3> QED
      BY <3>1, HistoryTyped DEF RunRecord
  <2>3. CASE Environment
    BY <2>3 DEF Environment, Tick, Publish, UnexpectedChannel, Commit, Crash
  <2> QED
    BY <2>1, <2>2, <2>3
<1>7. CASE run' = run
  BY <1>2, <1>3, <1>5, <1>7
     DEF HistoryStep, Extends, HistoryInv, RunInOrder, RecoveryFollows, WalkFollows, DayFollows,
         NoBackfill, Follows, SameHistory
<1>8. CASE /\ run.pc = "idle" /\ run'.pc = "guard" /\ run'.recovery = run.recovery
           /\ run'.job \in {run.job, "import_day"}
  BY <1>2, <1>3, <1>5, <1>8
     DEF HistoryStep, Extends, HistoryInv, RunInOrder, RecoveryFollows, WalkFollows, DayFollows,
         NoBackfill, Follows, SameHistory, Writing
<1> QED
  BY <1>2, <1>5, <1>6, <1>7, <1>8, StopInOrder DEF HistoryStep, Extends

LEMMA HistoryNext ==
  ASSUME HistoryInv, "backfill" \notin Services, [Next]_vars
  PROVE  HistoryInv' /\ Extends(store, store')
<1>1. PastInv'
  <2>1. CASE UNCHANGED vars
    <3>1. TypeInv'
      BY <2>1, TypeStep DEF HistoryInv, PastInv
    <3> QED
      BY <2>1, <3>1 DEF vars, HistoryInv, PastInv, PublishedPast, RunPast, StorePast
  <2> QED
    BY <2>1, PastNext DEF HistoryInv
<1>2. CASE RunStep
  <2>1. ~Backfill
    BY DEF Backfill, BackfillSkips, BackfillBegins, At, HistoryInv, RunInOrder, NoBackfill
  <2>2. HistoryStep
    BY <1>2, <2>1, GuardHistory, RetentionHistory, ReviseHistory, WalkHistory, RewriteHistory,
       WriteHistory, ImportDayHistory DEF RunStep
  <2> QED
    BY <1>1, <2>2 DEF HistoryStep, HistoryInv
<1>3. CASE ScheduledRun \/ RunNow \/ User \/ Environment
  BY <1>1, <1>3, OthersHistory DEF HistoryStep, HistoryInv
<1>4. CASE UNCHANGED vars
  BY <1>1, <1>4, HistoryTyped
     DEF vars, HistoryInv, BoundaryPast, RunInOrder, RecoveryFollows, WalkFollows, DayFollows,
         NoBackfill
<1> QED
  BY <1>2, <1>3, <1>4 DEF Next

-----------------------------------------------------------------------------
(* The refinement *)

LEMMA LedgerInitially ==
  ASSUME Init
  PROVE  Ledger!Init
BY DEF Init, EmptyStore, Outcome, Skipped, Ledger!Init, Ledger!Day, Ledger!NoDay, Day, NoDay

LEMMA LedgerSteps ==
  ASSUME Extends(store, store')
  PROVE  [Ledger!Next]_Ledger!vars
<1>1. Outcome = [d \in Day |-> OutcomeOf(store, d)]
      /\ Outcome' = [d \in Day |-> OutcomeOf(store', d)]
  BY DEF Outcome, OutcomeOf
<1>2. CASE SameHistory(store, store')
  BY <1>1, <1>2 DEF SameHistory, Ledger!vars
<1>3. ASSUME NEW first \in Day, NEW last \in Day, NEW what \in {"imported", "skipped"},
             what = "imported" => first = last, Settles(store, store', first, last, what)
      PROVE  Ledger!Next
  <2>1. Outcome' = [d \in Day |-> IF d \in first..last THEN what ELSE Outcome[d]]
    BY <1>1, <1>3 DEF Settles
  <2>2. Ledger!Resolve(first, last, what)
    BY <1>3, <2>1 DEF Settles, Follows, Ledger!Resolve, Ledger!Day, Ledger!NoDay, Day, NoDay
  <2> QED
    BY <1>3, <2>2 DEF Ledger!Next, Ledger!Import, Ledger!Skip, Ledger!Day, Day
<1> QED
  BY <1>2, <1>3 DEF Extends

\* Runs, import_day, mode switches, late channels, crashes at any point, recoveries and
\* interrupted or resumed revision rewrites only ever extend the history by the days after
\* the marker, and never reopen what was decided of a day: without backfills, the Store
\* implements the ledger.
THEOREM StoreImplementsLedger ==
  ASSUME "backfill" \notin Services
  PROVE  Spec => KeepsLedger
<1>1. Init => HistoryInv /\ Ledger!Init
  BY HistoryInit, LedgerInitially
<1>2. HistoryInv /\ [Next]_vars => HistoryInv' /\ [Ledger!Next]_Ledger!vars
  BY HistoryNext, LedgerSteps
<1> QED
  BY <1>1, <1>2, PTL DEF Spec, KeepsLedger, Ledger!Spec

LedgerResults == INSTANCE ImportLedgerProofs WITH marker <- store.marker, outcome <- Outcome

\* What is proved of every ledger therefore holds of the Store: the days resolved in it form
\* one range that ends at the marker, and an outcome is final.
THEOREM StoreHistoryHasNoHole ==
  ASSUME "backfill" \notin Services
  PROVE  Spec => []Ledger!NoDayLeftBehind /\ Ledger!OutcomesAreFinal
<1> USE DEF Ledger!Resolved, LedgerResults!Resolved, Ledger!Day, LedgerResults!Day,
            Ledger!NoDay, LedgerResults!NoDay, Ledger!vars, LedgerResults!vars
<1>1. MaxDay \in Nat
  BY MaxDayAssumption
<1>2. Ledger!Init => LedgerResults!Init
  BY DEF Ledger!Init, LedgerResults!Init
<1>3. [Ledger!Next]_Ledger!vars => [LedgerResults!Next]_LedgerResults!vars
  BY DEF Ledger!Next, Ledger!Import, Ledger!Skip, Ledger!Resolve,
         LedgerResults!Next, LedgerResults!Import, LedgerResults!Skip, LedgerResults!Resolve
<1>4. Spec => LedgerResults!Spec
  BY <1>2, <1>3, StoreImplementsLedger, PTL DEF KeepsLedger, Ledger!Spec, LedgerResults!Spec
<1>5. LedgerResults!NoDayLeftBehind => Ledger!NoDayLeftBehind
  BY DEF Ledger!NoDayLeftBehind, LedgerResults!NoDayLeftBehind
<1>6. LedgerResults!Spec => []LedgerResults!NoDayLeftBehind
  BY <1>1, LedgerResults!HistoryHasNoHole
<1>7. LedgerResults!Spec => LedgerResults!OutcomesAreFinal
  BY <1>1, LedgerResults!OutcomeOfADayIsFinal
<1>8. [/\ store.marker' >= store.marker
       /\ \A d \in LedgerResults!Day :
            LedgerResults!Resolved(d) => Outcome'[d] = Outcome[d]]_LedgerResults!vars
      => [/\ store.marker' >= store.marker
          /\ \A d \in Ledger!Day : Ledger!Resolved(d) => Outcome'[d] = Outcome[d]]_Ledger!vars
  OBVIOUS
<1> QED
  BY <1>4, <1>5, <1>6, <1>7, <1>8, PTL DEF Ledger!OutcomesAreFinal, LedgerResults!OutcomesAreFinal

-----------------------------------------------------------------------------
(* Late channels.  This part holds with every service: nothing but the reconfigure flow *)
(* changes the day a channel starts on, and that only from never to a day.              *)

\* No row, and no import that waits in the recorder's queue, is before its channel's start.
RowsAfterStart ==
  /\ NoRowBeforeStart
  /\ \A i \in 1..Len(queue) : \A s \in queue[i].todo : store.since[s] <= queue[i].day

\* A channel is recorded in the Store before it is loaded.
AddedFirst == \A s \in Stat : added[s] <= store.since[s]

LateInv == TypeInv /\ AddedFirst /\ RowsAfterStart

KeepsEnds(old, new) ==
  /\ {"since", "lastWritten"} \subseteq DOMAIN new
  /\ new.since = old.since /\ new.lastWritten = old.lastWritten

LEMMA SettersKeepEnds ==
  ASSUME NEW old, NEW st, KeepsEnds(old, st)
  PROVE  /\ \A day : KeepsEnds(old, SetPending(st, day))
         /\ KeepsEnds(old, ClearPending(st))
         /\ \A first, last, how : KeepsEnds(old, MarkSkipped(st, first, last, how))
         /\ \A day, how : KeepsEnds(old, MarkDay(st, day, how))
         /\ \A day, on : KeepsEnds(old, NoteEmpty(st, day, on))
         /\ \A b, on : KeepsEnds(old, SetRetention(st, b, on))
         /\ \A day, on, hash : KeepsEnds(old, SetRevision(st, day, on, hash))
         /\ \A days : KeepsEnds(old, DropRevisions(st, days))
         /\ \A tail : KeepsEnds(old, SetTail(st, tail))
         /\ \A next : KeepsEnds(old, [st EXCEPT !.tail.next = next])
         /\ \A on : KeepsEnds(old, SetChecked(st, on))
         /\ \A first, last, end, how :
              KeepsEnds(old, BeginRewrite(st, first, last, end, how))
BY DEF KeepsEnds, SetPending, ClearPending, MarkSkipped, MarkDay, NoteEmpty, SetRetention,
       SetRevision, DropRevisions, SetTail, SetChecked, BeginRewrite

\* Only a verified day moves last_written; no run moves a channel's start.
LEMMA RunKeepsEnds ==
  ASSUME TypeOK, RunStep
  PROVE  store'.since = store.since /\ (~VerifyPasses => store'.lastWritten = store.lastWritten)
<1>0. CASE VerifyPasses
  BY <1>0 DEF VerifyPasses, MarkImported, TypeOK, StoreRecord
<1>1. KeepsEnds(store, store)
  BY DEF TypeOK, StoreRecord, KeepsEnds
<1> SUFFICES ASSUME ~VerifyPasses PROVE KeepsEnds(store, store')
  BY <1>0 DEF KeepsEnds
<1>2. CASE Guard
  BY <1>1, <1>2, SettersKeepEnds DEF Guard, GuardRefuses, GuardAccepts, GuardSkipped
<1>3. CASE RetentionStep
  BY <1>1, <1>3, SettersKeepEnds DEF RetentionStep, RetentionDone, RetentionFails
<1>4. CASE Revise
  <2>1. CASE FetchRevisions \/ RevisionsAlreadyChecked \/ RevisionsChecked
    BY <1>1, <2>1, SettersKeepEnds DEF FetchRevisions, RevisionsAlreadyChecked, RevisionsChecked
  <2>2. CASE CompareRevisions
    <3> DEFINE st == DropRevisions(store, {d \in RevisionDaysOf(store) : Final(d)})
    <3>1. KeepsEnds(store, st)
      BY <1>1, SettersKeepEnds
    <3>2. store' = st \/ \E first, last, end, how : store' = BeginRewrite(st, first, last, end, how)
      BY <2>2 DEF CompareRevisions
    <3> HIDE DEF st
    <3> QED
      BY <3>1, <3>2, SettersKeepEnds
  <2> QED
    BY <1>4, <2>1, <2>2 DEF Revise
<1>5. ASSUME NEW d, NEW caller, BeginWrite(d, caller)
      PROVE  KeepsEnds(store, store')
  BY <1>1, <1>5, SettersKeepEnds DEF BeginWrite
<1>6. ASSUME NEW d, NEW st, st = NoteEmpty(store, d, today)
      PROVE  /\ KeepsEnds(store, st)
             /\ KeepsEnds(store, MarkSkipped(st, d, d, "gap"))
             /\ KeepsEnds(store, [MarkSkipped(st, d, d, "gap") EXCEPT !.tail.next = d + 1])
  <2>1. KeepsEnds(store, st)
    BY <1>1, <1>6, SettersKeepEnds
  <2>2. KeepsEnds(store, MarkSkipped(st, d, d, "gap"))
    BY <2>1, SettersKeepEnds
  <2> QED
    BY <2>1, <2>2, SettersKeepEnds
<1>7. ASSUME NEW first, NEW last, NEW how
      PROVE  /\ KeepsEnds(store, MarkSkipped(store, first, last, how))
             /\ \A b, on : KeepsEnds(store, SetRetention(MarkSkipped(store, first, last, how), b, on))
             /\ \A f, l, h :
                  KeepsEnds(store, MarkSkipped(MarkSkipped(store, first, last, how), f, l, h))
  <2>1. KeepsEnds(store, MarkSkipped(store, first, last, how))
    BY <1>1, SettersKeepEnds
  <2> QED
    BY <2>1, SettersKeepEnds
<1>8. CASE Walk
  <2>1. CASE WalkStart
    BY <1>1, <1>7, <2>1 DEF WalkStart
  <2>2. CASE WalkFetch \/ WalkLeading \/ WalkDone \/ NothingToWalk
    BY <1>1, <2>2 DEF WalkFetch, WalkLeading, WalkDone, NothingToWalk
  <2>3. CASE WalkSkipsLeading
    BY <1>7, <2>3 DEF WalkSkipsLeading
  <2>4. CASE WalkPatience
    <3>1. PICK d \in Day : LET st == NoteEmpty(store, d, today) IN
                            store' = st \/ store' = MarkSkipped(st, d, d, "gap")
      BY <2>4 DEF WalkPatience
    <3> QED
      BY <1>6, <3>1
  <2>5. CASE WalkWrite
    BY <1>5, <2>5 DEF WalkWrite
  <2> QED
    BY <1>8, <2>1, <2>2, <2>3, <2>4, <2>5 DEF Walk
<1>9. CASE Rewrite
  <2>1. CASE ResumeTail \/ RewriteFetch \/ RewriteUnavailable
    BY <1>1, <2>1 DEF ResumeTail, RewriteFetch, RewriteUnavailable
  <2>2. CASE RewriteSkip \/ RewriteDone
    BY <1>1, <2>2, SettersKeepEnds DEF RewriteSkip, RewriteDone
  <2>3. CASE RewritePatience
    <3>1. PICK d \in Day : LET st == NoteEmpty(store, d, today) IN
            store' = st \/ store' = [MarkSkipped(st, d, d, "gap") EXCEPT !.tail.next = d + 1]
      BY <2>3 DEF RewritePatience
    <3> QED
      BY <1>6, <3>1
  <2>4. CASE RewriteWrite
    BY <1>5, <2>4 DEF RewriteWrite
  <2> QED
    BY <1>9, <2>1, <2>2, <2>3, <2>4 DEF Rewrite
<1>10. CASE Write
  <2>1. CASE WriteRefused
    <3>1. KeepsEnds(store, ClearPending(store))
      BY <1>1, SettersKeepEnds
    <3>2. store' = MarkDay(store, run.day, "failed")
          \/ store' = MarkDay(ClearPending(store), run.day, "failed")
      BY <2>1 DEF WriteRefused
    <3> QED
      BY <1>1, <3>1, <3>2, SettersKeepEnds
  <2>2. CASE WriteRows
    BY <1>1, <2>2 DEF WriteRows
  <2>3. CASE VerifyTimesOut
    BY <1>1, <2>3, SettersKeepEnds DEF VerifyTimesOut
  <2>4. CASE TrackRevision \/ Advance
    BY <1>1, <2>4, SettersKeepEnds DEF TrackRevision, Advance
  <2> QED
    BY <1>10, <2>1, <2>2, <2>3, <2>4 DEF Write
<1>11. CASE Backfill
  <2>1. CASE BackfillBegins
    BY <1>1, <2>1, SettersKeepEnds DEF BackfillBegins
  <2>2. CASE BackfillSkips
    <3>1. \/ store' = store
          \/ \E first, last, how : store' = MarkSkipped(store, first, last, how)
          \/ \E first, last, how, f, l, h :
               store' = MarkSkipped(MarkSkipped(store, first, last, how), f, l, h)
      BY <2>2 DEF BackfillSkips
    <3> QED
      BY <1>1, <1>7, <3>1
  <2> QED
    BY <1>11, <2>1, <2>2 DEF Backfill
<1>12. CASE ImportDay
  BY <1>1, <1>12, SettersKeepEnds DEF ImportDay, PlanAppend, PlanReimport, PlanRefused, FetchDay
<1> QED
  BY <1>2, <1>3, <1>4, <1>8, <1>9, <1>10, <1>11, <1>12 DEF RunStep

\* A run knows nothing of the channels that are added meanwhile.
LEMMA RunLeavesChannels ==
  ASSUME RunStep
  PROVE  UNCHANGED <<added, late>>
<1>1. Guard \/ RetentionStep \/ Revise => UNCHANGED <<added, late>>
  BY DEF Guard, GuardRefuses, GuardAccepts, GuardSkipped, RetentionStep, RetentionDone,
         RetentionFails, Revise, FetchRevisions, RevisionsAlreadyChecked, CompareRevisions,
         RevisionsChecked, environment
<1>2. Walk \/ Rewrite => UNCHANGED <<added, late>>
  BY DEF Walk, WalkStart, WalkFetch, WalkLeading, WalkSkipsLeading, WalkPatience, WalkWrite,
         WalkDone, NothingToWalk, Rewrite, ResumeTail, RewriteSkip, RewriteFetch,
         RewriteUnavailable, RewritePatience, RewriteWrite, RewriteDone, environment
<1>3. Write \/ Backfill \/ ImportDay => UNCHANGED <<added, late>>
  BY DEF Write, WriteRefused, WriteRows, VerifyPasses, VerifyTimesOut, TrackRevision, Advance,
         Backfill, BackfillSkips, BackfillBegins, ImportDay, PlanAppend, PlanReimport,
         PlanRefused, FetchDay, environment
<1> QED
  BY <1>1, <1>2, <1>3 DEF RunStep

\* What a step may do to the day a channel starts on.
LEMMA SinceOnlyFalls ==
  ASSUME TypeOK, AddedFirst, [Next]_vars
  PROVE  (\A s \in Stat : store'.since[s] <= store.since[s]) /\ AddedFirst'
<1>1. \A s \in Stat : store.since[s] \in 0..Absent /\ added[s] \in 0..Absent
  BY DEF TypeOK, StoreRecord
<1>2. CASE AddChannels
  <2> DEFINE first == IF store.marker = NoDay THEN 0 ELSE store.marker + 1
  <2>1. first <= Absent /\ first \in Int /\ Absent \in Int
    BY MaxDayAssumption DEF TypeOK, StoreRecord, Absent, Day, NoDay
  <2>2. added' = [s \in Stat |-> IF s \in LateStat THEN first ELSE added[s]] /\ store' = store
    BY <1>2 DEF AddChannels
  <2> HIDE DEF first
  <2>3. \A s \in LateStat : added[s] = Absent
    BY <1>2 DEF AddChannels
  <2>4. \A s \in LateStat \cap Stat : store.since[s] = Absent
    BY <1>1, <2>1, <2>3 DEF AddedFirst
  <2>5. \A s \in Stat : added'[s] <= store.since[s]
    BY <2>1, <2>2, <2>4 DEF AddedFirst
  <2> QED
    BY <1>1, <2>2, <2>5 DEF AddedFirst
<1>3. CASE LoadChannels
  <2>1. store'.since = added /\ added' = added
    BY <1>3 DEF LoadChannels, TypeOK, StoreRecord
  <2> QED
    BY <1>1, <2>1 DEF AddedFirst
<1>4. CASE RunStep
  <2>1. added' = added
    BY <1>4, RunLeavesChannels
  <2> QED
    BY <1>1, <1>4, <2>1, RunKeepsEnds DEF AddedFirst
<1>5. CASE ~AddChannels /\ ~LoadChannels /\ ~RunStep
  <2>1. store' = store /\ added' = added
    BY <1>5
       DEF Next, vars, ScheduledRun, RunNow, Begin, User, StartBackfill, StartImportDay, SetMode,
           Environment, Tick, Publish, UnexpectedChannel, Commit, Crash, environment
  <2> QED
    BY <1>1, <2>1 DEF AddedFirst
<1> QED
  BY <1>2, <1>3, <1>4, <1>5

\* A channel that is loaded in time starts after last_written.
LEMMA LoadsInTime ==
  ASSUME TypeOK, LoadChannels, ~late', NEW s \in Stat
  PROVE  \/ store'.since[s] = store.since[s]
         \/ store.lastWritten = NoDay
         \/ store.lastWritten < store'.since[s]
<1>1. store'.since = added
  BY DEF LoadChannels, TypeOK, StoreRecord
<1>2. ~(store.since[s] # added[s] /\ ~InTime(s))
  BY DEF LoadChannels
<1> QED
  BY <1>1, <1>2 DEF InTime

LEMMA LoadedFrom ==
  ASSUME TypeOK, LoadChannels, NEW s \in Stat
  PROVE  store'.since[s] \in Int
<1>1. store'.since = added
  BY DEF LoadChannels, TypeOK, StoreRecord
<1>2. added[s] \in 0..Absent /\ Absent \in Nat
  BY MaxDayAssumption DEF TypeOK, Absent
<1> QED
  BY <1>1, <1>2

\* What is not a run's step or a commit leaves the table alone; of the Store it changes
\* only the channels the runs know.
LEMMA OthersKeepRows ==
  ASSUME [Next]_vars, ~RunStep, \A s \in Stat : ~Commit(s)
  PROVE  rows' = rows /\ (store' = store \/ LoadChannels)
<1>1. CASE LoadChannels
  BY <1>1 DEF LoadChannels, table
<1>2. CASE ~LoadChannels
  BY <1>2 DEF Next, vars, ScheduledRun, RunNow, Begin, User, StartBackfill, StartImportDay,
         AddChannels, SetMode, Environment, Tick, Publish, UnexpectedChannel, Crash, table
<1> QED
  BY <1>1, <1>2

LEMMA LateInit ==
  ASSUME Init
  PROVE  LateInv
<1>1. TypeInv
  BY TypeInit
<1>2. \A s \in Stat, d \in Day : ~HasRow(s, d)
  BY DEF Init, HasRow
<1>3. Len(queue) = 0
  BY DEF Init
<1>4. AddedFirst
  BY <1>1, MaxDayAssumption DEF Init, AddedFirst, TypeInv, TypeOK, StoreRecord, Absent
<1> QED
  BY <1>1, <1>2, <1>3, <1>4 DEF LateInv, RowsAfterStart, NoRowBeforeStart

\* What is in the queue stays on or after its channel's start, whatever step is taken.
LEMMA QueueAfterStart ==
  ASSUME LateInv, [Next]_vars, NEW i \in 1..Len(queue'), NEW s \in queue'[i].todo
  PROVE  store'.since[s] <= queue'[i].day
<1>1. /\ queue \in Seq(Batch) /\ \A e \in Day : e \in Int
      /\ \A t \in Stat : store.since[t] \in Int /\ store'.since[t] \in Int
      /\ \A t \in Stat : store'.since[t] <= store.since[t]
  <2>1. TypeOK /\ TypeOK'
    BY TypeStep DEF LateInv, TypeInv
  <2> QED
    BY <2>1, SinceOnlyFalls, MaxDayAssumption DEF LateInv, TypeOK, StoreRecord, Day, Absent
<1>2. \A j \in 1..Len(queue) :
        /\ queue[j] \in Batch /\ queue[j].day \in Day /\ queue[j].todo \subseteq Stat
        /\ \A t \in queue[j].todo : store'.since[t] <= queue[j].day
  <2> SUFFICES ASSUME NEW j \in 1..Len(queue)
               PROVE  /\ queue[j] \in Batch /\ queue[j].day \in Day /\ queue[j].todo \subseteq Stat
                      /\ \A t \in queue[j].todo : store'.since[t] <= queue[j].day
    OBVIOUS
  <2>1. queue[j] \in Batch
    BY <1>1
  <2>2. queue[j].day \in Day /\ queue[j].todo \subseteq Stat
    BY <2>1 DEF Batch
  <2>3. \A t \in queue[j].todo : store.since[t] <= queue[j].day
    BY DEF LateInv, RowsAfterStart
  <2> QED
    BY <1>1, <2>1, <2>2, <2>3
<1>3. CASE queue' = queue
  BY <1>2, <1>3
<1>4. CASE queue' = <<>>
  BY <1>4
<1>5. CASE WriteRows
  <2>1. run.day \in Day
    BY <1>5 DEF WriteRows, At, LateInv, TypeInv, DayAtHand
  <2>2. queue' = queue \/ queue' = Append(queue, [day |-> run.day, rows |-> NewRows,
                                                  todo |-> ActiveStats(run.day)])
    BY <1>5 DEF WriteRows
  <2>3. CASE queue' # queue
    <3>1. i \in 1..Len(queue) \/ i = Len(queue) + 1
      BY <1>1, <2>2, <2>3
    <3>2. CASE i \in 1..Len(queue)
      BY <1>1, <1>2, <2>2, <2>3, <3>2
    <3>3. CASE i = Len(queue) + 1
      <4>1. queue'[i].day = run.day /\ queue'[i].todo = ActiveStats(run.day)
        BY <1>1, <2>2, <2>3, <3>3
      <4>2. s \in Stat /\ store.since[s] <= run.day
        BY <4>1 DEF ActiveStats, Active
      <4> QED
        BY <1>1, <2>1, <4>1, <4>2
    <3> QED
      BY <3>1, <3>2, <3>3
  <2> QED
    BY <1>3, <2>3
<1>6. ASSUME NEW t \in Stat, Commit(t)
      PROVE  store'.since[s] <= queue'[i].day
  <2>1. queue # <<>>
    BY <1>6 DEF Commit
  <2>2. CASE queue' = Tail(queue)
    <3>1. i + 1 \in 1..Len(queue) /\ queue'[i] = queue[i + 1]
      BY <1>1, <2>1, <2>2
    <3> QED
      BY <1>2, <3>1
  <2>3. CASE queue' = [queue EXCEPT ![1].todo = @ \ {t}]
    <3>1. i \in 1..Len(queue)
      BY <1>1, <2>3
    <3>2. queue'[i].day = queue[i].day /\ queue'[i].todo \subseteq queue[i].todo
      BY <1>1, <1>2, <2>3, <3>1 DEF Batch
    <3> QED
      BY <1>2, <3>1, <3>2
  <2> QED
    BY <1>6, <2>2, <2>3 DEF Commit
<1>7. WriteRows \/ (\E t \in Stat : Commit(t)) \/ queue' = queue \/ queue' = <<>>
  <2>1. CASE RunStep
    BY <2>1
       DEF RunStep, Guard, GuardRefuses, GuardAccepts, GuardSkipped, RetentionStep, RetentionDone,
           RetentionFails, Revise, FetchRevisions, RevisionsAlreadyChecked, CompareRevisions,
           RevisionsChecked, Walk, WalkStart, WalkFetch, WalkLeading, WalkSkipsLeading,
           WalkPatience, WalkWrite, WalkDone, NothingToWalk, Rewrite, ResumeTail, RewriteSkip,
           RewriteFetch, RewriteUnavailable, RewritePatience, RewriteWrite, RewriteDone, Write,
           WriteRefused, VerifyPasses, VerifyTimesOut, TrackRevision, Advance, Backfill,
           BackfillSkips, BackfillBegins, ImportDay, PlanAppend, PlanReimport, PlanRefused,
           FetchDay, table
  <2>2. CASE ~RunStep
    BY <2>2
       DEF Next, vars, ScheduledRun, RunNow, Begin, User, StartBackfill, StartImportDay,
           AddChannels, LoadChannels, SetMode, Environment, Tick, Publish, UnexpectedChannel, Crash,
           table
  <2> QED
    BY <2>1, <2>2
<1> QED
  BY <1>3, <1>4, <1>5, <1>6, <1>7

LEMMA RowsStayAfterStart ==
  ASSUME LateInv, [Next]_vars
  PROVE  NoRowBeforeStart'
<1>1. TypeOK /\ TypeOK'
  BY TypeStep DEF LateInv, TypeInv
<1>2. SUFFICES ASSUME NEW s \in Stat, NEW d \in Day, rows'[s][d] # NoRow
               PROVE  store'.since[s] <= d
  BY DEF NoRowBeforeStart, HasRow, Active
<1>3. /\ d \in Int /\ store.since[s] \in Int /\ store'.since[s] \in Int
      /\ store'.since[s] <= store.since[s]
  BY <1>1, SinceOnlyFalls, MaxDayAssumption DEF LateInv, TypeOK, StoreRecord, Day, Absent
<1>4. CASE rows'[s][d] = rows[s][d]
  BY <1>2, <1>3, <1>4 DEF LateInv, RowsAfterStart, NoRowBeforeStart, HasRow, Active
<1>5. ASSUME NEW t \in Stat, Commit(t), rows'[s][d] # rows[s][d]
      PROVE  store'.since[s] <= d
  <2>1. queue \in Seq(Batch) /\ queue # <<>>
    BY <1>1, <1>5 DEF TypeOK, Commit
  <2>2. Head(queue) = queue[1] /\ 1 \in 1..Len(queue)
    BY <2>1
  <2>3. t = s /\ d = Head(queue).day
    BY <1>1, <1>5, <2>1, <2>2 DEF Commit, TypeOK, Batch
  <2>4. s \in queue[1].todo
    BY <1>5, <2>2, <2>3 DEF Commit
  <2> QED
    BY <1>3, <2>2, <2>3, <2>4 DEF LateInv, RowsAfterStart
<1>6. (\E t \in Stat : Commit(t)) \/ rows' = rows
  <2>1. CASE RunStep
    BY <2>1
       DEF RunStep, Guard, GuardRefuses, GuardAccepts, GuardSkipped, RetentionStep, RetentionDone,
           RetentionFails, Revise, FetchRevisions, RevisionsAlreadyChecked, CompareRevisions,
           RevisionsChecked, Walk, WalkStart, WalkFetch, WalkLeading, WalkSkipsLeading,
           WalkPatience, WalkWrite, WalkDone, NothingToWalk, Rewrite, ResumeTail, RewriteSkip,
           RewriteFetch, RewriteUnavailable, RewritePatience, RewriteWrite, RewriteDone, Write,
           WriteRefused, WriteRows, VerifyPasses, VerifyTimesOut, TrackRevision, Advance, Backfill,
           BackfillSkips, BackfillBegins, ImportDay, PlanAppend, PlanReimport, PlanRefused,
           FetchDay, table
  <2>2. CASE ~RunStep
    BY <2>2
       DEF Next, vars, ScheduledRun, RunNow, Begin, User, StartBackfill, StartImportDay,
           AddChannels, LoadChannels, SetMode, Environment, Tick, Publish, UnexpectedChannel, Crash,
           table
  <2> QED
    BY <2>1, <2>2
<1> QED
  BY <1>4, <1>5, <1>6

\* A statistic never has a row before the day its channel starts on: the channels of a day
\* are fixed when it is written, a queued import only adds rows of those, and the reconfigure
\* flow moves a start from never to a day and not back (_ctx_for, channel_since).
THEOREM LateChannelsStayEmpty == Spec => []NoRowBeforeStart
<1>1. Init => LateInv
  BY LateInit
<1>2. LateInv /\ [Next]_vars => LateInv'
  <2> SUFFICES ASSUME LateInv, [Next]_vars
               PROVE  LateInv'
    OBVIOUS
  <2>1. TypeInv'
    BY TypeStep DEF LateInv
  <2> QED
    BY <2>1, SinceOnlyFalls, RowsStayAfterStart, QueueAfterStart DEF LateInv, TypeInv, RowsAfterStart
<1>3. LateInv => NoRowBeforeStart
  BY DEF LateInv, RowsAfterStart
<1> QED
  BY <1>1, <1>2, <1>3, PTL DEF Spec

-----------------------------------------------------------------------------
(* The sums.  The theorems of this part are about a site without backfills whose recorder *)
(* commits before VERIFY_TIMEOUT, whose mode is not switched to or from pricing-only, and *)
(* which, if Amber revises its days, is not also imported day by day through import_day;  *)
(* and about its behaviours in which an interrupted day is recovered while Amber still    *)
(* answers for it (RowsInReach).  The README says what each of these is needed for.       *)
(* Crashes, failing requests, late channels and unexpected channels are free.             *)

Undisturbed ==
  /\ "backfill" \notin Services /\ MaxSlow = 0
  /\ "pricing" \notin Modes \/ "set_mode" \notin Services
  /\ "estimated" \notin Quality \/ "import_day" \notin Services

-----------------------------------------------------------------------------
(* One statistic's rows r, as a function of the day *)

RowBefore(r, d) == MaxOf({e \in Day : e < d /\ r[e] # NoRow})
SumBefore(r, d) == IF RowBefore(r, d) = NoDay THEN 0 ELSE r[RowBefore(r, d)].sum
Broken(r, d)    == r[d] # NoRow /\ r[d].sum - r[d].state # SumBefore(r, d)

LEMMA BreaksAreBroken ==
  ASSUME NEW s \in Stat
  PROVE  \A d : d \in Breaks(s) <=> d \in Day /\ d <= store.lastWritten /\ Broken(rows[s], d)
BY DEF Breaks, Broken, SumBefore, RowBefore, HasRow, Continues, PreviousRow

\* The row before a day is the last of the rows before it.
LEMMA RowBeforeIsLast ==
  ASSUME NEW r, NEW d
  PROVE  \/ /\ RowBefore(r, d) = NoDay
            /\ \A e \in Day : e < d => r[e] = NoRow
         \/ /\ RowBefore(r, d) \in Day /\ RowBefore(r, d) < d /\ r[RowBefore(r, d)] # NoRow
            /\ \A e \in Day : e < d /\ r[e] # NoRow => e <= RowBefore(r, d)
<1> DEFINE S == {e \in Day : e < d /\ r[e] # NoRow}
<1>1. RowBefore(r, d) = MaxOf(S)
  BY DEF RowBefore
<1>2. CASE S = {}
  BY <1>1, <1>2 DEF MaxOf
<1>3. CASE S # {}
  <2>1. S \in SUBSET Day
    OBVIOUS
  <2>2. MaxOf(S) \in S /\ \A e \in S : e <= MaxOf(S)
    BY <1>3, <2>1, MaxOfDays
  <2> QED
    BY <1>1, <2>2
<1> QED
  BY <1>2, <1>3

LEMMA RowBeforeIs ==
  ASSUME NEW r, NEW d \in Int, NEW p \in Day, p < d, r[p] # NoRow,
         \A e \in Day : p < e /\ e < d => r[e] = NoRow
  PROVE  RowBefore(r, d) = p
<1>1. \A e \in Day : e \in Int
  BY MaxDayAssumption DEF Day
<1> QED
  BY <1>1, RowBeforeIsLast

LEMMA NoRowBefore ==
  ASSUME NEW r, NEW d, \A e \in Day : e < d => r[e] = NoRow
  PROVE  RowBefore(r, d) = NoDay /\ SumBefore(r, d) = 0
BY RowBeforeIsLast DEF SumBefore

\* Rows from a day on do not matter for what is before it.
LEMMA SumBeforeLooksBack ==
  ASSUME NEW r, NEW w, NEW d \in Int, \A e \in Day : e < d => w[e] = r[e]
  PROVE  RowBefore(w, d) = RowBefore(r, d) /\ SumBefore(w, d) = SumBefore(r, d)
<1>1. {e \in Day : e < d /\ w[e] # NoRow} = {e \in Day : e < d /\ r[e] # NoRow}
  OBVIOUS
<1>2. RowBefore(w, d) = RowBefore(r, d)
  BY <1>1 DEF RowBefore
<1>3. RowBefore(r, d) # NoDay => RowBefore(r, d) \in Day /\ RowBefore(r, d) < d
  BY RowBeforeIsLast
<1> QED
  BY <1>2, <1>3 DEF SumBefore

\* A day written with the sum before it as its base can break the sums only of the first
\* row after it.
LEMMA WriteBreaksNextOnly ==
  ASSUME NEW r \in [Day -> Row], NEW day \in Day, NEW n \in Row,
         n.sum - n.state = SumBefore(r, day), n # NoRow
  PROVE  LET w == [r EXCEPT ![day] = n] IN
         /\ ~Broken(w, day)
         /\ \A d \in Day : d < day /\ Broken(w, d) => Broken(r, d)
         /\ \A c, d \in Day : day < c /\ c < d /\ w[c] # NoRow /\ Broken(w, d) => Broken(r, d)
<1> DEFINE w == [r EXCEPT ![day] = n]
<1>1. /\ \A e \in Day : e \in Int
      /\ w[day] = n /\ \A e \in Day : e # day => w[e] = r[e]
  BY MaxDayAssumption DEF Day
<1> HIDE DEF w
<1>2. ~Broken(w, day)
  <2>1. SumBefore(w, day) = SumBefore(r, day)
    BY <1>1, SumBeforeLooksBack
  <2> QED
    BY <1>1, <2>1 DEF Broken
<1>3. ASSUME NEW d \in Day, d < day, Broken(w, d)
      PROVE  Broken(r, d)
  <2>1. SumBefore(w, d) = SumBefore(r, d) /\ w[d] = r[d]
    BY <1>1, <1>3, SumBeforeLooksBack
  <2> QED
    BY <1>3, <2>1 DEF Broken
<1>4. ASSUME NEW c \in Day, NEW d \in Day, day < c, c < d, w[c] # NoRow, Broken(w, d)
      PROVE  Broken(r, d)
  <2> DEFINE p == RowBefore(w, d)
  <2>1. p \in Day /\ p < d /\ c <= p /\ w[p] # NoRow
    BY <1>1, <1>4, RowBeforeIsLast
  <2>2. \A e \in Day : p < e /\ e < d => w[e] = NoRow
    BY <1>1, RowBeforeIsLast
  <2>3. p \in Int /\ p # day /\ r[p] = w[p] /\ \A e \in Day : p < e => r[e] = w[e]
    BY <1>1, <1>4, <2>1
  <2> HIDE DEF p
  <2>4. RowBefore(r, d) = p /\ RowBefore(w, d) = p
    BY <1>1, <2>1, <2>2, <2>3, RowBeforeIs DEF p
  <2>5. w[d] = r[d] /\ p # NoDay
    BY <1>1, <1>4, <2>1 DEF Day, NoDay
  <2> QED
    BY <1>4, <2>3, <2>4, <2>5 DEF Broken, SumBefore
<1> QED
  BY <1>2, <1>3, <1>4 DEF w

-----------------------------------------------------------------------------
(* The inductive invariant: the Store and the table *)

\* Only imported days have rows up to the marker, and none is after last_written.
RowsOnImported ==
  /\ \A d \in Day : store.status[d] = "imported" => d <= store.lastWritten
  /\ \A s \in Stat, d \in Day :
       HasRow(s, d) /\ d <= store.marker => store.status[d] = "imported"

NewRow(s, d) == HasRow(s, d) /\ d > store.lastWritten

\* Amber still answers for a day whose write was interrupted: it is recovered before the
\* day leaves Amber's retention.
RowsInReach == \A s \in Stat, d \in Day : NewRow(s, d) => today <= d + Retention

\* At most one day after last_written has rows: an interrupted write is finished first.
OneNewDay ==
  \A s, t \in Stat, d, e \in Day : NewRow(s, d) /\ NewRow(t, e) => d = e

\* A rewrite runs to last_written, and exists only where Amber estimates days.
TailToEnd ==
  store.tail # NoTail =>
    /\ mode # "pricing" /\ "estimated" \in Quality /\ store.tail.next > 0
    /\ store.tail.to = store.lastWritten /\ store.tail.requestedEnd = store.lastWritten

\* The sums break nowhere but at the first row of what a rewrite has left.
Seam ==
  \A s \in Stat, d \in Day : d <= store.lastWritten /\ Broken(rows[s], d) =>
    /\ store.tail # NoTail /\ store.tail.next <= d
    /\ \A c \in Day : store.tail.next < c /\ c < d => ~HasRow(s, c)
    /\ \A c \in Day : c <= store.lastWritten /\ Broken(rows[s], c) => c = d

\* What Amber has published it goes on to answer.
RowsHaveData == \A s \in Stat, d \in Day : HasRow(s, d) => ~Empty(amber[d])

NeverEstimated ==
  "estimated" \notin Quality =>
    \A d \in Day : /\ amber[d].quality # "estimated"
                   /\ run.cache[d].quality # "estimated"
                   /\ ~InRevisionSet(store, d)

TableInv == RowsOnImported /\ OneNewDay /\ TailToEnd /\ Seam /\ RowsHaveData

-----------------------------------------------------------------------------
(* The inductive invariant: the run and the recorder's queue *)

Rewriting == run.pc = "rewrite" \/ (run.pc \in Writing /\ run.caller = "rewrite")

\* An unfinished rewrite is finished before the run does anything else.
RewriteFirst ==
  /\ store.tail # NoTail => run.pc \in {"idle", "guard", "resume"} \/ Rewriting
  /\ Rewriting => store.tail # NoTail

JobsServed == "import_day" \notin Services => run.job # "import_day"

\* Which day is at hand: the next of the history, the last of it, or the next of a rewrite.
DayInHand ==
  /\ run.pc \in {"fetch_day", "write", "verify"} =>
       /\ run.caller \in {"walk", "append"} => Follows(store, run.day)
       /\ run.caller = "reimport" => run.day = store.lastWritten
  /\ run.pc \in Writing /\ run.caller = "rewrite" =>
       run.day = store.tail.next /\ run.day <= store.lastWritten
  /\ run.pc \in {"verify", "track", "advance"} => Complete(Records)

Planning == {"resume", "retention", "revisions", "compare", "checked", "work"}

\* Rows after last_written are those of the day the run is about to write (again).
NewRowsKnown ==
  \A s \in Stat, d \in Day : NewRow(s, d) =>
    /\ run.pc \in Planning /\ UsageActive => d = run.recovery
    /\ run.pc = "plan" \/ Rewriting => d = run.recovery
    /\ run.pc = "walk" => d = run.day /\ run.leading = NoDay
    /\ run.pc \in {"fetch_day", "write", "verify"} /\ run.caller # "rewrite" =>
         run.caller # "reimport" /\ d = run.day
    /\ run.pc \in {"track", "advance"} => run.caller = "rewrite"

\* What the run has fetched.
CacheHasData ==
  /\ \A d \in Day : ~Uncached(d) /\ ~Empty(run.cache[d]) => ~Empty(amber[d])
  /\ \A s \in Stat, d \in Day : NewRow(s, d) /\ ~Uncached(d) => ~Empty(run.cache[d])

\* A queued import is of the day being verified, or changes nothing any more.
NoOp(tbl, b) == \A s \in b.todo : tbl[s][b.day] = b.rows[s]

InVerification(i) ==
  /\ run.pc = "verify" /\ i = Len(queue)
  /\ queue[i].day = run.day /\ queue[i].rows = NewRows
  /\ queue[i].todo \subseteq ActiveStats(run.day)

QueueSteady == \A i \in 1..Len(queue) : NoOp(rows, queue[i]) \/ InVerification(i)

\* The rows of the day being verified are there, or still to come from the recorder.
InHand ==
  run.pc = "verify" => \A s \in ActiveStats(run.day) :
    \/ rows[s][run.day] = NewRows[s]
    \/ queue # <<>> /\ InVerification(Len(queue)) /\ s \in queue[Len(queue)].todo

QueueInOrder ==
  TypeOK /\ QueueSteady /\ (run.pc = "verify" => run.day \in Day /\ Complete(Records))

\* The baselines held are the sums before the day.
BaseContinues ==
  run.pc \in {"fetch_day", "write", "verify"} =>
    \A s \in ActiveStats(run.day) : run.base[s] = SumBefore(rows[s], run.day)

\* The day just written continues the sums.
DayContinues ==
  run.pc \in {"track", "advance"} => \A s \in Stat : ~Broken(rows[s], run.day)

RunInv == RewriteFirst /\ JobsServed /\ DayInHand /\ NewRowsKnown /\ CacheHasData
          /\ QueueSteady /\ BaseContinues /\ DayContinues

Steady == HistoryInv /\ LateInv
SumsInv == Steady /\ TableInv /\ RunInv /\ NeverEstimated

-----------------------------------------------------------------------------
(* Steps that write no rows *)

\* A save that changes neither the history nor the rewrite, and adds no revision.
SameBooks(old, new) ==
  /\ new.marker = old.marker /\ new.lastWritten = old.lastWritten
  /\ new.tail = old.tail /\ new.since = old.since
  /\ \A d \in Day : /\ new.status[d] = "imported" <=> old.status[d] = "imported"
                    /\ InRevisionSet(new, d) => InRevisionSet(old, d)

SumsStep == TableInv' /\ RunInv' /\ NeverEstimated'

LEMMA SettersKeepBooks ==
  ASSUME NEW old, NEW st \in StoreRecord, SameBooks(old, st)
  PROVE  /\ \A day : SameBooks(old, SetPending(st, day))
         /\ SameBooks(old, ClearPending(st))
         /\ \A day, how : how # "imported" => SameBooks(old, MarkDay(st, day, how))
         /\ \A day, on : SameBooks(old, NoteEmpty(st, day, on))
         /\ \A b, on : SameBooks(old, SetRetention(st, b, on))
         /\ \A days : SameBooks(old, DropRevisions(st, days))
         /\ \A on : SameBooks(old, SetChecked(st, on))
<1>1. /\ st.status \in [Day -> Status] /\ st.revisions \in [Day -> Revision]
      /\ st = [st EXCEPT !.marker = st.marker]
  BY DEF StoreRecord
<1>2. \A days : \A d \in Day : InRevisionSet(DropRevisions(st, days), d) => InRevisionSet(st, d)
  BY <1>1 DEF DropRevisions, InRevisionSet, StoreRecord
<1>3. \A day, how : how # "imported" => SameBooks(old, MarkDay(st, day, how))
  BY <1>1 DEF MarkDay, SameBooks, InRevisionSet, StoreRecord
<1>4. \A day, on : SameBooks(old, NoteEmpty(st, day, on))
  BY <1>1 DEF NoteEmpty, MarkDay, SameBooks, InRevisionSet, StoreRecord
<1>5. /\ \A day : SameBooks(old, SetPending(st, day))
      /\ SameBooks(old, ClearPending(st))
      /\ \A b, on : SameBooks(old, SetRetention(st, b, on))
      /\ \A on : SameBooks(old, SetChecked(st, on))
  BY DEF SetPending, ClearPending, SetRetention, SetChecked, SameBooks, InRevisionSet, StoreRecord
<1>6. \A days : SameBooks(old, DropRevisions(st, days))
  <2> SUFFICES ASSUME NEW days
               PROVE  SameBooks(old, DropRevisions(st, days))
    OBVIOUS
  <2>1. /\ DropRevisions(st, days).marker = st.marker
        /\ DropRevisions(st, days).lastWritten = st.lastWritten
        /\ DropRevisions(st, days).tail = st.tail /\ DropRevisions(st, days).since = st.since
        /\ DropRevisions(st, days).status = st.status
    BY DEF DropRevisions, StoreRecord
  <2> QED
    BY <1>2, <2>1 DEF SameBooks
<1> QED
  BY <1>3, <1>4, <1>5, <1>6

LEMMA SumsTyped ==
  ASSUME SumsInv
  PROVE  /\ TypeOK /\ store \in StoreRecord /\ run \in RunRecord
         /\ StoreInOrder(store) /\ RunInOrder /\ TypeInv /\ RowsAfterStart
         /\ TableInv /\ RunInv /\ NeverEstimated
         /\ SameBooks(store, store)
BY DEF SumsInv, Steady, HistoryInv, PastInv, TypeInv, TypeOK, LateInv, SameBooks

LEMMA SumsQueue ==
  ASSUME SumsInv
  PROVE  QueueInOrder
BY SumsTyped DEF QueueInOrder, RunInv, DayInHand, TypeInv, DayAtHand

LEMMA TableKept ==
  ASSUME TableInv, SameBooks(store, store'), UNCHANGED <<rows, amber, mode>>
  PROVE  TableInv'
<1>1. RowsOnImported' /\ OneNewDay' /\ RowsHaveData'
  BY DEF TableInv, SameBooks, RowsOnImported, OneNewDay, NewRow, HasRow, RowsHaveData
<1>2. TailToEnd' /\ Seam'
  BY DEF TableInv, SameBooks, TailToEnd, Seam, HasRow
<1> QED
  BY <1>1, <1>2 DEF TableInv

LEMMA QueueKept ==
  ASSUME RunInv, UNCHANGED rows,
         queue' = <<>> \/ (queue' = queue /\ run.pc # "verify")
  PROVE  QueueSteady'
<1>1. \A i \in 1..Len(queue') : NoOp(rows', queue'[i])
  BY DEF RunInv, QueueSteady, InVerification
<1> QED
  BY <1>1 DEF QueueSteady

\* A run that ends.
LEMMA StopOn ==
  ASSUME SumsInv, Stop, TableInv', UNCHANGED <<rows, amber>>,
         \A d \in Day : InRevisionSet(store', d) => InRevisionSet(store, d),
         queue' = <<>> \/ (queue' = queue /\ run.pc # "verify")
  PROVE  SumsStep
<1>1. QueueSteady'
  BY SumsTyped, QueueKept
<1>2. /\ run'.pc = "idle" /\ run'.job = "run" /\ \A d \in Day : run'.cache[d] = Unfetched
  BY DEF Stop, Idle
<1>3. RewriteFirst' /\ JobsServed' /\ DayInHand' /\ NewRowsKnown' /\ BaseContinues' /\ DayContinues'
  BY <1>2 DEF RewriteFirst, JobsServed, DayInHand, NewRowsKnown, BaseContinues, DayContinues,
              Rewriting, Writing, Planning
<1>4. CacheHasData'
  BY <1>2 DEF CacheHasData, Uncached
<1>5. NeverEstimated'
  BY <1>2, SumsTyped DEF NeverEstimated, Unfetched
<1> QED
  BY <1>1, <1>3, <1>4, <1>5 DEF SumsStep, RunInv

LEMMA StopStep ==
  ASSUME SumsInv, Stop, SameBooks(store, store'), UNCHANGED <<rows, amber, mode>>,
         queue' = <<>> \/ (queue' = queue /\ run.pc # "verify")
  PROVE  SumsStep
<1>1. TableInv' /\ \A d \in Day : InRevisionSet(store', d) => InRevisionSet(store, d)
  BY SumsTyped, TableKept DEF SameBooks
<1> QED
  BY <1>1, StopOn

LEMMA UsageIsAmber ==
  ASSUME TypeOK, RowsInReach, NEW d \in Day
  PROVE  \/ Usage(d) = amber[d]
         \/ Usage(d) = Nothing /\ \A s \in Stat : ~NewRow(s, d)
<1>1. ~(d + Retention < today) \/ ~(today <= d + Retention)
  BY MaxDayAssumption, UsageImportAssumption DEF TypeOK, Date, Day
<1> QED
  BY <1>1 DEF Usage, RowsInReach

NoRowAdded == \A s \in Stat, d \in Day : NewRow(s, d)' => NewRow(s, d)

LEMMA FetchedHasData ==
  ASSUME SumsInv, Undisturbed, RowsInReach, UNCHANGED <<rows, amber>>,
         SameBooks(store, store') \/ NoRowAdded,
         \/ run'.cache = run.cache
         \/ \E window : run'.cache = Fetched(window)
         \/ \E d \in Day : run'.cache = [run.cache EXCEPT ![d] = Usage(d)]
  PROVE  /\ CacheHasData'
         /\ "estimated" \notin Quality => \A d \in Day : run'.cache[d].quality # "estimated"
<1>1. \A d \in Day :
        \/ run'.cache[d] \in {run.cache[d], amber[d]}
        \/ run'.cache[d] = Nothing /\ \A s \in Stat : ~NewRow(s, d)
  <2> TAKE d \in Day
  <2>1. run'.cache[d] = run.cache[d] \/ run'.cache[d] = Usage(d)
    BY SumsTyped DEF Fetched, RunRecord
  <2>2. \/ Usage(d) = amber[d]
        \/ Usage(d) = Nothing /\ \A s \in Stat : ~NewRow(s, d)
    BY UsageIsAmber, SumsTyped
  <2> QED
    BY <2>1, <2>2
<1>2. NoRowAdded
  BY DEF NoRowAdded, SameBooks, NewRow, HasRow
<1>3. CacheHasData'
  BY <1>1, <1>2, SumsTyped DEF NoRowAdded, TableInv, RunInv, CacheHasData, RowsHaveData, Uncached,
              NewRow, HasRow, Empty, Nothing
<1> QED
  BY <1>1, <1>3, SumsTyped DEF NeverEstimated, Nothing

\* A step of a run that is not writing before or after it.
LEMMA MoveOn ==
  ASSUME SumsInv, Undisturbed, RowsInReach, TableInv', UNCHANGED <<rows, queue, amber>>,
         store'.lastWritten = store.lastWritten,
         \A d \in Day : InRevisionSet(store', d) => InRevisionSet(store, d),
         \/ run'.cache = run.cache
         \/ \E window : run'.cache = Fetched(window),
         run'.job = run.job, run.pc # "verify", run'.pc \notin Writing \cup {"fetch_day"},
         RewriteFirst', NewRowsKnown'
  PROVE  SumsStep
<1>1. QueueSteady'
  BY SumsTyped, QueueKept
<1>2. CacheHasData' /\ NeverEstimated'
  BY SumsTyped, FetchedHasData DEF NeverEstimated, NoRowAdded, NewRow, HasRow
<1>3. JobsServed' /\ DayInHand' /\ BaseContinues' /\ DayContinues'
  BY SumsTyped DEF RunInv, JobsServed, DayInHand, BaseContinues, DayContinues, Writing
<1> QED
  BY <1>1, <1>2, <1>3 DEF SumsStep, RunInv

LEMMA MoveStep ==
  ASSUME SumsInv, Undisturbed, RowsInReach, SameBooks(store, store'), UNCHANGED <<rows, queue, amber, mode>>,
         \/ run'.cache = run.cache
         \/ \E window : run'.cache = Fetched(window),
         run'.job = run.job, run.pc # "verify", run'.pc \notin Writing \cup {"fetch_day"},
         RewriteFirst', NewRowsKnown'
  PROVE  SumsStep
<1>1. TableInv' /\ \A d \in Day : InRevisionSet(store', d) => InRevisionSet(store, d)
  BY SumsTyped, TableKept DEF SameBooks
<1> QED
  BY <1>1, MoveOn DEF SameBooks

-----------------------------------------------------------------------------
(* Before the walk *)

\* What guard 1 accepts: rows after last_written are the pending day's.
LEMMA GuardKnows ==
  ASSUME SumsInv, ~GuardStops, NEW s \in Stat, NEW d \in Day, NewRow(s, d)
  PROVE  ~StatisticsAgree /\ d = store.pending
<1> DEFINE S == {e \in Day : HasRow(s, e)}
<1>1. /\ Latest(s) = MaxOf(S) /\ S \in SUBSET Day /\ d \in S
      /\ \A e \in Day : e \in Int /\ e # NoDay
      /\ store.lastWritten \in Int /\ store.lastWritten >= 0
  BY SumsTyped, HistoryNumbers DEF Latest, NewRow
<1>2. Latest(s) \in Day /\ HasRow(s, Latest(s)) /\ d <= Latest(s)
  BY <1>1, MaxOfDays
<1>3. NewRow(s, Latest(s))
  BY <1>1, <1>2 DEF NewRow
<1>4. ExpectedEnd(s) <= store.lastWritten
  BY <1>1 DEF ExpectedEnd, NoDay
<1>5. Latest(s) # ExpectedEnd(s)
  BY <1>1, <1>2, <1>3, <1>4 DEF NewRow
<1>6. ~StatisticsAgree /\ PendingExplains
  BY <1>5 DEF GuardStops, StatisticsAgree
<1>7. Latest(s) = store.pending
  BY <1>5, <1>6 DEF PendingExplains
<1> QED
  BY <1>2, <1>3, <1>6, <1>7, SumsTyped DEF TableInv, OneNewDay

LEMMA SameNewRows ==
  ASSUME SameBooks(store, store'), UNCHANGED rows
  PROVE  \A s, d : NewRow(s, d)' <=> NewRow(s, d)
BY DEF SameBooks, NewRow, HasRow

LEMMA GuardSums ==
  ASSUME SumsInv, Undisturbed, RowsInReach, Guard
  PROVE  SumsStep
<1>1. UNCHANGED <<rows, queue, amber, mode>> /\ run.pc = "guard" /\ SameBooks(store, store)
  BY SumsTyped DEF Guard, GuardRefuses, GuardAccepts, GuardSkipped, environment, table, At
<1>2. CASE GuardRefuses
  BY <1>1, <1>2, StopStep DEF GuardRefuses
<1>3. CASE GuardAccepts
  <2>1. /\ SameBooks(store, store') /\ run'.cache = run.cache /\ run'.job = run.job
        /\ run'.pc = (IF run.job = "import_day" THEN "plan" ELSE "resume")
        /\ run'.recovery = (IF StatisticsAgree THEN NoDay ELSE store.pending)
    BY <1>1, <1>3, SumsTyped, SettersKeepBooks DEF GuardAccepts, RunRecord
  <2>2. RewriteFirst'
    <3>1. store.tail # NoTail => run.job # "import_day"
      BY SumsTyped DEF TableInv, TailToEnd, Undisturbed, RunInv, JobsServed
    <3> QED
      BY <2>1, <3>1 DEF RewriteFirst, Rewriting, Writing, SameBooks
  <2>3. NewRowsKnown'
    <3>1. \A s \in Stat, d \in Day : NewRow(s, d)' => d = run'.recovery
      BY <1>1, <1>3, <2>1, GuardKnows, SameNewRows DEF GuardAccepts
    <3> QED
      BY <2>1, <3>1 DEF NewRowsKnown, Rewriting, Writing
  <2> QED
    BY <1>1, <2>1, <2>2, <2>3, MoveStep DEF Writing
<1>4. CASE GuardSkipped
  <2>1. /\ run'.cache = run.cache /\ run'.job = run.job /\ run'.pc = "resume"
        /\ store' = store /\ ~UsageActive'
    BY <1>1, <1>4, SumsTyped DEF GuardSkipped, Goto, RunRecord, UsageActive
  <2>2. RewriteFirst' /\ NewRowsKnown'
    BY <2>1 DEF RewriteFirst, NewRowsKnown, Rewriting, Writing
  <2> QED
    BY <1>1, <2>1, <2>2, MoveStep DEF Writing
<1> QED
  BY <1>2, <1>3, <1>4 DEF Guard

\* Between the resumed rewrite and the walk no rewrite is stored, and the run holds the
\* day to be recovered.
LEMMA PlanningMove ==
  ASSUME SumsInv, Undisturbed, RowsInReach, SameBooks(store, store'), UNCHANGED <<rows, queue, amber, mode>>,
         \/ run'.cache = run.cache
         \/ \E window : run'.cache = Fetched(window),
         run'.job = run.job, run'.recovery = run.recovery,
         run.pc \in Planning, run.pc = "resume" => store.tail = NoTail,
         run'.pc \in Planning \ {"resume"}
  PROVE  SumsStep
<1>1. RewriteFirst'
  BY SumsTyped DEF RunInv, RewriteFirst, SameBooks, Rewriting, Writing, Planning
<1>2. NewRowsKnown'
  BY SumsTyped, SameNewRows DEF RunInv, NewRowsKnown, Planning, Rewriting, Writing, UsageActive
<1> QED
  BY <1>1, <1>2, MoveStep DEF Planning, Writing

LEMMA ResumeSums ==
  ASSUME SumsInv, Undisturbed, RowsInReach, ResumeTail
  PROVE  SumsStep
<1>1. /\ UNCHANGED <<rows, queue, amber, mode, store>> /\ run.pc = "resume"
      /\ SameBooks(store, store')
  BY SumsTyped DEF ResumeTail, environment, table, At
<1>2. CASE UsageActive /\ store.tail # NoTail
  <2>1. /\ run'.cache = run.cache /\ run'.job = run.job /\ run'.recovery = run.recovery
        /\ run'.pc = "rewrite"
    BY <1>2, SumsTyped DEF ResumeTail, RunRecord
  <2>2. RewriteFirst' /\ NewRowsKnown'
    BY <1>1, <1>2, <2>1, SumsTyped, SameNewRows
       DEF RunInv, RewriteFirst, NewRowsKnown, Rewriting, Writing, Planning
  <2> QED
    BY <1>1, <2>1, <2>2, MoveStep DEF Writing
<1>3. CASE ~(UsageActive /\ store.tail # NoTail)
  <2>1. store.tail = NoTail
    BY <1>3, SumsTyped DEF TableInv, TailToEnd, UsageActive
  <2>2. /\ run'.cache = run.cache /\ run'.job = run.job /\ run'.recovery = run.recovery
        /\ run'.pc = "retention"
    BY <1>3, SumsTyped DEF ResumeTail, Goto, RunRecord
  <2> QED
    BY <1>1, <2>1, <2>2, PlanningMove DEF Planning
<1> QED
  BY <1>2, <1>3

LEMMA RetentionSums ==
  ASSUME SumsInv, Undisturbed, RowsInReach, RetentionStep
  PROVE  SumsStep
<1>1. /\ UNCHANGED <<rows, queue, amber, mode>> /\ run.pc = "retention"
      /\ SameBooks(store, store')
  BY SumsTyped, SettersKeepBooks
     DEF RetentionStep, RetentionDone, RetentionFails, environment, table, At
<1>2. CASE Stop
  BY <1>1, <1>2, StopStep
<1>3. CASE GoOn
  <2>1. /\ run'.cache = run.cache /\ run'.job = run.job /\ run'.recovery = run.recovery
        /\ run'.pc = "revisions"
    BY <1>3, SumsTyped DEF GoOn, RunRecord
  <2> QED
    BY <1>1, <2>1, PlanningMove DEF Planning
<1> QED
  BY <1>2, <1>3 DEF RetentionStep, RetentionDone, RetentionFails

LEMMA ReviseSums ==
  ASSUME SumsInv, Undisturbed, RowsInReach, Revise, run'.pc # "rewrite"
  PROVE  SumsStep
<1>1. /\ UNCHANGED <<rows, queue, amber, mode>> /\ run.pc \in {"revisions", "compare", "checked"}
  BY DEF Revise, FetchRevisions, RevisionsAlreadyChecked, CompareRevisions, RevisionsChecked,
         environment, table, At
<1>2. ASSUME NEW pc \in {"compare", "checked", "work"}, Goto(pc)
      PROVE  /\ run'.cache = run.cache /\ run'.job = run.job /\ run'.recovery = run.recovery
             /\ run'.pc \in Planning \ {"resume"}
  BY <1>2, SumsTyped DEF Goto, RunRecord, Planning
<1>3. CASE FetchRevisions
  <2>1. SameBooks(store, store')
    BY <1>3, SumsTyped, SettersKeepBooks DEF FetchRevisions
  <2>2. CASE Stop
    BY <1>1, <2>1, <2>2, StopStep
  <2>3. CASE Goto("compare")
    BY <1>1, <1>2, <2>1, <2>3, PlanningMove DEF Planning
  <2>4. CASE \E window : run' = [run EXCEPT !.cache = Fetched(window)]
    <3>1. /\ \E window : run'.cache = Fetched(window)
          /\ run'.job = run.job /\ run'.recovery = run.recovery /\ run'.pc = run.pc
      BY <2>4, SumsTyped DEF RunRecord
    <3> QED
      BY <1>1, <2>1, <3>1, PlanningMove DEF Planning
  <2> QED
    BY <1>3, <2>2, <2>3, <2>4 DEF FetchRevisions, RequestFails
<1>4. CASE RevisionsAlreadyChecked \/ RevisionsChecked
  <2>1. SameBooks(store, store') /\ Goto("work")
    BY <1>4, SumsTyped, SettersKeepBooks DEF RevisionsAlreadyChecked, RevisionsChecked
  <2> QED
    BY <1>1, <1>2, <2>1, PlanningMove DEF Planning
<1>5. CASE CompareRevisions
  <2>1. /\ \E days : store' = DropRevisions(store, days)
        /\ Goto("checked")
    <3>1. run' # [run EXCEPT !.pc = "rewrite", !.after = "checked"]
      BY SumsTyped DEF RunRecord
    <3> QED
      BY <1>5, <3>1 DEF CompareRevisions
  <2>2. SameBooks(store, store')
    BY <2>1, SumsTyped, SettersKeepBooks
  <2> QED
    BY <1>1, <1>2, <2>1, <2>2, PlanningMove DEF Planning
<1> QED
  BY <1>3, <1>4, <1>5 DEF Revise

-----------------------------------------------------------------------------
(* The walk *)

\* Days after the marker are skipped while no row is after last_written.
SkipsOpenDays(old, new) ==
  /\ new.lastWritten = old.lastWritten /\ new.tail = old.tail
  /\ \A d \in Day : /\ new.status[d] = "imported" => old.status[d] = "imported"
                    /\ d <= old.marker => new.status[d] = old.status[d]
                    /\ InRevisionSet(new, d) => InRevisionSet(old, d)

LEMMA SkipDays ==
  ASSUME NEW st \in StoreRecord, NEW first \in Int, NEW last, NEW how \in Skipped,
         st.marker < first
  PROVE  SkipsOpenDays(st, MarkSkipped(st, first, last, how))
<1>1. \A d \in Day : d <= st.marker => d \notin first..last
  BY HistoryNumbers
<1>2. how # "imported"
  BY DEF Skipped
<1> DEFINE new == MarkSkipped(st, first, last, how)
<1>3. /\ new.lastWritten = st.lastWritten /\ new.tail = st.tail
      /\ new.status = [d \in Day |-> IF d \in first..last THEN how ELSE st.status[d]]
      /\ new.revisions = [d \in Day |-> IF d \in first..last THEN NoRevision ELSE st.revisions[d]]
  BY DEF MarkSkipped, StoreRecord
<1> HIDE DEF new
<1> QED
  BY <1>1, <1>2, <1>3 DEF SkipsOpenDays, InRevisionSet, new

LEMMA SkipTable ==
  ASSUME SumsInv, SkipsOpenDays(store, store'), \A s \in Stat, d \in Day : ~NewRow(s, d),
         UNCHANGED <<rows, amber, mode>>
  PROVE  TableInv' /\ \A s \in Stat, d \in Day : ~NewRow(s, d)'
<1>1. \A s \in Stat, d \in Day : ~NewRow(s, d)'
  BY DEF NewRow, HasRow, SkipsOpenDays
<1>2. RowsOnImported'
  <2>1. \A s \in Stat, d \in Day : HasRow(s, d) => d <= store.lastWritten
    BY HistoryNumbers, SumsTyped DEF NewRow
  <2>2. store.lastWritten <= store.marker
    BY SumsTyped DEF StoreInOrder
  <2>3. \A s \in Stat, d \in Day : HasRow(s, d) => d <= store.marker
    BY <2>1, <2>2, HistoryNumbers, SumsTyped
  <2> QED
    BY <2>3, SumsTyped DEF TableInv, RowsOnImported, HasRow, SkipsOpenDays
<1>3. OneNewDay' /\ RowsHaveData'
  BY <1>1, SumsTyped DEF OneNewDay, RowsHaveData, TableInv, HasRow
<1>4. TailToEnd' /\ Seam'
  BY SumsTyped DEF TableInv, SkipsOpenDays, TailToEnd, Seam, HasRow
<1> QED
  BY <1>1, <1>2, <1>3, <1>4 DEF TableInv

\* No rewrite is stored while the run plans the walk or walks.
LEMMA NoTailOutside ==
  ASSUME SumsInv, run.pc \notin {"idle", "guard", "resume"}, ~Rewriting
  PROVE  store.tail = NoTail
BY SumsTyped DEF RunInv, RewriteFirst

LEMMA WalkStartSums ==
  ASSUME SumsInv, Undisturbed, RowsInReach, WalkStart
  PROVE  SumsStep
<1>1. /\ UNCHANGED <<rows, queue, amber, mode>> /\ run.pc = "work" /\ mode = "full"
      /\ SameBooks(store, store)
  BY SumsTyped DEF WalkStart, environment, table, At
<1>2. \A s \in Stat, d \in Day : NewRow(s, d) => d = run.recovery
  BY <1>1, SumsTyped DEF RunInv, NewRowsKnown, Planning, UsageActive
<1> DEFINE b == store.boundary
           start == IF run.recovery # NoDay THEN run.recovery
                    ELSE IF store.marker # NoDay THEN store.marker + 1 ELSE b
           last == Earlier(b - 1, Yesterday)
           from == IF start < b THEN last + 1 ELSE start
<1>3. CASE start < b /\ run.recovery # NoDay
  BY <1>1, <1>3, StopStep DEF WalkStart
<1>4. CASE ~(start < b /\ run.recovery # NoDay)
  <2>1. /\ store' = (IF start < b THEN MarkSkipped(store, start, last, "unavailable") ELSE store)
        /\ run' = [run EXCEPT !.pc = "walk", !.yesterday = Yesterday, !.day = from,
                              !.windowEnd = from - 1, !.leading = NoDay]
    BY <1>4 DEF WalkStart
  <2> HIDE DEF from
  <2>2. /\ run'.cache = run.cache /\ run'.job = run.job /\ run'.pc = "walk"
        /\ run'.day = from /\ run'.leading = NoDay
    BY <2>1, SumsTyped DEF RunRecord
  <2>3. store.tail = NoTail
    BY <1>1, NoTailOutside DEF Rewriting, Writing
  <2>4. /\ TableInv' /\ store'.tail = NoTail /\ store'.lastWritten = store.lastWritten
        /\ \A d \in Day : InRevisionSet(store', d) => InRevisionSet(store, d)
        /\ \A s \in Stat, d \in Day : NewRow(s, d)' => d = from
    <3>1. CASE start < b
      <4>1. run.recovery = NoDay /\ start = store.marker + 1
        BY <1>4, <3>1, SumsTyped DEF StoreRecord, Day, Date, NoDay
      <4>2. \A s \in Stat, d \in Day : ~NewRow(s, d)
        BY <1>2, <4>1, HistoryNumbers, SumsTyped
      <4>3. start \in Int /\ store.marker < start
        BY <4>1, HistoryNumbers, SumsTyped
      <4> HIDE DEF start, last
      <4>4. SkipsOpenDays(store, store')
        BY <2>1, <3>1, <4>3, SkipDays, SumsTyped DEF Skipped
      <4> QED
        BY <1>1, <2>3, <4>2, <4>4, SkipTable DEF SkipsOpenDays
    <3>2. CASE ~(start < b)
      <4>1. store' = store
        BY <2>1, <3>2
      <4>2. \A s \in Stat, d \in Day : NewRow(s, d)' => NewRow(s, d)
        BY <1>1, <4>1 DEF NewRow, HasRow
      <4>3. from = start
        BY <3>2 DEF from
      <4>4. \A s \in Stat, d \in Day : NewRow(s, d) => d = start
        BY <1>2, HistoryNumbers, SumsTyped
      <4> QED
        BY <1>1, <2>3, <4>1, <4>2, <4>3, <4>4, TableKept, SumsTyped
    <3> QED
      BY <3>1, <3>2
  <2>5. RewriteFirst' /\ NewRowsKnown'
    BY <2>2, <2>4 DEF RewriteFirst, NewRowsKnown, Rewriting, Writing, Planning
  <2> QED
    BY <1>1, <2>2, <2>4, <2>5, MoveOn DEF Writing
<1> QED
  BY <1>3, <1>4

\* Rows after last_written are on the day the walk is at, and that day is not empty then.
LEMMA EmptyDayHasNoRows ==
  ASSUME SumsInv, NEW d \in Day, WalkDay(d), Empty(run.cache[d])
  PROVE  \A s \in Stat, e \in Day : ~NewRow(s, e)
<1>1. run.pc = "walk" /\ d = run.day /\ ~Uncached(d)
  BY DEF WalkDay, WalkAt, At, Empty, Uncached, Unfetched
<1>2. \A s \in Stat : ~NewRow(s, d)
  BY <1>1, SumsTyped DEF RunInv, CacheHasData
<1> QED
  BY <1>1, <1>2, SumsTyped DEF RunInv, NewRowsKnown, NewRow

\* The previous day is the last imported one.
LEMMA PreviousIsImported ==
  ASSUME SumsInv, NEW day \in Day
  PROVE  LET prev == PreviousDay(day) IN
         /\ prev = NoDay => \A e \in Day : e < day => store.status[e] # "imported"
         /\ prev # NoDay =>
              /\ prev \in Day /\ prev < day /\ store.status[prev] = "imported"
              /\ \A e \in Day : e < day /\ store.status[e] = "imported" => e <= prev
<1>1. /\ \A e \in Day : store.status[e] = "imported" => e <= store.lastWritten
      /\ store.lastWritten # NoDay => store.status[store.lastWritten] = "imported"
      /\ store.lastWritten \in Day \cup {NoDay}
  BY SumsTyped DEF TableInv, RowsOnImported, StoreInOrder, StoreRecord
<1>2. CASE store.lastWritten # NoDay /\ store.lastWritten < day
  BY <1>1, <1>2 DEF PreviousDay
<1>3. CASE ~(store.lastWritten # NoDay /\ store.lastWritten < day)
  <2> DEFINE S == {d \in Day : d < day /\ store.status[d] = "imported"}
  <2>1. PreviousDay(day) = MaxOf(S) /\ S \in SUBSET Day
    BY <1>3 DEF PreviousDay, LastImportedBefore
  <2>2. S = {} => MaxOf(S) = NoDay
    BY DEF MaxOf
  <2>3. S # {} => MaxOf(S) \in S /\ \A e \in S : e <= MaxOf(S)
    BY <2>1, MaxOfDays
  <2> QED
    BY <2>1, <2>2, <2>3, HistoryNumbers, SumsTyped
<1> QED
  BY <1>2, <1>3

\* The baselines of a day are the sums before it.
LEMMA BaselinesContinue ==
  ASSUME SumsInv, NEW day \in Day, ~PartialHistory(day), NEW s \in ActiveStats(day),
         \A e \in Day : NewRow(s, e) => e >= day
  PROVE  Baselines(day)[s] = SumBefore(rows[s], day)
<1> DEFINE prev == PreviousDay(day)
<1>1. /\ s \in Stat /\ Active(s, day) /\ rows[s] \in [Day -> Row]
      /\ Baselines(day)[s] = Baseline(s, day)
      /\ \A e \in Day : e \in Int /\ e # NoDay
      /\ store.lastWritten \in Int /\ store.marker \in Int /\ store.since[s] \in Int
  BY SumsTyped, HistoryNumbers, MaxDayAssumption
     DEF ActiveStats, Baselines, TypeOK, StoreRecord, Absent, Day, NoDay
<1>2. \A e \in Day : e < day /\ HasRow(s, e) => store.status[e] = "imported"
  <2>1. store.lastWritten <= store.marker
    BY SumsTyped DEF StoreInOrder
  <2> QED
    BY <1>1, <2>1, SumsTyped DEF NewRow, TableInv, RowsOnImported
<1>3. \A e \in Day : HasRow(s, e) => store.since[s] <= e
  BY <1>1, SumsTyped DEF RowsAfterStart, NoRowBeforeStart, Active
<1>4. CASE prev = NoDay
  <2>1. \A e \in Day : e < day => rows[s][e] = NoRow
    BY <1>2, <1>4, PreviousIsImported DEF HasRow
  <2>2. SumBefore(rows[s], day) = 0
    BY <2>1, NoRowBefore
  <2>3. day > 1 => day - 1 \in Day /\ day - 1 < day
    BY MaxDayAssumption DEF Day
  <2> QED
    BY <1>1, <1>4, <2>1, <2>2, <2>3 DEF Baseline, NoRow
<1>5. CASE prev # NoDay
  <2>1. /\ prev \in Day /\ prev < day
        /\ \A e \in Day : e < day /\ HasRow(s, e) => e <= prev
    BY <1>2, <1>5, PreviousIsImported
  <2>2. Baseline(s, day) = rows[s][prev].sum
    BY <1>5 DEF Baseline
  <2> HIDE DEF prev
  <2>3. CASE HasRow(s, prev)
    <3>1. RowBefore(rows[s], day) = prev
      BY <1>1, <2>1, <2>3, RowBeforeIs DEF HasRow
    <3> QED
      BY <1>1, <2>1, <2>2, <3>1 DEF SumBefore
  <2>4. CASE ~HasRow(s, prev)
    <3>1. ~Active(s, prev)
      BY <1>1, <1>5, <2>4 DEF PartialHistory, prev
    <3>2. \A e \in Day : e < day => rows[s][e] = NoRow
      BY <1>1, <1>3, <2>1, <3>1 DEF Active, HasRow
    <3>3. SumBefore(rows[s], day) = 0
      BY <3>2, NoRowBefore
    <3> QED
      BY <1>1, <2>2, <2>4, <3>3 DEF HasRow, NoRow
  <2> QED
    BY <2>3, <2>4
<1> QED
  BY <1>4, <1>5

\* The steps that set out to write a day.
LEMMA BeginWriteSums ==
  ASSUME SumsInv, Undisturbed, RowsInReach, NEW day \in Day, NEW caller \in {"walk", "rewrite"},
         BeginWrite(day, caller), UNCHANGED <<rows, queue, amber, mode>>, run.pc # "verify",
         caller = "walk" => /\ Follows(store, day) /\ store.tail = NoTail
                            /\ \A s \in Stat, e \in Day : NewRow(s, e) => e = day,
         caller = "rewrite" => /\ store.tail # NoTail /\ day = store.tail.next
                               /\ day <= store.lastWritten
                               /\ \A s \in Stat, e \in Day : NewRow(s, e) => e = run.recovery
  PROVE  SumsStep
<1>1. SameBooks(store, store')
  BY SumsTyped, SettersKeepBooks DEF BeginWrite
<1>2. CASE PartialHistory(day)
  BY <1>1, <1>2, StopStep DEF BeginWrite
<1>3. CASE ~PartialHistory(day)
  <2>1. /\ run'.pc = "write" /\ run'.day = day /\ run'.caller = caller /\ run'.job = run.job
        /\ run'.recovery = run.recovery /\ run'.cache = run.cache
        /\ run'.base = Baselines(day)
    BY <1>3, SumsTyped DEF BeginWrite, RunRecord
  <2>2. TableInv' /\ QueueSteady'
    BY <1>1, SumsTyped, TableKept, QueueKept
  <2>3. CacheHasData' /\ NeverEstimated'
    BY <1>1, <2>1, SumsTyped, FetchedHasData DEF NeverEstimated, SameBooks
  <2>4. RewriteFirst' /\ JobsServed' /\ DayInHand' /\ DayContinues'
    BY <1>1, <2>1, SumsTyped
       DEF RewriteFirst, JobsServed, DayInHand, DayContinues, Rewriting, Writing, RunInv, Follows,
           SameBooks
  <2>5. NewRowsKnown'
    BY <1>1, <2>1, SameNewRows DEF NewRowsKnown, Rewriting, Writing, Planning
  <2>6. BaseContinues'
    <3>1. \A s \in Stat, e \in Day : NewRow(s, e) => e >= day
      BY HistoryNumbers, SumsTyped DEF NewRow
    <3>2. \A s \in ActiveStats(day) : Baselines(day)[s] = SumBefore(rows[s], day)
      BY <1>3, <3>1, BaselinesContinue DEF ActiveStats
    <3>3. ActiveStats(run.day)' = ActiveStats(day)
      BY <1>1, <2>1 DEF ActiveStats, Active, SameBooks
    <3> QED
      BY <2>1, <3>2, <3>3 DEF BaseContinues
  <2> QED
    BY <2>2, <2>3, <2>4, <2>5, <2>6 DEF SumsStep, RunInv
<1> QED
  BY <1>2, <1>3

LEMMA WalkSums ==
  ASSUME SumsInv, Undisturbed, RowsInReach, Walk
  PROVE  SumsStep
<1>1. CASE WalkStart
  BY <1>1, WalkStartSums
<1>2. CASE NothingToWalk \/ WalkDone
  <2>1. /\ UNCHANGED <<rows, queue, amber, mode, store>> /\ run.pc # "verify" /\ Stop
        /\ SameBooks(store, store')
    BY <1>2, SumsTyped DEF NothingToWalk, WalkDone, environment, table, At
  <2> QED
    BY <2>1, StopStep
<1>3. ASSUME run'.pc = "walk", store'.tail = NoTail,
             \A s \in Stat, e \in Day : NewRow(s, e)' => e = run'.day /\ run'.leading = NoDay
      PROVE  RewriteFirst' /\ NewRowsKnown'
  BY <1>3 DEF RewriteFirst, NewRowsKnown, Rewriting, Writing, Planning
<1>4. CASE WalkFetch
  <2>1. /\ UNCHANGED <<rows, queue, amber, mode, store>> /\ run.pc = "walk"
        /\ store.tail = NoTail /\ SameBooks(store, store')
        /\ \A s \in Stat, e \in Day : NewRow(s, e) => e = run.day /\ run.leading = NoDay
    BY <1>4, SumsTyped, NoTailOutside
       DEF RunInv, NewRowsKnown, WalkFetch, WalkAt, At, environment, table, Rewriting, Writing
  <2>2. CASE Stop
    BY <2>1, <2>2, StopStep
  <2>3. CASE \E window : run' = [run EXCEPT !.cache = Fetched(window), !.windowEnd = MaxOf(window)]
    <3>1. /\ \E window : run'.cache = Fetched(window)
          /\ run'.job = run.job /\ run'.pc = run.pc /\ run'.day = run.day
          /\ run'.leading = run.leading
      BY <2>3, SumsTyped DEF RunRecord
    <3>2. RewriteFirst' /\ NewRowsKnown'
      BY <1>3, <2>1, <3>1, SameNewRows
    <3> QED
      BY <2>1, <3>1, <3>2, MoveStep DEF Writing
  <2> QED
    BY <1>4, <2>2, <2>3 DEF WalkFetch, RequestFails
<1>5. CASE WalkLeading
  <2>1. PICK d \in Day :
          /\ WalkDay(d) /\ Empty(run.cache[d]) /\ UNCHANGED <<rows, queue, amber, mode, store>>
          /\ run' = [run EXCEPT !.leading = IF @ = NoDay THEN d ELSE @, !.day = d + 1]
    BY <1>5 DEF WalkLeading, environment, table
  <2>2. \A s \in Stat, e \in Day : ~NewRow(s, e)
    BY <2>1, EmptyDayHasNoRows
  <2>3. /\ run'.cache = run.cache /\ run'.job = run.job /\ run'.pc = run.pc /\ run.pc = "walk"
    BY <2>1, SumsTyped DEF RunRecord, WalkDay, WalkAt, At
  <2>4. store.tail = NoTail /\ SameBooks(store, store')
    BY <2>1, <2>3, NoTailOutside, SumsTyped DEF Rewriting, Writing
  <2>5. RewriteFirst' /\ NewRowsKnown'
    BY <1>3, <2>1, <2>2, <2>3, <2>4, SameNewRows
  <2> QED
    BY <2>1, <2>3, <2>4, <2>5, MoveStep DEF Writing
<1>6. CASE WalkSkipsLeading
  <2>1. PICK d \in Day :
          /\ WalkDay(d) /\ run.leading # NoDay /\ UNCHANGED <<rows, queue, amber, mode>>
          /\ store' = SetRetention(MarkSkipped(store, run.leading, d - 1, "unavailable"), d, today)
          /\ run' = [run EXCEPT !.leading = NoDay]
    BY <1>6 DEF WalkSkipsLeading, environment, table
  <2>2. /\ run'.cache = run.cache /\ run'.job = run.job /\ run'.pc = run.pc /\ run.pc = "walk"
    BY <2>1, SumsTyped DEF RunRecord, WalkDay, WalkAt, At
  <2>3. store.tail = NoTail /\ \A s \in Stat, e \in Day : ~NewRow(s, e)
    BY <2>1, <2>2, NoTailOutside, SumsTyped DEF Rewriting, Writing, RunInv, NewRowsKnown
  <2>4. run.leading \in Int /\ store.marker < run.leading
    <3>1. run.leading \in Day /\ Follows(store, run.leading)
      BY <2>1, <2>2, SumsTyped DEF RunInOrder, WalkFollows, RunRecord
    <3> QED
      BY <3>1, HistoryNumbers, SumsTyped DEF Follows
  <2>5. SkipsOpenDays(store, store')
    <3> DEFINE st == MarkSkipped(store, run.leading, d - 1, "unavailable")
    <3>1. SkipsOpenDays(store, st)
      BY <2>4, SkipDays, SumsTyped DEF Skipped
    <3>2. store' = SetRetention(st, d, today)
      BY <2>1
    <3>3. /\ store'.lastWritten = st.lastWritten /\ store'.tail = st.tail
          /\ store'.status = st.status /\ store'.revisions = st.revisions
      BY <3>2 DEF SetRetention, MarkSkipped
    <3> HIDE DEF st
    <3> QED
      BY <3>1, <3>3 DEF SkipsOpenDays, InRevisionSet
  <2>6. /\ TableInv' /\ \A s \in Stat, e \in Day : ~NewRow(s, e)'
        /\ store'.tail = NoTail /\ store'.lastWritten = store.lastWritten
        /\ \A e \in Day : InRevisionSet(store', e) => InRevisionSet(store, e)
    BY <2>1, <2>3, <2>5, SkipTable DEF SkipsOpenDays
  <2>7. RewriteFirst' /\ NewRowsKnown'
    BY <1>3, <2>2, <2>6
  <2> QED
    BY <2>1, <2>2, <2>6, <2>7, MoveOn DEF Writing
<1>7. CASE WalkPatience
  <2>1. PICK d \in Day :
          /\ WalkDay(d) /\ Empty(run.cache[d]) /\ store.lastWritten # NoDay
          /\ UNCHANGED <<rows, queue, amber, mode>>
          /\ LET st == NoteEmpty(store, d, today) IN
             \/ store' = MarkSkipped(st, d, d, "gap") /\ run' = [run EXCEPT !.day = d + 1]
             \/ store' = st /\ Stop
    BY <1>7 DEF WalkPatience, environment, table, RequestFails
  <2> DEFINE st == NoteEmpty(store, d, today)
  <2>2. \A s \in Stat, e \in Day : ~NewRow(s, e)
    BY <2>1, EmptyDayHasNoRows
  <2>3. /\ SameBooks(store, st) /\ st \in StoreRecord
    BY SumsTyped, SettersKeepBooks, NoteEmptyType DEF TypeOK
  <2>4. run.pc = "walk" /\ d = run.day
    BY <2>1 DEF WalkDay, WalkAt, At
  <2>5. CASE store' = st /\ Stop
    BY <2>1, <2>3, <2>4, <2>5, StopStep
  <2>6. CASE store' = MarkSkipped(st, d, d, "gap") /\ run' = [run EXCEPT !.day = d + 1]
    <3>1. /\ run'.cache = run.cache /\ run'.job = run.job /\ run'.pc = run.pc
          /\ run'.leading = run.leading
      BY <2>6, SumsTyped DEF RunRecord
    <3>2. store.tail = NoTail
      BY <2>4, NoTailOutside DEF Rewriting, Writing
    <3>3. d \in Int /\ store.marker < d
      <4>1. Follows(store, d)
        BY <2>1, <2>4, SumsTyped DEF RunInOrder, WalkFollows
      <4> QED
        BY <4>1, HistoryNumbers, SumsTyped DEF Follows
    <3> HIDE DEF st
    <3>4. SkipsOpenDays(st, store')
      BY <2>3, <2>6, <3>3, SkipDays DEF Skipped, SameBooks
    <3>5. SkipsOpenDays(store, store')
      <4>1. \A e \in Day : e <= store.marker => st.status[e] = store.status[e]
        BY <3>3, HistoryNumbers, SumsTyped DEF st, NoteEmpty, MarkDay, StoreRecord
      <4> QED
        BY <2>3, <3>4, <4>1 DEF SkipsOpenDays, SameBooks
    <3>6. /\ TableInv' /\ \A s \in Stat, e \in Day : ~NewRow(s, e)'
          /\ store'.tail = NoTail /\ store'.lastWritten = store.lastWritten
          /\ \A e \in Day : InRevisionSet(store', e) => InRevisionSet(store, e)
      BY <2>1, <2>2, <3>2, <3>5, SkipTable DEF SkipsOpenDays
    <3>7. RewriteFirst' /\ NewRowsKnown'
      BY <1>3, <2>4, <3>1, <3>6
    <3> QED
      BY <2>1, <2>4, <3>1, <3>6, <3>7, MoveOn DEF Writing
  <2> QED
    BY <2>1, <2>5, <2>6
<1>8. CASE WalkWrite
  <2>1. PICK d \in Day : WalkDay(d) /\ run.leading = NoDay /\ BeginWrite(d, "walk")
    BY <1>8 DEF WalkWrite
  <2>2. /\ UNCHANGED <<rows, queue, amber, mode>> /\ run.pc = "walk" /\ d = run.day
    BY <1>8, <2>1 DEF WalkWrite, WalkDay, WalkAt, At, environment, table
  <2>3. /\ store.tail = NoTail /\ \A s \in Stat, e \in Day : NewRow(s, e) => e = d
    BY <2>2, NoTailOutside, SumsTyped DEF Rewriting, Writing, RunInv, NewRowsKnown
  <2>4. Follows(store, d)
    BY <2>1, <2>2, SumsTyped DEF RunInOrder, WalkFollows
  <2> QED
    BY <2>1, <2>2, <2>3, <2>4, BeginWriteSums
<1> QED
  BY <1>1, <1>2, <1>4, <1>5, <1>6, <1>7, <1>8 DEF Walk

-----------------------------------------------------------------------------
(* The rewrite *)

LEMMA SameDaysTable ==
  ASSUME SumsInv, UNCHANGED <<rows, amber>>, TailToEnd', Seam',
         store'.marker = store.marker, store'.lastWritten = store.lastWritten,
         store'.status = store.status
  PROVE  TableInv'
BY SumsTyped DEF TableInv, RowsOnImported, OneNewDay, NewRow, HasRow, RowsHaveData

\* A changed day starts a rewrite up to last_written.
LEMMA ReviseBeginsRewrite ==
  ASSUME SumsInv, Undisturbed, RowsInReach, Revise, run'.pc = "rewrite"
  PROVE  SumsStep
<1>1. /\ CompareRevisions /\ UNCHANGED <<rows, queue, amber, mode>> /\ run.pc = "compare"
  BY SumsTyped DEF Revise, FetchRevisions, RevisionsAlreadyChecked, CompareRevisions,
                   RevisionsChecked, RequestFails, Stop, Idle, Goto, RunRecord, environment, table, At
<1> DEFINE changed == {d \in RevisionDaysOf(store) : Changed(d)}
           first == MinOf(changed)
           st == DropRevisions(store, {d \in RevisionDaysOf(store) : Final(d)})
<1>2. /\ changed # {} /\ UsageActive /\ first <= store.lastWritten
      /\ store' = BeginRewrite(st, first, st.lastWritten, st.lastWritten, "error")
      /\ run' = [run EXCEPT !.pc = "rewrite", !.after = "checked"]
  BY <1>1, SumsTyped DEF CompareRevisions, Goto, RunRecord
<1>3. store.tail = NoTail
  BY <1>1, NoTailOutside DEF Rewriting, Writing
<1>4. first \in Day /\ "estimated" \in Quality
  <2>1. changed \in SUBSET Day /\ \E d \in Day : InRevisionSet(store, d)
    BY <1>2 DEF RevisionDaysOf
  <2> QED
    BY <1>2, <2>1, MinOfDays, SumsTyped DEF NeverEstimated
<1> HIDE DEF first, changed
<1>5. /\ store'.marker = store.marker /\ store'.lastWritten = store.lastWritten
      /\ store'.status = store.status
      /\ store'.tail = [next |-> first, to |-> store.lastWritten,
                        requestedEnd |-> store.lastWritten, onEmpty |-> "error"]
      /\ \A d \in Day : InRevisionSet(store', d) => InRevisionSet(store, d)
  BY <1>2, <1>3, SumsTyped
     DEF BeginRewrite, SetTail, DropRevisions, InRevisionSet, StoreRecord
<1>6. /\ run'.cache = run.cache /\ run'.job = run.job /\ run'.recovery = run.recovery
  BY <1>2, SumsTyped DEF RunRecord
<1>7. first > 0 /\ store'.tail # NoTail
  BY <1>4, <1>5, MaxDayAssumption DEF Day, NoTail, NoDay
<1>8. TableInv'
  <2>1. TailToEnd'
    BY <1>1, <1>2, <1>4, <1>5, <1>7 DEF TailToEnd, UsageActive
  <2>2. Seam'
    BY <1>1, <1>3, <1>5, SumsTyped DEF TableInv, Seam
  <2> QED
    BY <1>1, <1>5, <2>1, <2>2, SameDaysTable
<1>9. RewriteFirst'
  BY <1>2, <1>7 DEF RewriteFirst, Rewriting
<1>10. NewRowsKnown'
  <2>1. \A s \in Stat, d \in Day : NewRow(s, d) => d = run.recovery
    BY <1>1, <1>2, SumsTyped DEF RunInv, NewRowsKnown, Planning
  <2>2. \A s \in Stat, d \in Day : NewRow(s, d)' <=> NewRow(s, d)
    BY <1>1, <1>5 DEF NewRow, HasRow
  <2> QED
    BY <1>6, <2>1, <2>2, SumsTyped DEF NewRowsKnown, Planning, Writing
<1> QED
  BY <1>1, <1>5, <1>6, <1>8, <1>9, <1>10, MoveOn DEF Writing

\* A rewrite passes skipped days only: every other day it meets is imported.
LEMMA RewriteMeets ==
  ASSUME SumsInv, NEW d \in Day, RewriteAt(d)
  PROVE  /\ store.tail # NoTail /\ d = store.tail.next /\ d <= store.lastWritten
         /\ store.tail.to = store.lastWritten /\ run.pc = "rewrite"
         /\ \A s \in Stat, e \in Day : NewRow(s, e) => e = run.recovery
         /\ Requested(d)
         /\ RewriteSkips(d) => store.status[d] # "imported"
         /\ ~RewriteSkips(d) => store.status[d] = "imported"
<1>1. run.pc = "rewrite" /\ d = store.tail.next /\ d <= store.tail.to
  BY DEF RewriteAt, At
<1>2. store.tail # NoTail
  BY <1>1, SumsTyped DEF RunInv, RewriteFirst, Rewriting
<1>3. store.tail.to = store.lastWritten /\ store.tail.requestedEnd = store.lastWritten
  BY <1>2, SumsTyped DEF TableInv, TailToEnd
<1>4. Requested(d) /\ d <= store.lastWritten
  BY <1>1, <1>3 DEF Requested
<1>5. RewriteSkips(d) => store.status[d] \in Skipped
  BY <1>4 DEF RewriteSkips
<1>6. ~RewriteSkips(d) => store.status[d] \notin Skipped \/ store.status[d] = "not_requested"
  BY DEF RewriteSkips
<1>7. Settled(store, d)
  <2>1. d <= d
    BY HistoryNumbers, SumsTyped
  <2> QED
    BY <1>1, <2>1, SumsTyped DEF StoreInOrder
<1>8. ~RewriteSkips(d) => store.status[d] = "imported"
  BY <1>6, <1>7, SumsTyped DEF Settled, OutcomeOf, StoreInOrder
<1>9. \A s \in Stat, e \in Day : NewRow(s, e) => e = run.recovery
  BY <1>1, SumsTyped DEF RunInv, NewRowsKnown, Rewriting
<1> QED
  BY <1>1, <1>2, <1>3, <1>4, <1>5, <1>8, <1>9 DEF Skipped

LEMMA RewriteSkipSums ==
  ASSUME SumsInv, Undisturbed, RowsInReach, RewriteSkip
  PROVE  SumsStep
<1>1. PICK d \in Day :
        /\ RewriteAt(d) /\ RewriteSkips(d) /\ store' = [store EXCEPT !.tail.next = d + 1]
        /\ UNCHANGED <<rows, queue, amber, mode, run>>
  BY DEF RewriteSkip, environment, table
<1>2. /\ store.tail # NoTail /\ d = store.tail.next /\ run.pc = "rewrite"
      /\ store.status[d] # "imported" /\ d <= store.lastWritten
      /\ \A s \in Stat, e \in Day : NewRow(s, e) => e = run.recovery
  BY <1>1, RewriteMeets
<1>3. /\ store'.marker = store.marker /\ store'.lastWritten = store.lastWritten
      /\ store'.status = store.status /\ store'.revisions = store.revisions
      /\ store'.tail.next = d + 1 /\ store'.tail.to = store.tail.to
      /\ store'.tail.requestedEnd = store.tail.requestedEnd
  BY <1>1, SumsTyped DEF StoreRecord, TailRecord
<1>4. /\ \A e \in Day : e \in Int /\ e > 0
      /\ store.lastWritten \in Int /\ store.marker \in Int
      /\ store.lastWritten <= store.marker
  BY HistoryNumbers, SumsTyped DEF StoreInOrder, Day
<1>5. \A s \in Stat : ~HasRow(s, d)
  BY <1>2, <1>4, SumsTyped DEF TableInv, RowsOnImported
<1>6. store'.tail # NoTail
  BY <1>3, <1>4 DEF NoTail, NoDay
<1>7. TailToEnd'
  BY <1>1, <1>2, <1>3, <1>4, SumsTyped DEF TableInv, TailToEnd
<1>8. Seam'
  <2> SUFFICES ASSUME NEW s \in Stat, NEW e \in Day, e <= store.lastWritten, Broken(rows[s], e)
               PROVE  /\ d + 1 <= e
                      /\ \A c \in Day : d + 1 < c /\ c < e => ~HasRow(s, c)
                      /\ \A c \in Day : c <= store.lastWritten /\ Broken(rows[s], c) => c = e
    BY <1>1, <1>3, <1>6 DEF Seam, HasRow
  <2>1. /\ d <= e /\ \A c \in Day : d < c /\ c < e => ~HasRow(s, c)
        /\ \A c \in Day : c <= store.lastWritten /\ Broken(rows[s], c) => c = e
    BY <1>2, SumsTyped DEF TableInv, Seam
  <2>2. d # e
    BY <1>5 DEF Broken, HasRow
  <2> QED
    BY <1>4, <2>1, <2>2
<1>9. TableInv'
  BY <1>1, <1>3, <1>7, <1>8, SameDaysTable
<1>10. RewriteFirst' /\ NewRowsKnown'
  <2>1. \A s \in Stat, e \in Day : NewRow(s, e)' <=> NewRow(s, e)
    BY <1>1, <1>3 DEF NewRow, HasRow
  <2> QED
    BY <1>1, <1>2, <1>6, <2>1 DEF RewriteFirst, NewRowsKnown, Rewriting, Writing, Planning
<1> QED
  BY <1>1, <1>2, <1>3, <1>9, <1>10, MoveOn DEF Writing, InRevisionSet

LEMMA RewriteDoneSums ==
  ASSUME SumsInv, Undisturbed, RowsInReach, RewriteDone
  PROVE  SumsStep
<1>1. /\ run.pc = "rewrite" /\ store.tail.next > store.tail.to /\ store' = SetTail(store, NoTail)
      /\ UNCHANGED <<rows, queue, amber, mode>>
      /\ \/ Stop
         \/ run.after \in {"retention", "checked"} /\ Goto(run.after)
  BY SumsTyped DEF RewriteDone, environment, table, At, RunRecord
<1>2. store.tail # NoTail
  BY <1>1, SumsTyped DEF RunInv, RewriteFirst, Rewriting
<1>3. /\ store'.marker = store.marker /\ store'.lastWritten = store.lastWritten
      /\ store'.status = store.status /\ store'.revisions = store.revisions
      /\ store'.tail = NoTail
  BY <1>1, SumsTyped DEF SetTail, StoreRecord
<1>4. TableInv'
  <2>1. \A s \in Stat, e \in Day : ~(e <= store.lastWritten /\ Broken(rows[s], e))
    <3>1. store.tail.to = store.lastWritten /\ store.tail.next \in Int
      BY <1>2, SumsTyped DEF TableInv, TailToEnd, StoreRecord, TailRecord
    <3> QED
      BY <1>1, <3>1, HistoryNumbers, SumsTyped DEF TableInv, Seam
  <2>2. TailToEnd' /\ Seam'
    BY <1>1, <1>3, <2>1 DEF TailToEnd, Seam
  <2> QED
    BY <1>1, <1>3, <2>2, SameDaysTable
<1>5. CASE Stop
  BY <1>1, <1>3, <1>4, <1>5, StopOn DEF InRevisionSet
<1>6. CASE run.after \in {"retention", "checked"} /\ Goto(run.after)
  <2>1. /\ run'.cache = run.cache /\ run'.job = run.job /\ run'.recovery = run.recovery
        /\ run'.pc \in {"retention", "checked"}
    BY <1>6, SumsTyped DEF Goto, RunRecord
  <2>2. \A s \in Stat, e \in Day : NewRow(s, e)' => e = run.recovery
    BY <1>1, <1>3, SumsTyped DEF NewRow, HasRow, RunInv, NewRowsKnown, Rewriting
  <2>3. RewriteFirst' /\ NewRowsKnown'
    BY <1>3, <2>1, <2>2 DEF RewriteFirst, NewRowsKnown, Rewriting, Writing, Planning
  <2> QED
    BY <1>1, <1>3, <1>4, <2>1, <2>3, MoveOn DEF Writing, InRevisionSet
<1> QED
  BY <1>1, <1>5, <1>6

LEMMA RewriteSums ==
  ASSUME SumsInv, Undisturbed, RowsInReach, Rewrite
  PROVE  SumsStep
<1>1. CASE ResumeTail
  BY <1>1, ResumeSums
<1>2. CASE RewriteSkip
  BY <1>2, RewriteSkipSums
<1>3. CASE RewriteDone
  BY <1>3, RewriteDoneSums
<1>4. ASSUME NEW d \in Day, RewriteAt(d), RewriteFetch \/ RewriteUnavailable \/ RewriteWrite
      PROVE  /\ UNCHANGED <<rows, queue, amber, mode>> /\ run.pc = "rewrite"
             /\ store.tail # NoTail /\ d <= store.lastWritten /\ d = store.tail.next
             /\ \A s \in Stat, e \in Day : NewRow(s, e) => e = run.recovery
  BY <1>4, RewriteMeets DEF RewriteFetch, RewriteUnavailable, RewriteWrite, environment, table
<1>5. CASE RewriteFetch
  <2>1. PICK d \in Day : RewriteAt(d)
    BY <1>5 DEF RewriteFetch
  <2>2. /\ UNCHANGED <<rows, queue, amber, mode, store>> /\ run.pc = "rewrite"
        /\ store.tail # NoTail /\ SameBooks(store, store')
        /\ \A s \in Stat, e \in Day : NewRow(s, e) => e = run.recovery
    BY <1>4, <1>5, <2>1, SumsTyped DEF RewriteFetch
  <2>3. CASE Stop
    BY <2>2, <2>3, StopStep
  <2>4. CASE \E window : run' = [run EXCEPT !.cache = Fetched(window)]
    <3>1. /\ \E window : run'.cache = Fetched(window)
          /\ run'.job = run.job /\ run'.recovery = run.recovery /\ run'.pc = run.pc
      BY <2>4, SumsTyped DEF RunRecord
    <3>2. RewriteFirst' /\ NewRowsKnown'
      BY <2>2, <3>1, SameNewRows DEF RewriteFirst, NewRowsKnown, Rewriting, Writing, Planning
    <3> QED
      BY <2>2, <3>1, <3>2, MoveStep DEF Writing
  <2> QED
    BY <1>5, <2>3, <2>4 DEF RewriteFetch, RequestFails
<1>6. CASE RewriteUnavailable
  <2>1. PICK d \in Day : RewriteAt(d) /\ Stop /\ UNCHANGED store
    BY <1>6 DEF RewriteUnavailable, RewriteDay
  <2>2. UNCHANGED <<rows, queue, amber, mode>> /\ run.pc = "rewrite" /\ SameBooks(store, store')
    BY <1>4, <1>6, <2>1, SumsTyped
  <2> QED
    BY <2>1, <2>2, StopStep
<1>7. CASE RewritePatience
  <2>1. store.tail.onEmpty = "patience"
    BY <1>7 DEF RewritePatience
  <2> QED
    BY <2>1, SumsTyped DEF StoreInOrder
<1>8. CASE RewriteWrite
  <2>1. PICK d \in Day : RewriteAt(d) /\ BeginWrite(d, "rewrite")
    BY <1>8 DEF RewriteWrite, RewriteDay
  <2> QED
    BY <1>4, <1>8, <2>1, BeginWriteSums
<1> QED
  BY <1>1, <1>2, <1>3, <1>5, <1>6, <1>7, <1>8 DEF Rewrite

\* What reads back of the day leaves nothing to do for its import that is still queued.
LEMMA VerifiedQueue ==
  ASSUME QueueInOrder, ReadsBack, UNCHANGED <<rows, queue>>
  PROVE  QueueSteady'
<1>1. \A i \in 1..Len(queue) : InVerification(i) => NoOp(rows, queue[i])
  BY DEF InVerification, NoOp, ReadsBack
<1>2. \A i \in 1..Len(queue) : NoOp(rows, queue[i])
  BY <1>1 DEF QueueInOrder, QueueSteady
<1> QED
  BY <1>2 DEF QueueSteady

-----------------------------------------------------------------------------
(* Writing a day *)

\* The rows of the day go to the end of the queue.
LEMMA WriteRowsQueue ==
  ASSUME QueueInOrder, WriteRows
  PROVE  QueueSteady' /\ InHand'
<1> DEFINE b == [day |-> run.day, rows |-> NewRows, todo |-> ActiveStats(run.day)]
<1>1. /\ UNCHANGED <<rows, store>> /\ run.pc = "write" /\ queue \in Seq(Batch)
      /\ run'.pc = "verify" /\ run'.cache = run.cache /\ run'.day = run.day
      /\ run'.base = run.base
      /\ queue' = IF ActiveStats(run.day) = {} THEN queue ELSE Append(queue, b)
  BY DEF QueueInOrder, TypeOK, WriteRows, At, Goto, RunRecord
<1>2. NewRows' = NewRows /\ ActiveStats(run.day)' = ActiveStats(run.day)
  BY <1>1 DEF NewRows, Records, Active, ActiveStats
<1>3. \A i \in 1..Len(queue) : NoOp(rows, queue[i])
  BY <1>1 DEF QueueInOrder, QueueSteady, InVerification
<1>4. CASE ActiveStats(run.day) = {}
  BY <1>1, <1>2, <1>3, <1>4 DEF QueueSteady, InHand
<1>5. CASE ActiveStats(run.day) # {}
  <2>1. b.day = run.day /\ b.rows = NewRows /\ b.todo = ActiveStats(run.day)
    OBVIOUS
  <2>2. queue' = Append(queue, b)
    BY <1>1, <1>5
  <2> HIDE DEF b
  <2>3. /\ queue' # <<>> /\ Len(queue') = Len(queue) + 1 /\ queue'[Len(queue')] = b
        /\ \A i \in 1..Len(queue) : queue'[i] = queue[i]
    BY <1>1, <2>2
  <2>4. \A i \in 1..Len(queue') : i \in 1..Len(queue) \/ i = Len(queue')
    BY <1>1, <2>3
  <2>5. InVerification(Len(queue))'
    BY <1>1, <1>2, <2>1, <2>3 DEF InVerification
  <2>6. QueueSteady'
    BY <1>1, <1>3, <2>3, <2>4, <2>5 DEF QueueSteady
  <2>7. InHand'
    BY <1>2, <2>1, <2>3, <2>5 DEF InHand
  <2> QED
    BY <2>6, <2>7
<1> QED
  BY <1>4, <1>5

LEMMA WriteRowsSums ==
  ASSUME SumsInv, Undisturbed, RowsInReach, WriteRows
  PROVE  SumsStep
<1>1. /\ UNCHANGED <<rows, amber, mode, store>> /\ run.pc = "write" /\ Complete(Records)
      /\ SameBooks(store, store') /\ queue \in Seq(Batch)
  BY SumsTyped DEF WriteRows, environment, At, TypeOK
<1>2. /\ run' = [run EXCEPT !.pc = "verify"] /\ run'.pc = "verify" /\ run'.cache = run.cache
      /\ run'.job = run.job /\ run'.day = run.day /\ run'.caller = run.caller
      /\ run'.base = run.base /\ run'.recovery = run.recovery /\ run'.leading = run.leading
  BY SumsTyped DEF WriteRows, Goto, RunRecord
<1>3. TableInv'
  BY <1>1, SumsTyped, TableKept
<1>4. CacheHasData' /\ NeverEstimated'
  BY <1>1, <1>2, SumsTyped, FetchedHasData DEF NeverEstimated, SameBooks
<1>5. RewriteFirst' /\ JobsServed' /\ DayInHand' /\ DayContinues'
  BY <1>1, <1>2, SumsTyped
     DEF RunInv, RewriteFirst, JobsServed, DayInHand, DayContinues, Rewriting, Writing, Records
<1>6. NewRowsKnown'
  <2>1. Rewriting' <=> Rewriting
    BY <1>1, <1>2 DEF Rewriting, Writing
  <2> QED
    BY <1>1, <1>2, <2>1, SumsTyped, SameNewRows DEF RunInv, NewRowsKnown, Planning
<1>7. BaseContinues'
  BY <1>1, <1>2, SumsTyped DEF RunInv, BaseContinues, ActiveStats, Active
<1>8. QueueSteady'
  BY SumsQueue, WriteRowsQueue
<1> QED
  BY <1>3, <1>4, <1>5, <1>6, <1>7, <1>8 DEF SumsStep, RunInv

\* Rows that read back continue the sums.
LEMMA ReadBackContinues ==
  ASSUME SumsInv, run.pc = "verify", ReadsBack
  PROVE  \A s \in Stat : ~Broken(rows[s], run.day)
<1> SUFFICES ASSUME NEW s \in Stat
             PROVE  ~Broken(rows[s], run.day)
  OBVIOUS
<1>1. run.day \in Day /\ Records.amount \in Int
  BY SumsTyped, Amounts DEF TypeInv, DayAtHand, Records, TypeOK, RunRecord
<1>2. CASE s \in ActiveStats(run.day)
  <2>1. rows[s][run.day] = [state |-> Records.amount, sum |-> run.base[s] + Records.amount]
    BY <1>2 DEF ReadsBack, NewRows, ActiveStats
  <2>2. run.base[s] = SumBefore(rows[s], run.day) /\ run.base[s] \in Int
    BY <1>2, SumsTyped DEF RunInv, BaseContinues, RunRecord
  <2> QED
    BY <1>1, <2>1, <2>2 DEF Broken
<1>3. CASE s \notin ActiveStats(run.day)
  BY <1>1, <1>3, SumsTyped DEF ActiveStats, RowsAfterStart, NoRowBeforeStart, HasRow, Broken
<1> QED
  BY <1>2, <1>3

LEMMA VerifyPassesSums ==
  ASSUME SumsInv, Undisturbed, RowsInReach, VerifyPasses
  PROVE  SumsStep
<1>1. /\ UNCHANGED <<rows, queue, amber, mode>> /\ run.pc = "verify" /\ ReadsBack
      /\ store' = MarkImported(store, run.day) /\ run.day \in Day
      /\ SameBooks(store, store)
  BY SumsTyped DEF VerifyPasses, environment, table, At, TypeInv, DayAtHand
<1>2. /\ run'.pc = "track" /\ run'.cache = run.cache /\ run'.job = run.job
      /\ run'.day = run.day /\ run'.caller = run.caller /\ run'.recovery = run.recovery
  BY SumsTyped DEF VerifyPasses, Goto, RunRecord
<1>3. /\ store'.marker = Later(store.marker, run.day)
      /\ store'.lastWritten = Later(store.lastWritten, run.day)
      /\ store'.status = [store.status EXCEPT ![run.day] = "imported"]
      /\ store'.tail = store.tail /\ store'.since = store.since
      /\ store'.revisions = store.revisions
  BY <1>1, SumsTyped DEF MarkImported, StoreRecord
<1>4. /\ \A e \in Day : e \in Int /\ e # NoDay
      /\ store.lastWritten \in Int /\ store.marker \in Int /\ store.lastWritten <= store.marker
      /\ NoDay = 0 /\ store.lastWritten >= 0
  BY HistoryNumbers, SumsTyped DEF StoreInOrder
<1>5. \A s \in Stat : ~Broken(rows[s], run.day)
  BY <1>1, ReadBackContinues
<1>6. CASE run.caller \in {"walk", "append"}
  <2>1. Follows(store, run.day) /\ store.tail = NoTail
    BY <1>1, <1>6, SumsTyped, NoTailOutside DEF RunInv, DayInHand, Rewriting, Writing
  <2>2. store.marker < run.day
    BY <1>1, <1>4, <2>1 DEF Follows, Day
  <2>3. store'.marker = run.day /\ store'.lastWritten = run.day
    BY <1>1, <1>3, <1>4, <2>2 DEF Later
  <2>4. \A s \in Stat, e \in Day : HasRow(s, e) => e <= store.lastWritten \/ e = run.day
    BY <1>1, <1>4, <1>6, SumsTyped DEF RunInv, NewRowsKnown, NewRow
  <2>5. \A s \in Stat, e \in Day : ~NewRow(s, e)'
    BY <1>1, <1>4, <2>2, <2>3, <2>4 DEF NewRow, HasRow
  <2>6. RowsOnImported'
    <3>1. \A e \in Day : store'.status[e] = "imported" <=> e = run.day \/ store.status[e] = "imported"
      BY <1>1, <1>3, SumsTyped DEF StoreRecord
    <3>2. \A e \in Day : store'.status[e] = "imported" => e <= store'.lastWritten
      BY <1>1, <1>4, <2>2, <2>3, <3>1, SumsTyped DEF TableInv, RowsOnImported
    <3>3. \A s \in Stat, e \in Day : HasRow(s, e) => store'.status[e] = "imported"
      BY <1>4, <2>4, <3>1, SumsTyped DEF TableInv, RowsOnImported
    <3> QED
      BY <1>1, <3>2, <3>3 DEF RowsOnImported, HasRow
  <2>7. TailToEnd' /\ OneNewDay' /\ RowsHaveData'
    BY <1>1, <1>3, <2>1, <2>5, SumsTyped DEF TailToEnd, OneNewDay, TableInv, RowsHaveData, HasRow
  <2>8. Seam'
    <3>1. \A s \in Stat, e \in Day : ~Broken(rows[s], e)
      BY <1>1, <1>5, <2>1, <2>4, SumsTyped DEF TableInv, Seam, Broken, HasRow
    <3> QED
      BY <1>1, <3>1 DEF Seam
  <2> QED
    <3>1. TableInv'
      BY <2>6, <2>7, <2>8 DEF TableInv
    <3>2. NewRowsKnown'
      BY <2>5 DEF NewRowsKnown
    <3>3. RewriteFirst' /\ JobsServed' /\ DayInHand' /\ BaseContinues' /\ DayContinues'
      BY <1>1, <1>2, <1>3, <1>5, <1>6, <2>1, SumsTyped
         DEF RunInv, RewriteFirst, JobsServed, DayInHand, BaseContinues, DayContinues, Rewriting,
             Writing, Records
    <3>4. CacheHasData' /\ NeverEstimated'
      BY <1>1, <1>2, <1>3, <2>5, SumsTyped, FetchedHasData
         DEF NeverEstimated, InRevisionSet, NoRowAdded
    <3>5. QueueSteady'
      BY <1>1, SumsQueue, VerifiedQueue
    <3> QED
      BY <3>1, <3>2, <3>3, <3>4, <3>5 DEF SumsStep, RunInv
<1>7. CASE run.caller \in {"rewrite", "reimport"}
  <2>1. run.day <= store.lastWritten /\ store.status[run.day] = "imported"
    <3>1. run.day <= store.lastWritten
      BY <1>1, <1>4, <1>7, SumsTyped DEF RunInv, DayInHand, Writing
    <3>2. ~Follows(store, run.day)
      BY <1>1, <1>4, <3>1 DEF Follows, Day
    <3> QED
      BY <1>1, <3>1, <3>2, SumsTyped DEF RunInOrder, DayFollows
  <2>2. SameBooks(store, store')
    <3>1. store'.marker = store.marker /\ store'.lastWritten = store.lastWritten
      BY <1>1, <1>3, <1>4, <2>1 DEF Later
    <3>2. store'.status = store.status
      BY <1>1, <1>3, <2>1, SumsTyped DEF StoreRecord
    <3> QED
      BY <1>3, <3>1, <3>2 DEF SameBooks, InRevisionSet
  <2>3. TableInv'
    BY <1>1, <2>2, TableKept, SumsTyped
  <2>4. NewRowsKnown'
    <3>1. \A s \in Stat, e \in Day : NewRow(s, e) => run.caller = "rewrite" /\ e = run.recovery
      BY <1>1, <1>7, SumsTyped DEF RunInv, NewRowsKnown, Rewriting, Writing
    <3> QED
      BY <1>1, <1>2, <2>2, <3>1, SameNewRows DEF NewRowsKnown, Planning
  <2>5. RewriteFirst' /\ JobsServed' /\ DayInHand' /\ BaseContinues' /\ DayContinues'
    BY <1>1, <1>2, <1>3, <1>5, <2>2, SumsTyped
       DEF RunInv, RewriteFirst, JobsServed, DayInHand, BaseContinues, DayContinues, Rewriting,
           Writing, Records, SameBooks
  <2>6. CacheHasData' /\ NeverEstimated'
    BY <1>1, <1>2, <1>3, <2>2, SumsTyped, FetchedHasData DEF NeverEstimated, InRevisionSet
  <2>7. QueueSteady'
    BY <1>1, SumsQueue, VerifiedQueue
  <2> QED
    BY <2>3, <2>4, <2>5, <2>6, <2>7 DEF SumsStep, RunInv
<1> QED
  BY <1>6, <1>7, SumsTyped DEF RunRecord

LEMMA TrackSums ==
  ASSUME SumsInv, Undisturbed, RowsInReach, TrackRevision
  PROVE  SumsStep
<1>1. /\ UNCHANGED <<rows, queue, amber, mode>> /\ run.pc = "track" /\ run.day \in Day
      /\ store' = IF Records.quality = "estimated"
                  THEN SetRevision(store, run.day, today, Records.amount)
                  ELSE DropRevisions(store, {run.day})
  BY SumsTyped DEF TrackRevision, environment, table, At, TypeInv, DayAtHand
<1>2. /\ run'.pc = "advance" /\ run'.cache = run.cache /\ run'.job = run.job
      /\ run'.day = run.day /\ run'.caller = run.caller /\ run'.recovery = run.recovery
  BY SumsTyped DEF TrackRevision, Goto, RunRecord
<1>3. /\ store'.marker = store.marker /\ store'.lastWritten = store.lastWritten
      /\ store'.status = store.status /\ store'.tail = store.tail /\ store'.since = store.since
  BY <1>1, SumsTyped DEF SetRevision, DropRevisions, StoreRecord
<1>4. TableInv'
  <2>1. TailToEnd' /\ Seam'
    BY <1>1, <1>3, SumsTyped DEF TableInv, TailToEnd, Seam, HasRow
  <2> QED
    BY <1>1, <1>3, <2>1, SameDaysTable
<1>5. NeverEstimated'
  <2>1. "estimated" \notin Quality =>
          store' = DropRevisions(store, {run.day})
    BY <1>1, SumsTyped DEF NeverEstimated, Records
  <2>2. "estimated" \notin Quality => \A d \in Day : ~InRevisionSet(store', d)
    BY <2>1, SumsTyped DEF NeverEstimated, InRevisionSet, DropRevisions, StoreRecord
  <2> QED
    BY <1>1, <1>2, <2>2, SumsTyped DEF NeverEstimated
<1>6. CacheHasData'
  BY <1>1, <1>2, <1>3, FetchedHasData DEF NoRowAdded, NewRow, HasRow
<1>7. RewriteFirst' /\ JobsServed' /\ DayInHand' /\ BaseContinues' /\ DayContinues'
  BY <1>1, <1>2, <1>3, SumsTyped
     DEF RunInv, RewriteFirst, JobsServed, DayInHand, BaseContinues, DayContinues, Rewriting,
         Writing, Records
<1>8. NewRowsKnown'
  <2>1. Rewriting' <=> Rewriting
    BY <1>1, <1>2 DEF Rewriting, Writing
  <2>2. \A s \in Stat, d \in Day : NewRow(s, d)' <=> NewRow(s, d)
    BY <1>1, <1>3 DEF NewRow, HasRow
  <2> QED
    BY <1>1, <1>2, <2>1, <2>2, SumsTyped DEF RunInv, NewRowsKnown, Planning
<1>9. QueueSteady'
  BY <1>1, QueueKept, SumsTyped
<1> QED
  BY <1>4, <1>5, <1>6, <1>7, <1>8, <1>9 DEF SumsStep, RunInv

LEMMA AdvanceSums ==
  ASSUME SumsInv, Undisturbed, RowsInReach, Advance
  PROVE  SumsStep
<1>1. /\ UNCHANGED <<rows, queue, amber, mode>> /\ run.pc = "advance" /\ run.day \in Day
      /\ SameBooks(store, store)
  BY SumsTyped DEF Advance, environment, table, At, TypeInv, DayAtHand
<1>2. CASE run.caller = "walk" /\ run' = [run EXCEPT !.pc = "walk", !.day = @ + 1] /\ UNCHANGED store
  <2>1. /\ run'.pc = "walk" /\ run'.cache = run.cache /\ run'.job = run.job
    BY <1>2, SumsTyped DEF RunRecord
  <2>2. store.tail = NoTail /\ \A s \in Stat, d \in Day : ~NewRow(s, d)
    BY <1>1, <1>2, NoTailOutside, SumsTyped DEF RunInv, NewRowsKnown, Rewriting, Writing
  <2>3. SameBooks(store, store')
    BY <1>1, <1>2
  <2>4. RewriteFirst' /\ NewRowsKnown'
    BY <1>1, <1>2, <2>1, <2>2, <2>3, SameNewRows DEF RewriteFirst, NewRowsKnown, Rewriting, Writing
  <2> QED
    BY <1>1, <2>1, <2>3, <2>4, MoveStep DEF Writing
<1>3. CASE run.caller = "rewrite" /\ Goto("rewrite")
           /\ store' = [store EXCEPT !.tail.next = run.day + 1]
  <2>1. /\ run'.pc = "rewrite" /\ run'.cache = run.cache /\ run'.job = run.job
        /\ run'.recovery = run.recovery
    BY <1>3, SumsTyped DEF RunRecord, Goto
  <2>2. /\ store'.marker = store.marker /\ store'.lastWritten = store.lastWritten
        /\ store'.status = store.status /\ store'.revisions = store.revisions
        /\ store'.tail.next = run.day + 1 /\ store'.tail.to = store.tail.to
        /\ store'.tail.requestedEnd = store.tail.requestedEnd
    BY <1>3, SumsTyped DEF StoreRecord, TailRecord
  <2>3. store.tail # NoTail /\ run.day = store.tail.next
    BY <1>1, <1>3, SumsTyped DEF RunInv, RewriteFirst, DayInHand, Rewriting, Writing
  <2>4. \A e \in Day : e \in Int /\ e > 0
    BY DEF Day
  <2>5. store'.tail # NoTail
    BY <1>1, <2>2, <2>4 DEF NoTail, NoDay
  <2>6. Seam'
    <3> SUFFICES ASSUME NEW s \in Stat, NEW e \in Day, e <= store.lastWritten, Broken(rows[s], e)
                 PROVE  /\ run.day + 1 <= e
                        /\ \A c \in Day : run.day + 1 < c /\ c < e => ~HasRow(s, c)
                        /\ \A c \in Day : c <= store.lastWritten /\ Broken(rows[s], c) => c = e
      BY <1>1, <2>2, <2>5 DEF Seam, HasRow
    <3>1. /\ run.day <= e /\ \A c \in Day : run.day < c /\ c < e => ~HasRow(s, c)
          /\ \A c \in Day : c <= store.lastWritten /\ Broken(rows[s], c) => c = e
      BY <2>3, SumsTyped DEF TableInv, Seam
    <3>2. run.day # e
      BY <1>1, SumsTyped DEF RunInv, DayContinues
    <3> QED
      BY <1>1, <2>4, <3>1, <3>2
  <2>7. TableInv'
    <3>1. TailToEnd'
      BY <1>1, <2>2, <2>3, <2>4, SumsTyped DEF TableInv, TailToEnd
    <3> QED
      BY <1>1, <2>2, <2>6, <3>1, SameDaysTable
  <2>8. RewriteFirst' /\ NewRowsKnown'
    <3>1. \A s \in Stat, e \in Day : NewRow(s, e)' => e = run.recovery
      BY <1>1, <1>3, <2>2, SumsTyped DEF NewRow, HasRow, RunInv, NewRowsKnown, Rewriting, Writing
    <3> QED
      BY <2>1, <2>5, <3>1 DEF RewriteFirst, NewRowsKnown, Rewriting, Writing, Planning
  <2> QED
    BY <1>1, <2>1, <2>2, <2>7, <2>8, MoveOn DEF Writing, InRevisionSet
<1>4. CASE run.caller \in {"append", "reimport"} /\ Stop /\ UNCHANGED store
  BY <1>1, <1>4, StopStep
<1> QED
  BY <1>2, <1>3, <1>4 DEF Advance

LEMMA WriteSums ==
  ASSUME SumsInv, Undisturbed, RowsInReach, Write
  PROVE  SumsStep
<1>1. CASE WriteRefused
  <2>1. /\ UNCHANGED <<rows, queue, amber, mode>> /\ run.pc = "write" /\ Stop
    BY <1>1 DEF WriteRefused, environment, table, At
  <2>2. ClearPending(store) \in StoreRecord /\ SameBooks(store, ClearPending(store))
    BY SumsTyped, SettersKeepBooks, PendingType
  <2>3. SameBooks(store, store')
    BY <1>1, <2>2, SumsTyped, SettersKeepBooks DEF WriteRefused
  <2> QED
    BY <2>1, <2>3, StopStep
<1>2. CASE VerifyTimesOut
  <2>1. queue = <<>>
    BY <1>2, SumsTyped DEF VerifyTimesOut, TypeOK, Budget, Undisturbed
  <2>2. UNCHANGED <<rows, queue, amber, mode>> /\ Stop
    BY <1>2 DEF VerifyTimesOut, environment, table
  <2>3. SameBooks(store, store')
    BY <1>2, SumsTyped, SettersKeepBooks DEF VerifyTimesOut
  <2> QED
    BY <2>1, <2>2, <2>3, StopStep
<1> QED
  BY <1>1, <1>2, WriteRowsSums, VerifyPassesSums, TrackSums, AdvanceSums DEF Write

-----------------------------------------------------------------------------
(* import_day *)

\* The steps that plan one day: its baselines are the sums before it.
LEMMA PlanSums ==
  ASSUME SumsInv, Undisturbed, RowsInReach, run.pc = "plan", UNCHANGED <<rows, queue, amber, mode, store>>,
         NEW caller \in {"append", "reimport"}, NEW base,
         run' = [run EXCEPT !.pc = "fetch_day", !.day = run.from, !.caller = caller, !.base = base],
         \A s \in ActiveStats(run.from) : base[s] = SumBefore(rows[s], run.from),
         caller = "append" => Follows(store, run.from),
         caller = "reimport" => run.from = store.lastWritten,
         \A s \in Stat, d \in Day : NewRow(s, d) => caller = "append" /\ d = run.from
  PROVE  SumsStep
<1>1. /\ run'.pc = "fetch_day" /\ run'.day = run.from /\ run'.caller = caller
      /\ run'.base = base /\ run'.job = run.job /\ run'.cache = run.cache
      /\ SameBooks(store, store')
  BY SumsTyped DEF RunRecord
<1>2. TableInv' /\ QueueSteady'
  BY <1>1, SumsTyped, TableKept, QueueKept
<1>3. CacheHasData' /\ NeverEstimated'
  BY <1>1, SumsTyped, FetchedHasData DEF NeverEstimated, SameBooks
<1>4. RewriteFirst'
  BY <1>1, NoTailOutside DEF RewriteFirst, Rewriting, Writing
<1>5. JobsServed' /\ DayInHand' /\ DayContinues'
  BY <1>1, SumsTyped DEF RunInv, JobsServed, DayInHand, DayContinues, Writing, Follows
<1>6. NewRowsKnown'
  BY <1>1, SameNewRows DEF NewRowsKnown, Rewriting, Writing, Planning
<1>7. BaseContinues'
  BY <1>1 DEF BaseContinues, ActiveStats, Active
<1> QED
  BY <1>2, <1>3, <1>4, <1>5, <1>6, <1>7 DEF SumsStep, RunInv

\* The latest day continues from the row before it, so what it adds taken off its sum is
\* the base to write it with again.
LEMMA ReimportContinues ==
  ASSUME SumsInv, store.tail = NoTail, NEW day \in Day, day = store.lastWritten,
         Reimportable(day), NEW s \in ActiveStats(day)
  PROVE  ReimportBase(day)[s] = SumBefore(rows[s], day)
<1> DEFINE S == {d \in Day : HasRow(s, d)}
<1>1. s \in Stat /\ Active(s, day) /\ MaxOf(S) = day /\ S \in SUBSET Day /\ day # NoDay /\ day <= day
  BY HistoryNumbers, SumsTyped DEF Reimportable, Latest, ActiveStats
<1>2. S # {}
  BY <1>1 DEF MaxOf
<1>3. HasRow(s, day)
  BY <1>1, <1>2, MaxOfDays
<1>4. ~Broken(rows[s], day)
  BY <1>1, SumsTyped DEF TableInv, Seam
<1> QED
  BY <1>1, <1>3, <1>4 DEF ReimportBase, Broken, HasRow

LEMMA ImportDaySums ==
  ASSUME SumsInv, Undisturbed, RowsInReach, ImportDay
  PROVE  SumsStep
<1>1. /\ UNCHANGED <<rows, queue, amber, mode>> /\ SameBooks(store, store)
  BY SumsTyped DEF ImportDay, PlanAppend, PlanReimport, PlanRefused, FetchDay, environment, table
<1>2. ASSUME run.pc = "plan"
      PROVE  /\ run.from \in Day /\ store.tail = NoTail
             /\ \A s \in Stat, d \in Day : NewRow(s, d) => d = run.recovery
  BY <1>2, NoTailOutside, SumsTyped
     DEF TypeInv, DayRequested, Rewriting, Writing, RunInv, NewRowsKnown
<1>3. CASE PlanAppend
  <2>1. /\ run.pc = "plan" /\ UNCHANGED store
        /\ \/ run.recovery # NoDay /\ run.from = run.recovery
           \/ run.recovery = NoDay /\ (store.marker = NoDay \/ run.from = store.marker + 1)
    BY <1>3 DEF PlanAppend, At
  <2>2. CASE PartialHistory(run.from)
    BY <1>1, <1>3, <2>1, <2>2, StopStep DEF PlanAppend
  <2>3. CASE ~PartialHistory(run.from)
    <3>1. Follows(store, run.from)
      BY <2>1, SumsTyped DEF RunInOrder, RecoveryFollows, Follows, Writing
    <3>2. \A s \in Stat, d \in Day : NewRow(s, d) => d = run.from
      BY <1>2, <2>1, HistoryNumbers, SumsTyped
    <3>3. \A s \in Stat, d \in Day : NewRow(s, d) => d >= run.from
      BY <1>2, <2>1, <3>2, HistoryNumbers, SumsTyped
    <3>4. \A s \in ActiveStats(run.from) :
            Baselines(run.from)[s] = SumBefore(rows[s], run.from)
      BY <1>2, <2>1, <2>3, <3>3, BaselinesContinue DEF ActiveStats
    <3>5. run' = [run EXCEPT !.pc = "fetch_day", !.day = run.from, !.caller = "append",
                             !.base = Baselines(run.from)]
      BY <1>3, <2>3 DEF PlanAppend
    <3> QED
      BY <1>1, <2>1, <3>1, <3>2, <3>4, <3>5, PlanSums
  <2> QED
    BY <2>2, <2>3
<1>4. CASE PlanReimport
  <2>1. /\ run.pc = "plan" /\ UNCHANGED store /\ run.recovery = NoDay
        /\ run.from = store.lastWritten
    BY <1>4 DEF PlanReimport, At
  <2>2. CASE ~Reimportable(run.from)
    BY <1>1, <1>4, <2>1, <2>2, StopStep DEF PlanReimport
  <2>3. CASE Reimportable(run.from)
    <3>1. \A s \in Stat, d \in Day : ~NewRow(s, d)
      BY <1>2, <2>1, HistoryNumbers, SumsTyped
    <3>2. \A s \in ActiveStats(run.from) :
            ReimportBase(run.from)[s] = SumBefore(rows[s], run.from)
      BY <1>2, <2>1, <2>3, ReimportContinues
    <3>3. run' = [run EXCEPT !.pc = "fetch_day", !.day = run.from, !.caller = "reimport",
                             !.base = ReimportBase(run.from)]
      BY <1>4, <2>3 DEF PlanReimport
    <3> QED
      BY <1>1, <2>1, <3>1, <3>2, <3>3, PlanSums
  <2> QED
    BY <2>2, <2>3
<1>5. CASE PlanRefused
  BY <1>1, <1>5, StopStep DEF PlanRefused, At
<1>6. CASE FetchDay
  <2>1. run.pc = "fetch_day" /\ run.day \in Day
    BY <1>6, SumsTyped DEF FetchDay, At, TypeInv, DayAtHand
  <2>2. CASE Stop /\ UNCHANGED store
    BY <1>1, <2>1, <2>2, StopStep
  <2>3. CASE run' = [run EXCEPT !.pc = "write", !.cache[run.day] = Usage(run.day)]
    <3>1. /\ run'.pc = "write" /\ run'.day = run.day /\ run'.caller = run.caller
          /\ run'.base = run.base /\ run'.job = run.job
          /\ run'.cache = [run.cache EXCEPT ![run.day] = Usage(run.day)]
      BY <2>3, SumsTyped DEF RunRecord
    <3>2. SameBooks(store, store')
      BY <1>6, SumsTyped, SettersKeepBooks DEF FetchDay
    <3>3. TableInv' /\ QueueSteady'
      BY <1>1, <2>1, <3>2, SumsTyped, TableKept, QueueKept
    <3>4. CacheHasData' /\ NeverEstimated'
      BY <1>1, <2>1, <3>1, <3>2, SumsTyped, FetchedHasData DEF NeverEstimated, SameBooks
    <3>5. /\ store.tail = NoTail /\ run.caller \in {"append", "reimport"}
      BY <2>1, NoTailOutside, SumsTyped DEF Rewriting, Writing, RunInOrder, DayFollows
    <3>6. RewriteFirst' /\ JobsServed' /\ DayInHand' /\ DayContinues'
      BY <2>1, <3>1, <3>2, <3>5, SumsTyped
         DEF RunInv, RewriteFirst, JobsServed, DayInHand, DayContinues, Rewriting, Writing,
             SameBooks, Follows
    <3>7. NewRowsKnown'
      BY <1>1, <2>1, <3>1, <3>2, <3>5, SumsTyped, SameNewRows
         DEF RunInv, NewRowsKnown, Rewriting, Writing, Planning
    <3>8. BaseContinues'
      BY <1>1, <2>1, <3>1, <3>2, SumsTyped DEF RunInv, BaseContinues, ActiveStats, Active, SameBooks
    <3> QED
      BY <3>3, <3>4, <3>6, <3>7, <3>8 DEF SumsStep, RunInv
  <2> QED
    BY <1>6, <2>2, <2>3 DEF FetchDay, RequestFails
<1> QED
  BY <1>3, <1>4, <1>5, <1>6 DEF ImportDay

-----------------------------------------------------------------------------
(* The recorder *)

\* One statistic's rows of the day being verified arrive.
LEMMA RowsArrive ==
  ASSUME SumsInv, run.pc = "verify", UNCHANGED <<amber, mode, store, run>>,
         NEW s \in ActiveStats(run.day),
         rows' = [rows EXCEPT ![s][run.day] = NewRows[s]]
  PROVE  /\ TableInv' /\ NewRowsKnown' /\ CacheHasData' /\ BaseContinues'
<1> DEFINE day == run.day
           r == rows[s]
           n == NewRows[s]
           w == [r EXCEPT ![day] = n]
<1>1. /\ s \in Stat /\ day \in Day /\ Active(s, day) /\ r \in [Day -> Row] /\ n \in Row
      /\ \A t \in Stat : rows[t] \in [Day -> Row]
  BY SumsTyped, NewRowsType DEF ActiveStats, TypeInv, DayAtHand, TypeOK
<1>2. /\ n.sum - n.state = SumBefore(r, day) /\ n # NoRow
      /\ Complete(Records)
  <2>1. Records.amount \in Amount /\ Records.amount \in Int /\ Records.amount # 0
    BY <1>1, SumsTyped, AmountAssumption
       DEF RunInv, DayInHand, Complete, Records, RunRecord, Answer, Nothing, Partial, Unfetched
  <2>2. n = [state |-> Records.amount, sum |-> run.base[s] + Records.amount]
    BY <1>1 DEF NewRows
  <2>3. run.base[s] = SumBefore(r, day) /\ run.base[s] \in Int
    BY <1>1, SumsTyped DEF RunInv, BaseContinues, RunRecord
  <2>4. Complete(Records)
    BY SumsTyped DEF RunInv, DayInHand
  <2> HIDE DEF n
  <2> QED
    BY <2>1, <2>2, <2>3, <2>4 DEF NoRow
<1>3. /\ rows'[s] = w
      /\ \A t \in Stat : t # s => rows'[t] = rows[t]
      /\ w[day] = n /\ \A e \in Day : e # day => w[e] = r[e]
  BY <1>1, SumsTyped DEF TypeOK
<1>4. /\ ~Broken(w, day)
      /\ \A d \in Day : d < day /\ Broken(w, d) => Broken(r, d)
      /\ \A c, d \in Day : day < c /\ c < d /\ w[c] # NoRow /\ Broken(w, d) => Broken(r, d)
  BY <1>1, <1>2, WriteBreaksNextOnly
<1>5. /\ \A e \in Day : e \in Int /\ e > 0
      /\ store.lastWritten \in Int /\ store.marker \in Int /\ store.lastWritten <= store.marker
      /\ store.lastWritten >= 0 /\ NoDay = 0
  BY HistoryNumbers, SumsTyped DEF StoreInOrder, Day
<1> HIDE DEF w, n, day
<1>6. \A t \in Stat, e \in Day : rows'[t][e] # NoRow => HasRow(t, e) \/ (t = s /\ e = day)
  BY <1>3 DEF HasRow
<1>7. \A t \in Stat, e \in Day :
        rows'[t][e] # NoRow /\ e > store.lastWritten => NewRow(t, e) \/ (t = s /\ e = day)
  BY <1>6 DEF NewRow
<1>8. \A t \in Stat, e \in Day : NewRow(t, e) /\ run.caller # "rewrite" => e = day
  BY SumsTyped DEF RunInv, NewRowsKnown, day
<1>9. day > store.lastWritten => run.caller \in {"walk", "append"}
  BY <1>5, SumsTyped DEF RunInv, DayInHand, Writing, RunRecord, day
<1>10. RowsOnImported'
  <2>1. day <= store.marker => store.status[day] = "imported"
    BY <1>1, <1>5, SumsTyped DEF RunInOrder, DayFollows, Follows, day
  <2> QED
    BY <1>6, <2>1, SumsTyped DEF TableInv, RowsOnImported, HasRow
<1>11. OneNewDay'
  <2> SUFFICES ASSUME NEW t \in Stat, NEW u \in Stat, NEW d \in Day, NEW e \in Day,
                      rows'[t][d] # NoRow, d > store.lastWritten,
                      rows'[u][e] # NoRow, e > store.lastWritten
               PROVE  d = e
    BY DEF OneNewDay, NewRow, HasRow
  <2>1. CASE NewRow(t, d) /\ NewRow(u, e)
    BY <2>1, SumsTyped DEF TableInv, OneNewDay
  <2>2. CASE ~(NewRow(t, d) /\ NewRow(u, e))
    <3>1. day > store.lastWritten
      BY <1>7, <2>2
    <3> QED
      BY <1>7, <1>8, <1>9, <3>1
  <2> QED
    BY <2>1, <2>2
<1>12. RowsHaveData' /\ CacheHasData'
  <2>1. ~Empty(amber[day]) /\ ~Empty(run.cache[day])
    <3>1. ~Empty(Records) /\ ~Uncached(day)
      BY <1>2 DEF Complete, Empty, Records, Uncached, Unfetched, day
    <3> QED
      BY <1>1, <3>1, SumsTyped DEF RunInv, CacheHasData, Records, day
  <2> QED
    BY <1>6, <2>1, SumsTyped DEF TableInv, RowsHaveData, RunInv, CacheHasData, NewRow,
                                  HasRow, Uncached
<1>13. TailToEnd'
  BY SumsTyped DEF TableInv, TailToEnd
<1>14. Seam'
  <2>1. ASSUME NEW d \in Day, d <= store.lastWritten, Broken(w, d)
        PROVE  /\ store.tail # NoTail /\ store.tail.next = day /\ day < d
               /\ \A c \in Day : day < c /\ c < d => w[c] = NoRow
    <3>1. d # day
      BY <1>4, <2>1
    <3>2. ASSUME run.caller # "rewrite"
          PROVE  FALSE
      <4>1. store.tail = NoTail
        BY <3>2, NoTailOutside DEF Rewriting, Writing
      <4>2. ~Broken(r, d)
        BY <1>1, <2>1, <4>1, SumsTyped DEF TableInv, Seam
      <4>3. day >= store.lastWritten
        BY <1>1, <1>5, <3>2, SumsTyped DEF RunInv, DayInHand, Follows, RunRecord, day
      <4> QED
        BY <1>1, <1>4, <1>5, <2>1, <3>1, <4>2, <4>3
    <3>3. store.tail # NoTail /\ store.tail.next = day
      BY <3>2, SumsTyped DEF RunInv, RewriteFirst, Rewriting, DayInHand, Writing, day
    <3>4. Broken(r, d) => day <= d /\ \A c \in Day : day < c /\ c < d => r[c] = NoRow
      BY <1>1, <2>1, <3>3, SumsTyped DEF TableInv, Seam, HasRow
    <3>5. day < d
      BY <1>1, <1>4, <1>5, <2>1, <3>1, <3>4
    <3>6. \A c \in Day : day < c /\ c < d => w[c] = NoRow
      BY <1>1, <1>3, <1>4, <1>5, <2>1, <3>4
    <3> QED
      BY <3>3, <3>5, <3>6
  <2>2. ASSUME NEW d \in Day, d <= store.lastWritten, Broken(w, d),
               NEW c \in Day, c <= store.lastWritten, Broken(w, c)
        PROVE  c = d
    <3>1. w[c] # NoRow /\ w[d] # NoRow
      BY <2>2 DEF Broken
    <3> QED
      BY <1>5, <2>1, <2>2, <3>1
  <2>3. ASSUME NEW t \in Stat, t # s
        PROVE  \A d \in Day : d <= store.lastWritten /\ Broken(rows'[t], d) =>
                 /\ store.tail # NoTail /\ store.tail.next <= d
                 /\ \A c \in Day : store.tail.next < c /\ c < d => rows'[t][c] = NoRow
                 /\ \A c \in Day : c <= store.lastWritten /\ Broken(rows'[t], c) => c = d
    <3>1. rows'[t] = rows[t]
      BY <1>3, <2>3
    <3> QED
      BY <3>1, SumsTyped DEF TableInv, Seam, HasRow
  <2>4. \A d \in Day : d <= store.lastWritten /\ Broken(rows'[s], d) =>
          /\ store.tail # NoTail /\ store.tail.next <= d
          /\ \A c \in Day : store.tail.next < c /\ c < d => rows'[s][c] = NoRow
          /\ \A c \in Day : c <= store.lastWritten /\ Broken(rows'[s], c) => c = d
    BY <1>1, <1>3, <1>5, <2>1, <2>2
  <2> QED
    BY <2>3, <2>4 DEF Seam, HasRow
<1>15. NewRowsKnown'
  <2>1. ASSUME NEW t \in Stat, NEW e \in Day, NewRow(t, e)'
        PROVE  NewRow(t, e) \/ (e = run.day /\ run.caller \in {"walk", "append"})
    BY <1>7, <1>9, <2>1 DEF NewRow, HasRow, day
  <2> QED
    BY <2>1, SumsTyped DEF RunInv, NewRowsKnown, Rewriting, Writing, Planning
<1>16. BaseContinues'
  <2>1. \A t \in Stat : SumBefore(rows'[t], day) = SumBefore(rows[t], day)
    BY <1>1, <1>3, <1>5, SumBeforeLooksBack
  <2> QED
    BY <2>1, SumsTyped DEF RunInv, BaseContinues, ActiveStats, Active, day
<1> QED
  BY <1>10, <1>11, <1>12, <1>13, <1>14, <1>15, <1>16 DEF TableInv


\* What is left in the queue after one import still changes nothing, or is being verified.
LEMMA CommitQueue ==
  ASSUME QueueInOrder, NEW s \in Stat, Commit(s), run.pc = "verify" => NewRows' = NewRows,
         NEW i \in 1..Len(queue')
  PROVE  \/ \A t \in queue'[i].todo : rows[t][queue'[i].day] = queue'[i].rows[t]
         \/ InVerification(i)'
<1>1. queue \in Seq(Batch) /\ queue # <<>> /\ UNCHANGED <<store, run>>
  BY DEF QueueInOrder, Commit, TypeOK
<1>2. \A j \in 1..Len(queue) : queue[j] \in Batch /\ (NoOp(rows, queue[j]) \/ InVerification(j))
  BY <1>1 DEF QueueInOrder, QueueSteady
<1>3. CASE queue' = Tail(queue)
  <2>1. i + 1 \in 1..Len(queue) /\ queue'[i] = queue[i + 1] /\ Len(queue') = Len(queue) - 1
    BY <1>1, <1>3
  <2>2. CASE NoOp(rows, queue[i + 1])
    BY <2>1, <2>2 DEF NoOp
  <2>3. CASE InVerification(i + 1)
    <3>1. i = Len(queue')
      BY <1>1, <2>1, <2>3 DEF InVerification
    <3> QED
      BY <1>1, <2>1, <2>3, <3>1 DEF InVerification, ActiveStats, Active
  <2> QED
    BY <1>2, <2>1, <2>2, <2>3
<1>4. CASE queue' = [queue EXCEPT ![1].todo = @ \ {s}]
  <2>1. i \in 1..Len(queue) /\ Len(queue') = Len(queue)
    BY <1>1, <1>4
  <2>2. /\ queue'[i].day = queue[i].day /\ queue'[i].rows = queue[i].rows
        /\ queue'[i].todo \subseteq queue[i].todo
    BY <1>1, <1>2, <1>4, <2>1 DEF Batch
  <2>3. CASE NoOp(rows, queue[i])
    BY <2>2, <2>3 DEF NoOp
  <2>4. CASE InVerification(i)
    BY <1>1, <2>1, <2>2, <2>4 DEF InVerification, ActiveStats, Active
  <2> QED
    BY <1>2, <2>1, <2>3, <2>4
<1> QED
  BY <1>3, <1>4 DEF Commit

LEMMA CommitKeepsQueue ==
  ASSUME QueueInOrder, NEW s \in Stat, Commit(s)
  PROVE  QueueSteady'
<1> DEFINE b == queue[1]
<1>1. /\ UNCHANGED <<store, run>> /\ queue \in Seq(Batch) /\ queue # <<>> /\ b \in Batch
      /\ s \in b.todo /\ rows' = [rows EXCEPT ![s][b.day] = b.rows[s]]
  <2>1. queue \in Seq(Batch) /\ queue # <<>>
    BY DEF QueueInOrder, Commit, TypeOK
  <2>2. Head(queue) = b /\ 1 \in 1..Len(queue) /\ b \in Batch
    BY <2>1
  <2> QED
    BY <2>1, <2>2 DEF Commit, environment
<1>2. NewRows' = NewRows
  BY <1>1 DEF NewRows, Active, Records
<1>3. CASE NoOp(rows, b)
  <2>1. rows[s][b.day] = b.rows[s] /\ rows \in [Stat -> [Day -> Row]]
    BY <1>1, <1>3 DEF NoOp, QueueInOrder, TypeOK
  <2> HIDE DEF b
  <2>2. rows' = rows
    BY <1>1, <2>1
  <2> QED
    BY <1>2, <2>2, CommitQueue DEF QueueSteady, NoOp
<1>4. CASE InVerification(1)
  <2>0. /\ run.pc = "verify" /\ Len(queue) = 1 /\ b.day = run.day /\ b.rows = NewRows
        /\ b.todo \subseteq ActiveStats(run.day)
    BY <1>4 DEF InVerification
  <2> SUFFICES ASSUME NEW i \in 1..Len(queue')
               PROVE  InVerification(i)'
    BY DEF QueueSteady
  <2>1. CASE queue' = Tail(queue)
    BY <1>1, <2>0, <2>1
  <2>2. CASE queue' = [queue EXCEPT ![1].todo = @ \ {s}]
    <3>1. i = 1 /\ Len(queue') = 1 /\ queue'[1] = [b EXCEPT !.todo = @ \ {s}]
      <4>1. queue \in Seq(Batch) /\ Len(queue) = 1
        BY <1>1, <2>0
      <4>2. Len(queue') = 1 /\ queue'[1] = [queue[1] EXCEPT !.todo = @ \ {s}]
        BY <2>2, <4>1
      <4>3. i \in 1..1
        BY <4>2
      <4> QED
        BY <4>2, <4>3
    <3>2. queue'[1].day = b.day /\ queue'[1].rows = b.rows /\ queue'[1].todo \subseteq b.todo
      BY <1>1, <3>1 DEF Batch
    <3> HIDE DEF b
    <3> QED
      BY <1>1, <1>2, <2>0, <3>1, <3>2 DEF InVerification, ActiveStats, Active
  <2> QED
    BY <2>1, <2>2 DEF Commit
<1>5. NoOp(rows, b) \/ InVerification(1)
  <2>1. 1 \in 1..Len(queue)
    BY <1>1
  <2> QED
    BY <2>1 DEF QueueInOrder, QueueSteady
<1> QED
  BY <1>3, <1>4, <1>5

LEMMA CommitSums ==
  ASSUME SumsInv, Undisturbed, RowsInReach, NEW s \in Stat, Commit(s)
  PROVE  SumsStep
<1> DEFINE b == queue[1]
<1>1. /\ UNCHANGED <<amber, mode, store, run>> /\ queue \in Seq(Batch) /\ queue # <<>>
      /\ Head(queue) = b /\ 1 \in 1..Len(queue) /\ b \in Batch
      /\ s \in b.todo /\ rows' = [rows EXCEPT ![s][b.day] = b.rows[s]]
  <2>1. queue \in Seq(Batch) /\ queue # <<>>
    BY SumsTyped DEF Commit, TypeOK
  <2>2. Head(queue) = b /\ 1 \in 1..Len(queue) /\ b \in Batch
    BY <2>1
  <2> QED
    BY <2>1, <2>2 DEF Commit, environment
<1>2. NewRows' = NewRows /\ SameBooks(store, store')
  BY <1>1, SumsTyped DEF NewRows, Active, Records
<1>3. NoOp(rows, b) \/ InVerification(1)
  BY <1>1, SumsTyped DEF RunInv, QueueSteady
<1>4. RewriteFirst' /\ JobsServed' /\ DayInHand' /\ NeverEstimated'
  BY <1>1, SumsTyped
     DEF RunInv, RewriteFirst, JobsServed, DayInHand, NeverEstimated, Rewriting, Records
<1>5. QueueSteady'
  BY SumsQueue, CommitKeepsQueue
<1>6. CASE NoOp(rows, b)
  <2>1. rows' = rows
    <3>1. rows[s][b.day] = b.rows[s]
      BY <1>1, <1>6 DEF NoOp
    <3> HIDE DEF b
    <3> QED
      BY <1>1, <3>1, SumsTyped DEF TypeOK
  <2>2. TableInv'
    BY <1>1, <1>2, <2>1, SumsTyped, TableKept
  <2>3. CacheHasData' /\ BaseContinues' /\ DayContinues' /\ NewRowsKnown'
    BY <1>1, <2>1, SumsTyped
       DEF RunInv, CacheHasData, BaseContinues, DayContinues, NewRowsKnown, NewRow, HasRow,
           Uncached, Rewriting, UsageActive, ActiveStats, Active
  <2> QED
    BY <1>4, <1>5, <2>2, <2>3 DEF SumsStep, RunInv
<1>7. CASE InVerification(1)
  <2>1. /\ run.pc = "verify" /\ Len(queue) = 1 /\ b.day = run.day /\ b.rows = NewRows
        /\ b.todo \subseteq ActiveStats(run.day)
    BY <1>7 DEF InVerification
  <2>2. TableInv' /\ NewRowsKnown' /\ CacheHasData' /\ BaseContinues'
    <3>1. s \in ActiveStats(run.day) /\ rows' = [rows EXCEPT ![s][run.day] = NewRows[s]]
      BY <1>1, <2>1
    <3> QED
      BY <1>1, <2>1, <3>1, RowsArrive
  <2>3. DayContinues'
    BY <1>1, <2>1 DEF DayContinues
  <2> QED
    BY <1>4, <1>5, <2>2, <2>3 DEF SumsStep, RunInv
<1> QED
  BY <1>3, <1>6, <1>7

-----------------------------------------------------------------------------
(* The calendar, Amber, crashes and the user *)

LEMMA SameRunSums ==
  ASSUME SumsInv, UNCHANGED <<store, rows, queue, run>>,
         mode' = "pricing" <=> mode = "pricing",
         \A d \in Day : ~Empty(amber[d]) => ~Empty(amber'[d]),
         "estimated" \notin Quality =>
            \A d \in Day : amber'[d].quality = "estimated" => amber[d].quality = "estimated"
  PROVE  SumsStep
<1>1. RowsOnImported' /\ OneNewDay' /\ TailToEnd' /\ Seam'
  BY SumsTyped DEF TableInv, RowsOnImported, OneNewDay, NewRow, HasRow, TailToEnd, Seam
<1>2. RowsHaveData' /\ CacheHasData' /\ NeverEstimated'
  BY SumsTyped DEF TableInv, RunInv, RowsHaveData, CacheHasData, NewRow, HasRow, Uncached, NeverEstimated
<1>3. RewriteFirst' /\ JobsServed' /\ DayInHand' /\ BaseContinues' /\ DayContinues'
  BY SumsTyped DEF RunInv, RewriteFirst, JobsServed, DayInHand, BaseContinues, DayContinues,
                   Rewriting, Records, ActiveStats, Active
<1>4. NewRowsKnown'
  BY SumsTyped DEF RunInv, NewRowsKnown, NewRow, HasRow, Rewriting, UsageActive
<1>5. QueueSteady'
  <2>1. NewRows' = NewRows /\ ActiveStats(run.day)' = ActiveStats(run.day)
    BY DEF NewRows, Records, ActiveStats, Active
  <2> QED
    BY <2>1, SumsTyped DEF RunInv, QueueSteady, NoOp, InVerification
<1> QED
  BY <1>1, <1>2, <1>3, <1>4, <1>5 DEF SumsStep, TableInv, RunInv

\* A run or an import_day starts.
LEMMA StartSums ==
  ASSUME SumsInv, run.pc = "idle", UNCHANGED <<amber, store, rows, queue, mode>>,
         run'.pc = "guard", run'.cache = run.cache,
         run'.job = "import_day" => run.job = "import_day" \/ "import_day" \in Services
  PROVE  SumsStep
<1>1. TableInv' /\ QueueSteady' /\ JobsServed'
  BY SumsTyped, TableKept, QueueKept DEF RunInv, JobsServed
<1>2. CacheHasData' /\ NeverEstimated'
  BY SumsTyped DEF RunInv, CacheHasData, NewRow, HasRow, Uncached, NeverEstimated
<1>3. RewriteFirst' /\ DayInHand' /\ BaseContinues' /\ DayContinues' /\ NewRowsKnown'
  BY DEF RewriteFirst, DayInHand, BaseContinues, DayContinues, NewRowsKnown, Rewriting, Writing,
         Planning
<1> QED
  BY <1>1, <1>2, <1>3 DEF SumsStep, RunInv

\* New channels are loaded while no run is active.
LEMMA LoadChannelsSums ==
  ASSUME SumsInv, LoadChannels
  PROVE  SumsStep
<1>1. /\ run.pc = "idle" /\ UNCHANGED <<amber, rows, queue, mode, run>>
      /\ \E since : store' = [store EXCEPT !.since = since]
  BY DEF LoadChannels, table, At
<1>2. /\ store'.marker = store.marker /\ store'.lastWritten = store.lastWritten
      /\ store'.status = store.status /\ store'.tail = store.tail
      /\ store'.revisions = store.revisions
  BY <1>1, SumsTyped DEF StoreRecord
<1>3. TableInv'
  <2>1. TailToEnd' /\ Seam'
    BY <1>1, <1>2, SumsTyped DEF TableInv, TailToEnd, Seam, HasRow
  <2> QED
    BY <1>1, <1>2, <2>1, SameDaysTable
<1>4. QueueSteady'
  BY <1>1, SumsTyped, QueueKept
<1>5. CacheHasData' /\ NeverEstimated' /\ JobsServed'
  BY <1>1, <1>2, SumsTyped
     DEF RunInv, CacheHasData, NewRow, HasRow, Uncached, NeverEstimated, InRevisionSet, JobsServed
<1>6. RewriteFirst' /\ DayInHand' /\ BaseContinues' /\ DayContinues' /\ NewRowsKnown'
  BY <1>1 DEF RewriteFirst, DayInHand, BaseContinues, DayContinues, NewRowsKnown, Rewriting,
              Writing, Planning
<1> QED
  BY <1>3, <1>4, <1>5, <1>6 DEF SumsStep, RunInv

LEMMA OthersSums ==
  ASSUME SumsInv, Undisturbed, RowsInReach, ScheduledRun \/ RunNow \/ User \/ Environment
  PROVE  SumsStep
<1>1. CASE ScheduledRun \/ RunNow
  BY <1>1, SumsTyped, StartSums DEF ScheduledRun, RunNow, Begin, At, environment, table, RunRecord
<1>2. ASSUME NEW day \in Day, StartImportDay(day)
      PROVE  SumsStep
  BY <1>2, SumsTyped, StartSums DEF StartImportDay, Serve, At, environment, table, RunRecord
<1>3. ASSUME NEW m \in Modes, SetMode(m)
      PROVE  SumsStep
  <2>1. mode' = m /\ mode \in Modes /\ "set_mode" \in Services
    BY <1>3, SumsTyped DEF SetMode, Serve, TypeOK
  <2> QED
    BY <1>3, <2>1, SameRunSums DEF SetMode, table, Undisturbed
<1>4. CASE User
  <2>1. CASE AddChannels
    BY <2>1, SameRunSums DEF AddChannels, table
  <2> QED
    BY <1>2, <1>3, <1>4, <2>1, LoadChannelsSums DEF User, StartBackfill, Serve, Undisturbed
<1>5. CASE Tick
  BY <1>5, SameRunSums DEF Tick, table
<1>6. ASSUME NEW d \in Day, Publish(d)
      PROVE  SumsStep
  <2>1. PICK a \in Answer : a.quality \in Quality /\ amber' = [amber EXCEPT ![d] = a]
    BY <1>6 DEF Publish
  <2>2. ~Empty(a)
    BY <2>1, UsageImportAssumption DEF Empty
  <2>3. \A e \in Day : amber'[e] = amber[e] \/ amber'[e] = a
    BY <2>1, SumsTyped DEF TypeOK
  <2> QED
    BY <1>6, <2>1, <2>2, <2>3, SameRunSums DEF Publish, table
<1>7. ASSUME NEW d \in Day, UnexpectedChannel(d)
      PROVE  SumsStep
  <2>1. \A e \in Day : amber'[e] = amber[e] \/ amber'[e] = Partial
    BY <1>7, SumsTyped DEF UnexpectedChannel, TypeOK
  <2> QED
    BY <1>7, <2>1, SameRunSums DEF UnexpectedChannel, table, Empty, Partial
<1>8. CASE Crash
  BY <1>8, SumsTyped, StopStep DEF Crash, environment
<1> QED
  BY <1>1, <1>4, <1>5, <1>6, <1>7, <1>8, CommitSums DEF Environment

-----------------------------------------------------------------------------
(* The sums are continuous *)

LEMMA SumsInit ==
  ASSUME Init
  PROVE  SumsInv
<1>1. Steady
  BY HistoryInit, LateInit DEF Steady
<1>2. /\ \A s \in Stat, d \in Day : ~HasRow(s, d) /\ rows[s][d] = NoRow
      /\ \A d \in Day : amber[d] = Nothing /\ ~InRevisionSet(store, d)
                        /\ store.status[d] # "imported"
      /\ store.tail = NoTail /\ run = Idle /\ queue = <<>>
  BY DEF Init, HasRow, EmptyStore, InRevisionSet, NoRevision
<1>3. TableInv
  BY <1>2 DEF TableInv, RowsOnImported, OneNewDay, NewRow, TailToEnd, Seam, Broken, RowsHaveData
<1>4. RunInv
  <2>1. run.pc = "idle" /\ run.job = "run" /\ \A d \in Day : run.cache[d] = Unfetched
    BY <1>2 DEF Idle
  <2>2. QueueSteady
    BY <1>2 DEF QueueSteady
  <2> QED
    BY <1>2, <2>1, <2>2
       DEF RunInv, RewriteFirst, JobsServed, DayInHand, NewRowsKnown, CacheHasData, Uncached,
           BaseContinues, DayContinues, Rewriting, Writing, Planning
<1>5. NeverEstimated
  BY <1>2 DEF NeverEstimated, Nothing, Idle, Unfetched
<1> QED
  BY <1>1, <1>3, <1>4, <1>5 DEF SumsInv

LEMMA SteadyNext ==
  ASSUME Steady, Undisturbed, [Next]_vars
  PROVE  Steady'
<1>1. HistoryInv'
  BY HistoryNext DEF Steady, Undisturbed
<1>2. LateInv'
  <2>1. TypeInv'
    BY TypeStep DEF Steady, LateInv
  <2> QED
    BY <2>1, SinceOnlyFalls, RowsStayAfterStart, QueueAfterStart
       DEF Steady, LateInv, TypeInv, RowsAfterStart
<1> QED
  BY <1>1, <1>2 DEF Steady

LEMMA SumsNext ==
  ASSUME SumsInv, Undisturbed, RowsInReach, [Next]_vars
  PROVE  SumsInv'
<1>1. Steady'
  BY SteadyNext DEF SumsInv
<1>2. CASE RunStep
  <2>1. ~Backfill
    BY DEF Backfill, BackfillSkips, BackfillBegins, At, SumsInv, Steady, HistoryInv, RunInOrder,
           NoBackfill
  <2> QED
    BY <1>1, <1>2, <2>1, GuardSums, RetentionSums, ReviseSums, ReviseBeginsRewrite, WalkSums,
       RewriteSums, WriteSums, ImportDaySums DEF RunStep, SumsStep, SumsInv
<1>3. CASE ScheduledRun \/ RunNow \/ User \/ Environment
  BY <1>1, <1>3, OthersSums DEF SumsStep, SumsInv
<1>4. CASE UNCHANGED vars
  BY <1>1, <1>4, SameRunSums DEF vars, SumsStep, SumsInv
<1> QED
  BY <1>2, <1>3, <1>4 DEF Next

LEMMA SeamIsAhead ==
  ASSUME SumsInv
  PROVE  SumsContinuous
<1> SUFFICES ASSUME NEW s \in Stat
             PROVE  IF store.tail = NoTail THEN Breaks(s) = {}
                    ELSE Cardinality(Breaks(s)) <= 1 /\ \A d \in Breaks(s) : d >= store.tail.next
  BY DEF SumsContinuous
<1>1. \A d : d \in Breaks(s) => /\ d \in Day /\ store.tail # NoTail /\ store.tail.next <= d
                                /\ \A c : c \in Breaks(s) => c = d
  BY BreaksAreBroken, SumsTyped DEF TableInv, Seam
<1>2. CASE Breaks(s) = {}
  BY <1>2, FS_EmptySet
<1>3. ASSUME NEW d \in Breaks(s)
      PROVE  Cardinality(Breaks(s)) = 1
  <2>1. Breaks(s) = {d}
    BY <1>1, <1>3
  <2> QED
    BY <2>1, FS_Singleton
<1>4. store.tail.next \in Int /\ \A d \in Day : d \in Int
  BY SumsTyped DEF StoreRecord, TailRecord, Day, NoDay
<1> QED
  BY <1>1, <1>2, <1>3, <1>4

\* The sums of every statistic are cumulative over its whole history: across gaps, late
\* channels and recovered days, after any crash and while days are rewritten, when at most
\* one seam shows and that in the part still to be rewritten.  A day is written from the sum
\* before it, and a rewrite goes on to last_written before anything else is written
\* (_async_baselines, _async_write_day, _async_range_rewrite).
THEOREM SumsAreContinuous ==
  ASSUME Undisturbed
  PROVE  Spec /\ []RowsInReach => []SumsContinuous
<1>1. Init => SumsInv
  BY SumsInit
<1>2. SumsInv /\ RowsInReach /\ [Next]_vars => SumsInv'
  BY SumsNext
<1>3. SumsInv => SumsContinuous
  BY SeamIsAhead
<1> QED
  BY <1>1, <1>2, <1>3, PTL DEF Spec

-----------------------------------------------------------------------------
(* Guard 1 never locks the site out.  This needs more: that a complete day stays complete, *)
(* and that a site whose days Amber revises does not crash (the README says why).           *)

Recoverable ==
  /\ Undisturbed /\ Regress = FALSE
  /\ "estimated" \notin Quality \/ MaxCrash = 0

\* Channels are loaded before a day of theirs is recorded without them.
LoadedInTime == ~late

Appending == run.caller \in {"walk", "append"}

\* Every channel of last_written has its rows there.
Expected ==
  \A s \in Stat : store.lastWritten # NoDay /\ Active(s, store.lastWritten) =>
    HasRow(s, store.lastWritten)

\* Rows after last_written are of the pending day, which is the next of the history.
NewIsPending ==
  \A s \in Stat, d \in Day : NewRow(s, d) =>
    /\ d = store.pending /\ Follows(store, d)
    /\ "estimated" \in Quality => run.pc = "verify" /\ Appending

\* A day is appended only once it is announced as pending.
Announced == run.pc \in {"write", "verify"} /\ Appending => store.pending = run.day

\* A complete day stays complete, whoever asks again.
CompleteStays ==
  /\ \A d \in Day : Complete(run.cache[d]) => Complete(amber[d])
  /\ \A s \in Stat, d \in Day : HasRow(s, d) =>
       Complete(amber[d]) /\ (NewRow(s, d) /\ ~Uncached(d) => Complete(run.cache[d]))

\* The walk holds the days of its window.
WindowHeld ==
  /\ run.pc = "walk" \/ (run.pc \in Writing /\ run.caller = "walk") =>
       \A d \in Day : run.day <= d /\ d <= run.windowEnd => ~Uncached(d)
  /\ run.pc = "write" /\ Appending => ~Uncached(run.day)

GuardInv ==
  SumsInv /\ Expected /\ NewIsPending /\ Announced /\ CompleteStays /\ WindowHeld /\ InHand

\* Whatever the run fetches again, Amber answers for the rows that are not recorded yet.
Refetched(d) ==
  \/ run'.cache[d] \in {run.cache[d], amber[d], Unfetched}
  \/ run'.cache[d] = Nothing /\ \A s \in Stat : ~NewRow(s, d)

\* What a step of the run other than a successful verification does to the history.
GuardStep ==
  /\ UNCHANGED <<rows, amber>>
  /\ store'.lastWritten = store.lastWritten /\ store'.since = store.since
  /\ store'.marker = store.marker \/ run'.pc = "walk"
  /\ \/ store'.pending = store.pending
     \/ \A s \in Stat, d \in Day : ~NewRow(s, d)
     \/ run'.pc = "write" /\ Appending'
  /\ \A d \in Day : Refetched(d)
  /\ Announced' /\ WindowHeld'
  /\ run'.pc = "verify" => WriteRows

SamePlaces(old, new) ==
  /\ {"marker", "lastWritten", "pending", "since"} \subseteq DOMAIN new
  /\ new.marker = old.marker /\ new.lastWritten = old.lastWritten
  /\ new.pending = old.pending /\ new.since = old.since

LEMMA SettersKeepPlaces ==
  ASSUME NEW old, NEW st, SamePlaces(old, st)
  PROVE  /\ \A day, how : SamePlaces(old, MarkDay(st, day, how))
         /\ \A day, on : SamePlaces(old, NoteEmpty(st, day, on))
         /\ \A b, on : SamePlaces(old, SetRetention(st, b, on))
         /\ \A day, on, hash : SamePlaces(old, SetRevision(st, day, on, hash))
         /\ \A days : SamePlaces(old, DropRevisions(st, days))
         /\ \A tail : SamePlaces(old, SetTail(st, tail))
         /\ \A next : SamePlaces(old, [st EXCEPT !.tail.next = next])
         /\ \A on : SamePlaces(old, SetChecked(st, on))
         /\ \A first, last, end, how :
              SamePlaces(old, BeginRewrite(st, first, last, end, how))
<1>1. /\ \A day, how : SamePlaces(old, MarkDay(st, day, how))
      /\ \A day, on : SamePlaces(old, NoteEmpty(st, day, on))
      /\ \A b, on : SamePlaces(old, SetRetention(st, b, on))
  BY DEF SamePlaces, MarkDay, NoteEmpty, SetRetention
<1>2. /\ \A day, on, hash : SamePlaces(old, SetRevision(st, day, on, hash))
      /\ \A days : SamePlaces(old, DropRevisions(st, days))
      /\ \A on : SamePlaces(old, SetChecked(st, on))
  BY DEF SamePlaces, SetRevision, DropRevisions, SetChecked
<1>3. /\ \A tail : SamePlaces(old, SetTail(st, tail))
      /\ \A next : SamePlaces(old, [st EXCEPT !.tail.next = next])
      /\ \A first, last, end, how : SamePlaces(old, BeginRewrite(st, first, last, end, how))
  BY DEF SamePlaces, SetTail, BeginRewrite
<1> QED
  BY <1>1, <1>2, <1>3

LEMMA GuardTyped ==
  ASSUME GuardInv
  PROVE  /\ SumsInv /\ store \in StoreRecord /\ run \in RunRecord /\ TypeOK
         /\ SamePlaces(store, store)
         /\ Announced /\ WindowHeld /\ CompleteStays
BY SumsTyped DEF GuardInv, SamePlaces, StoreRecord

\* A step that leaves the walk and the write path, or does not enter them.
LEMMA AwayGuard ==
  ASSUME UNCHANGED <<rows, amber>>, SamePlaces(store, store'),
         run'.pc \notin {"walk"} \cup Writing,
         \A d \in Day : Refetched(d)
  PROVE  GuardStep
BY DEF GuardStep, SamePlaces, Announced, WindowHeld, Writing

LEMMA StopGuard ==
  ASSUME UNCHANGED <<rows, amber>>, SamePlaces(store, store'), Stop
  PROVE  GuardStep
BY AwayGuard DEF Stop, Idle, Writing, Refetched

LEMMA FetchedGuard ==
  ASSUME GuardInv, Recoverable, RowsInReach, UNCHANGED amber,
         \/ \E window : run'.cache = Fetched(window)
         \/ \E e \in Day : run'.cache = [run.cache EXCEPT ![e] = Usage(e)]
  PROVE  \A d \in Day : Refetched(d)
<1> TAKE d \in Day
<1>1. run'.cache[d] = run.cache[d] \/ run'.cache[d] = Usage(d)
  BY GuardTyped DEF Fetched, RunRecord
<1> QED
  BY <1>1, GuardTyped, UsageIsAmber DEF Refetched

LEMMA GuardGuard ==
  ASSUME GuardInv, Recoverable, RowsInReach, Guard
  PROVE  GuardStep
<1>1. UNCHANGED <<rows, amber>>
  BY DEF Guard, GuardRefuses, GuardAccepts, GuardSkipped, environment, table
<1>2. CASE GuardRefuses
  BY <1>1, <1>2, GuardTyped, StopGuard DEF GuardRefuses
<1>3. CASE GuardAccepts
  <2>1. run'.cache = run.cache /\ run'.pc \in {"plan", "resume"}
    BY <1>3, GuardTyped DEF GuardAccepts, RunRecord
  <2>2. CASE StatisticsAgree
    <3>1. \A s \in Stat, d \in Day : ~NewRow(s, d)
      BY <1>3, <2>2, GuardTyped, GuardKnows DEF GuardAccepts
    <3>2. /\ store'.lastWritten = store.lastWritten /\ store'.since = store.since
          /\ store'.marker = store.marker
      BY <1>3, <2>2, GuardTyped DEF GuardAccepts, ClearPending, StoreRecord
    <3> QED
      BY <1>1, <2>1, <3>1, <3>2 DEF GuardStep, Announced, WindowHeld, Writing, Refetched
  <2>3. CASE ~StatisticsAgree
    BY <1>1, <1>3, <2>1, <2>3, GuardTyped, AwayGuard DEF GuardAccepts, Writing, Refetched
  <2> QED
    BY <2>2, <2>3
<1>4. CASE GuardSkipped
  BY <1>1, <1>4, GuardTyped, AwayGuard DEF GuardSkipped, Goto, RunRecord, Writing, Refetched
<1> QED
  BY <1>2, <1>3, <1>4 DEF Guard

LEMMA RetentionGuard ==
  ASSUME GuardInv, Recoverable, RowsInReach, RetentionStep
  PROVE  GuardStep
<1>1. UNCHANGED <<rows, amber>> /\ SamePlaces(store, store') /\ (Stop \/ GoOn)
  BY GuardTyped, SettersKeepPlaces
     DEF RetentionStep, RetentionDone, RetentionFails, environment, table
<1>2. CASE GoOn
  BY <1>1, <1>2, GuardTyped, AwayGuard DEF GoOn, RunRecord, Writing, Refetched
<1> QED
  BY <1>1, <1>2, StopGuard

LEMMA ReviseGuard ==
  ASSUME GuardInv, Recoverable, RowsInReach, Revise
  PROVE  GuardStep
<1>1. UNCHANGED <<rows, amber>>
  BY DEF Revise, FetchRevisions, RevisionsAlreadyChecked, CompareRevisions, RevisionsChecked,
         environment, table
<1>2. SamePlaces(store, store')
  <2>1. CASE CompareRevisions
    <3>1. \A days : SamePlaces(store, DropRevisions(store, days))
      BY GuardTyped, SettersKeepPlaces
    <3>2. \A days, first, last, end, how :
            SamePlaces(store, BeginRewrite(DropRevisions(store, days), first, last, end, how))
      BY <3>1, SettersKeepPlaces
    <3> QED
      BY <2>1, <3>1, <3>2 DEF CompareRevisions
  <2>2. CASE FetchRevisions \/ RevisionsAlreadyChecked \/ RevisionsChecked
    BY <2>2, GuardTyped, SettersKeepPlaces
       DEF FetchRevisions, RevisionsAlreadyChecked, RevisionsChecked
  <2> QED
    BY <2>1, <2>2 DEF Revise
<1>3. \/ Stop
      \/ /\ \E window : run'.cache = Fetched(window)
         /\ run'.pc = "revisions"
      \/ run'.cache = run.cache /\ run'.pc \in {"compare", "work", "checked", "rewrite"}
  <2>1. CASE FetchRevisions
    BY <2>1, GuardTyped DEF FetchRevisions, RequestFails, Goto, RunRecord, At
  <2>2. CASE ~FetchRevisions
    BY <2>2, GuardTyped
       DEF Revise, RevisionsAlreadyChecked, CompareRevisions, RevisionsChecked, Goto, RunRecord
  <2> QED
    BY <2>1, <2>2
<1>4. CASE /\ \E window : run'.cache = Fetched(window)
           /\ run'.pc = "revisions"
  BY <1>1, <1>2, <1>4, FetchedGuard, AwayGuard DEF Writing
<1>5. CASE run'.cache = run.cache /\ run'.pc \in {"compare", "work", "checked", "rewrite"}
  BY <1>1, <1>2, <1>5, AwayGuard DEF Writing, Refetched
<1> QED
  BY <1>1, <1>2, <1>3, <1>4, <1>5, StopGuard


\* A step from the walk to the walk that holds on to its window.
LEMMA WalkOnGuard ==
  ASSUME GuardInv, UNCHANGED <<rows, amber>>, run'.pc = "walk",
         store'.lastWritten = store.lastWritten, store'.since = store.since,
         store'.pending = store.pending,
         \A d \in Day : Refetched(d),
         \A d \in Day : run'.day <= d /\ d <= run'.windowEnd => run'.cache[d] # Unfetched
  PROVE  GuardStep
BY DEF GuardStep, Announced, WindowHeld, Uncached, Writing

LEMMA SkipKeepsPlaces ==
  ASSUME NEW st \in StoreRecord, NEW first, NEW last, NEW how, SamePlaces(store, st)
  PROVE  LET new == MarkSkipped(st, first, last, how) IN
         /\ new.lastWritten = store.lastWritten /\ new.pending = store.pending
         /\ new.since = store.since
BY DEF MarkSkipped, SamePlaces, StoreRecord

LEMMA WalkGuard ==
  ASSUME GuardInv, Recoverable, RowsInReach, Walk
  PROVE  GuardStep
<1>1. UNCHANGED <<rows, amber>>
  BY DEF Walk, WalkStart, WalkFetch, WalkLeading, WalkSkipsLeading, WalkPatience, WalkWrite,
         WalkDone, NothingToWalk, environment, table
<1>2. /\ \A e \in Day : e \in Int
      /\ run.day \in Int /\ run.windowEnd \in Int
  BY GuardTyped, MaxDayAssumption DEF RunRecord, Day
<1>3. run.pc = "walk" => \A e \in Day : run.day <= e /\ e <= run.windowEnd => ~Uncached(e)
  BY GuardTyped DEF WindowHeld
<1>4. CASE WalkStart
  <2>1. \/ Stop /\ UNCHANGED store
        \/ /\ store' = store \/ \E first, last, how : store' = MarkSkipped(store, first, last, how)
           /\ \E from \in Int :
                run' = [run EXCEPT !.pc = "walk", !.yesterday = Yesterday, !.day = from,
                                   !.windowEnd = from - 1, !.leading = NoDay]
    <3> DEFINE b == store.boundary
               start == IF run.recovery # NoDay THEN run.recovery
                        ELSE IF store.marker # NoDay THEN store.marker + 1 ELSE b
               last == Earlier(b - 1, Yesterday)
               from == IF start < b THEN last + 1 ELSE start
    <3>1. from \in Int
      BY GuardTyped, MaxDayAssumption
         DEF StoreRecord, RunRecord, Day, Date, NoDay, Earlier, Yesterday, TypeOK
    <3>2. CASE start < b /\ run.recovery # NoDay
      BY <1>4, <3>2 DEF WalkStart
    <3>3. CASE ~(start < b /\ run.recovery # NoDay)
      <4>1. /\ store' = (IF start < b THEN MarkSkipped(store, start, last, "unavailable") ELSE store)
            /\ run' = [run EXCEPT !.pc = "walk", !.yesterday = Yesterday, !.day = from,
                                  !.windowEnd = from - 1, !.leading = NoDay]
        BY <1>4, <3>3 DEF WalkStart
      <4> HIDE DEF from, last, start, b
      <4> QED
        BY <3>1, <4>1
    <3> QED
      BY <3>2, <3>3
  <2>2. CASE Stop /\ UNCHANGED store
    BY <1>1, <2>2, GuardTyped, StopGuard
  <2>3. CASE /\ store' = store \/ \E first, last, how : store' = MarkSkipped(store, first, last, how)
             /\ \E from \in Int :
                  run' = [run EXCEPT !.pc = "walk", !.yesterday = Yesterday, !.day = from,
                                     !.windowEnd = from - 1, !.leading = NoDay]
    <3>1. PICK from \in Int :
            run' = [run EXCEPT !.pc = "walk", !.yesterday = Yesterday, !.day = from,
                               !.windowEnd = from - 1, !.leading = NoDay]
      BY <2>3
    <3>2. /\ run'.pc = "walk" /\ run'.day = from /\ run'.windowEnd = from - 1
          /\ run'.cache = run.cache
      BY <3>1, GuardTyped DEF RunRecord
    <3>3. /\ store'.lastWritten = store.lastWritten /\ store'.pending = store.pending
          /\ store'.since = store.since
      BY <2>3, GuardTyped, SkipKeepsPlaces
    <3> QED
      BY <1>1, <1>2, <3>2, <3>3, WalkOnGuard DEF Refetched
  <2> QED
    BY <2>1, <2>2, <2>3
<1>5. CASE WalkFetch
  <2>1. run.pc = "walk" /\ UNCHANGED store
    BY <1>5 DEF WalkFetch, WalkAt, At
  <2> DEFINE window == WindowFrom(run.day, run.yesterday)
  <2>2. CASE Stop
    BY <1>1, <2>1, <2>2, GuardTyped, StopGuard
  <2>3. CASE run' = [run EXCEPT !.cache = Fetched(window), !.windowEnd = MaxOf(window)]
    <3>1. /\ run'.pc = "walk" /\ run'.day = run.day /\ run'.windowEnd = MaxOf(window)
          /\ run'.cache = Fetched(window)
      BY <2>1, <2>3, GuardTyped DEF RunRecord
    <3>2. \A e \in Day : Refetched(e)
      BY <1>1, <3>1, FetchedGuard
    <3>3. ASSUME NEW e \in Day, run.day <= e, e <= MaxOf(window)
          PROVE  run'.cache[e] # Unfetched
      <4> DEFINE last == Earlier(run.day + Window - 1, run.yesterday)
      <4>1. /\ run.day >= 0 /\ run.day <= run.yesterday /\ run.yesterday \in Int
        BY <1>5, GuardTyped DEF WalkFetch, WalkAt, RunRecord
      <4>2. last \in run.day..run.yesterday
        BY <1>2, <4>1, UsageImportAssumption DEF Earlier
      <4>3. e \in window
        <5>1. MaxOf(window) = last
          BY <1>2, <4>1, <4>2, MaxOfRange DEF WindowFrom
        <5> QED
          BY <1>2, <3>3, <4>2, <5>1 DEF WindowFrom
      <4>4. run'.cache[e] = Usage(e)
        BY <3>1, <4>3 DEF Fetched
      <4>5. Usage(e) \in Answer
        BY GuardTyped, UsageType
      <4> QED
        BY <4>4, <4>5 DEF Unfetched, Answer, Nothing, Partial
    <3> HIDE DEF window
    <3> QED
      BY <1>1, <2>1, <3>1, <3>2, <3>3, WalkOnGuard DEF Refetched
  <2> QED
    BY <1>5, <2>2, <2>3 DEF WalkFetch, RequestFails
<1>6. CASE WalkLeading \/ WalkPatience
  <2>1. PICK d \in Day :
          /\ WalkDay(d)
          /\ \/ /\ run'.cache = run.cache /\ run'.pc = run.pc /\ run'.day = run.day + 1
                /\ run'.windowEnd = run.windowEnd
             \/ Stop /\ store' = NoteEmpty(store, d, today)
          /\ \/ store' = store \/ store' = NoteEmpty(store, d, today)
             \/ store' = MarkSkipped(NoteEmpty(store, d, today), d, d, "gap")
    <3>1. ASSUME NEW d \in Day, WalkDay(d)
          PROVE  d = run.day
      BY <3>1 DEF WalkDay, WalkAt
    <3>2. CASE WalkLeading
      BY <3>1, <3>2, GuardTyped DEF WalkLeading, RunRecord
    <3>3. CASE WalkPatience
      BY <3>1, <3>3, GuardTyped DEF WalkPatience, RunRecord, RequestFails
    <3> QED
      BY <1>6, <3>2, <3>3
  <2> DEFINE st == NoteEmpty(store, d, today)
  <2>2. SamePlaces(store, st) /\ st \in StoreRecord
    BY GuardTyped, SettersKeepPlaces, NoteEmptyType DEF TypeOK
  <2>3. /\ store'.lastWritten = store.lastWritten /\ store'.pending = store.pending
        /\ store'.since = store.since
    <3> HIDE DEF st
    <3> QED
      BY <2>1, <2>2, SkipKeepsPlaces DEF SamePlaces, st
  <2>4. CASE Stop /\ store' = st
    BY <1>1, <2>2, <2>4, StopGuard
  <2>5. CASE /\ run'.cache = run.cache /\ run'.pc = run.pc /\ run'.day = run.day + 1
             /\ run'.windowEnd = run.windowEnd
    <3>1. run.pc = "walk"
      BY <2>1 DEF WalkDay, WalkAt, At
    <3>2. \A e \in Day : run'.day <= e /\ e <= run'.windowEnd => run'.cache[e] # Unfetched
      BY <1>2, <1>3, <2>5, <3>1 DEF Uncached
    <3> QED
      BY <1>1, <2>3, <2>5, <3>1, <3>2, WalkOnGuard DEF Refetched
  <2> QED
    BY <2>1, <2>4, <2>5
<1>7. CASE WalkSkipsLeading
  <2>1. PICK d \in Day :
          /\ WalkDay(d) /\ run' = [run EXCEPT !.leading = NoDay]
          /\ store' = SetRetention(MarkSkipped(store, run.leading, d - 1, "unavailable"), d, today)
    BY <1>7 DEF WalkSkipsLeading
  <2>2. /\ run.pc = "walk" /\ run'.pc = "walk" /\ run'.day = run.day
        /\ run'.windowEnd = run.windowEnd /\ run'.cache = run.cache
    BY <2>1, GuardTyped DEF WalkDay, WalkAt, At, RunRecord
  <2>3. /\ store'.lastWritten = store.lastWritten /\ store'.pending = store.pending
        /\ store'.since = store.since
    BY <2>1, GuardTyped DEF SetRetention, MarkSkipped, StoreRecord
  <2>4. \A e \in Day : run'.day <= e /\ e <= run'.windowEnd => run'.cache[e] # Unfetched
    BY <1>3, <2>2 DEF Uncached
  <2> QED
    BY <1>1, <2>2, <2>3, <2>4, WalkOnGuard DEF Refetched
<1>8. CASE WalkWrite
  <2>1. PICK d \in Day :
          /\ WalkDay(d) /\ ~Empty(run.cache[d]) /\ BeginWrite(d, "walk")
    BY <1>8 DEF WalkWrite
  <2>2. /\ run.pc = "walk" /\ d = run.day /\ d <= run.windowEnd /\ d <= d
    BY <1>2, <2>1 DEF WalkDay, WalkAt, At
  <2>3. ~InsideHistory(d)
    <3>1. Follows(store, d)
      <4>1. run.leading = NoDay
        BY <1>8 DEF WalkWrite
      <4> QED
        BY <2>2, <4>1, GuardTyped, SumsTyped DEF RunInOrder, WalkFollows
    <3> QED
      BY <1>2, <3>1, GuardTyped, SumsTyped, HistoryNumbers DEF InsideHistory, Follows, StoreInOrder
  <2>4. CASE PartialHistory(d)
    BY <1>1, <2>1, <2>4, GuardTyped, StopGuard DEF BeginWrite
  <2>5. CASE ~PartialHistory(d)
    <3>1. /\ store' = SetPending(store, d)
          /\ run' = [run EXCEPT !.pc = "write", !.day = d, !.caller = "walk", !.base = Baselines(d)]
      BY <2>1, <2>3, <2>5 DEF BeginWrite
    <3>2. /\ run'.pc = "write" /\ run'.day = run.day /\ run'.caller = "walk"
          /\ run'.windowEnd = run.windowEnd /\ run'.cache = run.cache
      BY <2>2, <3>1, GuardTyped DEF RunRecord
    <3>3. /\ store'.lastWritten = store.lastWritten /\ store'.pending = d
          /\ store'.since = store.since /\ store'.marker = store.marker
      BY <3>1, GuardTyped DEF SetPending, StoreRecord
    <3>4. Announced' /\ Appending'
      BY <2>2, <3>2, <3>3 DEF Announced, Appending
    <3>5. WindowHeld'
      BY <1>2, <1>3, <2>2, <3>2 DEF WindowHeld, Uncached
    <3> QED
      BY <1>1, <3>2, <3>3, <3>4, <3>5 DEF GuardStep, Refetched
  <2> QED
    BY <2>4, <2>5
<1>9. CASE WalkDone \/ NothingToWalk
  BY <1>1, <1>9, GuardTyped, StopGuard DEF WalkDone, NothingToWalk
<1> QED
  BY <1>4, <1>5, <1>6, <1>7, <1>8, <1>9 DEF Walk

LEMMA RewriteGuard ==
  ASSUME GuardInv, Recoverable, RowsInReach, Rewrite
  PROVE  GuardStep
<1>1. UNCHANGED <<rows, amber>>
  BY DEF Rewrite, ResumeTail, RewriteSkip, RewriteFetch, RewriteUnavailable, RewritePatience,
         RewriteWrite, RewriteDone, environment, table
<1>2. CASE RewriteWrite
  <2>1. PICK d \in Day : RewriteAt(d) /\ BeginWrite(d, "rewrite")
    BY <1>2 DEF RewriteWrite, RewriteDay
  <2>2. UNCHANGED store
    <3>1. InsideHistory(d)
      BY <2>1, GuardTyped, SumsTyped, RewriteMeets, HistoryNumbers DEF InsideHistory
    <3> QED
      BY <2>1, <3>1 DEF BeginWrite
  <2>3. CASE Stop
    BY <1>1, <2>2, <2>3, GuardTyped, StopGuard
  <2>4. CASE run' = [run EXCEPT !.pc = "write", !.day = d, !.caller = "rewrite",
                                !.base = Baselines(d)]
    <3>1. run'.pc = "write" /\ run'.caller = "rewrite" /\ run'.cache = run.cache
      BY <2>4, GuardTyped DEF RunRecord
    <3> QED
      BY <1>1, <2>2, <3>1 DEF GuardStep, Announced, WindowHeld, Appending, Refetched
  <2> QED
    BY <2>1, <2>3, <2>4 DEF BeginWrite
<1>3. CASE RewritePatience
  <2>1. store.tail.onEmpty = "patience"
    BY <1>3 DEF RewritePatience
  <2> QED
    BY <2>1, GuardTyped, SumsTyped DEF StoreInOrder
<1>4. CASE ResumeTail \/ RewriteSkip \/ RewriteFetch \/ RewriteUnavailable \/ RewriteDone
  <2>1. SamePlaces(store, store')
    BY <1>4, GuardTyped, SettersKeepPlaces
       DEF ResumeTail, RewriteSkip, RewriteFetch, RewriteUnavailable, RewriteDone, RewriteDay
  <2>2. \/ Stop
        \/ /\ run'.cache = run.cache \/ \E window : run'.cache = Fetched(window)
           /\ run'.pc \in {"rewrite", "retention", "checked"}
    BY <1>4, GuardTyped
       DEF ResumeTail, RewriteSkip, RewriteFetch, RewriteUnavailable, RewriteDone, RewriteDay,
           RewriteAt, At, RequestFails, Goto, RunRecord
  <2>3. CASE /\ run'.cache = run.cache \/ \E window : run'.cache = Fetched(window)
             /\ run'.pc \in {"rewrite", "retention", "checked"}
    <3>1. \A d \in Day : Refetched(d)
      BY <1>1, <2>3, FetchedGuard DEF Refetched
    <3> QED
      BY <1>1, <2>1, <2>3, <3>1, AwayGuard DEF Writing
  <2> QED
    BY <1>1, <2>1, <2>2, <2>3, StopGuard
<1> QED
  BY <1>2, <1>3, <1>4 DEF Rewrite


\* A refused day has no rows after last_written behind it.
LEMMA RefusedDayHasNoRows ==
  ASSUME GuardInv, WriteRefused, run.caller \in {"append", "reimport"} \/ ~InsideHistory(run.day)
  PROVE  \A s \in Stat, d \in Day : ~NewRow(s, d)
<1>1. run.pc = "write" /\ ~Complete(Records)
  BY DEF WriteRefused, At
<1>2. run.caller # "rewrite"
  <2>1. run.pc \in Writing /\ run.caller = "rewrite" => run.day <= store.lastWritten
    BY GuardTyped, SumsTyped DEF RunInv, DayInHand
  <2>2. run.day \in Day
    BY <1>1, GuardTyped, SumsTyped DEF TypeInv, DayAtHand
  <2> QED
    BY <1>1, <2>1, <2>2, GuardTyped, SumsTyped, HistoryNumbers DEF InsideHistory, Writing, Day, NoDay
<1>3. SUFFICES ASSUME NEW s \in Stat, NEW d \in Day, NewRow(s, d)
               PROVE  FALSE
  OBVIOUS
<1>4. run.caller # "reimport" /\ d = run.day
  BY <1>1, <1>2, <1>3, GuardTyped, SumsTyped DEF RunInv, NewRowsKnown
<1>5. ~Uncached(d)
  BY <1>1, <1>2, <1>4, GuardTyped DEF WindowHeld, Appending, RunRecord
<1> QED
  BY <1>1, <1>3, <1>4, <1>5, GuardTyped DEF CompleteStays, NewRow, Records

LEMMA WriteGuard ==
  ASSUME GuardInv, Recoverable, RowsInReach, Write, ~VerifyPasses
  PROVE  GuardStep
<1>1. UNCHANGED <<rows, amber>>
  BY DEF Write, WriteRefused, WriteRows, VerifyPasses, VerifyTimesOut, TrackRevision, Advance,
         environment, table
<1>2. CASE WriteRefused
  <2>1. run'.pc = "idle" /\ \A d \in Day : run'.cache[d] = Unfetched
    BY <1>2 DEF WriteRefused, Stop, Idle
  <2>2. /\ store'.lastWritten = store.lastWritten /\ store'.since = store.since
        /\ store'.marker = store.marker
    BY <1>2, GuardTyped DEF WriteRefused, MarkDay, ClearPending, StoreRecord
  <2>3. store'.pending = store.pending \/ \A s \in Stat, d \in Day : ~NewRow(s, d)
    <3>1. CASE run.caller \in {"append", "reimport"} \/ ~InsideHistory(run.day)
      BY <1>2, <3>1, RefusedDayHasNoRows
    <3>2. CASE ~(run.caller \in {"append", "reimport"} \/ ~InsideHistory(run.day))
      BY <1>2, <3>2, GuardTyped DEF WriteRefused, MarkDay, StoreRecord
    <3> QED
      BY <3>1, <3>2
  <2> QED
    BY <1>1, <2>1, <2>2, <2>3 DEF GuardStep, Announced, WindowHeld, Writing, Refetched
<1>3. CASE VerifyTimesOut
  BY <1>1, <1>3, GuardTyped, SettersKeepPlaces, StopGuard DEF VerifyTimesOut
<1>4. ASSUME NEW pc \in {"verify", "advance"}, Goto(pc), run.pc \in {"write", "track"},
             SamePlaces(store, store'), pc = "verify" => WriteRows /\ run.pc = "write"
      PROVE  GuardStep
  <2>1. /\ run'.pc = pc /\ run'.day = run.day /\ run'.caller = run.caller
        /\ run'.windowEnd = run.windowEnd /\ run'.cache = run.cache
    BY <1>4, GuardTyped DEF Goto, RunRecord
  <2>2. Announced'
    BY <1>4, <2>1, GuardTyped DEF Announced, Appending, SamePlaces
  <2>3. WindowHeld'
    BY <1>4, <2>1, GuardTyped DEF WindowHeld, Appending, Uncached, Writing
  <2> QED
    BY <1>1, <1>4, <2>1, <2>2, <2>3 DEF GuardStep, SamePlaces, Refetched
<1>5. CASE WriteRows
  BY <1>4, <1>5, GuardTyped DEF WriteRows, At
<1>6. CASE TrackRevision
  BY <1>4, <1>6, GuardTyped, SettersKeepPlaces DEF TrackRevision, At
<1>7. CASE Advance
  <2>1. run.pc = "advance"
    BY <1>7 DEF Advance, At
  <2>2. CASE run.caller = "walk" /\ run' = [run EXCEPT !.pc = "walk", !.day = @ + 1] /\ UNCHANGED store
    <3>1. /\ run'.pc = "walk" /\ run'.day = run.day + 1 /\ run'.cache = run.cache
          /\ run'.windowEnd = run.windowEnd
      BY <2>2, GuardTyped DEF RunRecord
    <3>2. \A d \in Day : run'.day <= d /\ d <= run'.windowEnd => run'.cache[d] # Unfetched
      <4>1. run.day \in Int /\ \A d \in Day : d \in Int
        BY GuardTyped, MaxDayAssumption DEF RunRecord, Day
      <4>2. \A d \in Day : run.day <= d /\ d <= run.windowEnd => ~Uncached(d)
        BY <2>1, <2>2, GuardTyped DEF WindowHeld, Writing
      <4> QED
        BY <3>1, <4>1, <4>2 DEF Uncached
    <3> QED
      BY <1>1, <2>2, <3>1, <3>2, WalkOnGuard DEF Refetched
  <2>3. CASE run.caller = "rewrite" /\ Goto("rewrite")
             /\ store' = [store EXCEPT !.tail.next = run.day + 1]
    <3>1. SamePlaces(store, store') /\ run'.pc = "rewrite" /\ run'.cache = run.cache
      BY <2>3, GuardTyped, SettersKeepPlaces DEF Goto, RunRecord
    <3> QED
      BY <1>1, <3>1, AwayGuard DEF Writing, Refetched
  <2>4. CASE Stop /\ UNCHANGED store
    BY <1>1, <2>4, GuardTyped, StopGuard
  <2> QED
    BY <1>7, <2>2, <2>3, <2>4 DEF Advance
<1> QED
  BY <1>2, <1>3, <1>5, <1>6, <1>7 DEF Write

LEMMA ImportDayGuard ==
  ASSUME GuardInv, Recoverable, RowsInReach, ImportDay
  PROVE  GuardStep
<1>1. UNCHANGED <<rows, amber>>
  BY DEF ImportDay, PlanAppend, PlanReimport, PlanRefused, FetchDay, environment, table
<1>2. CASE PlanAppend \/ PlanReimport \/ PlanRefused
  <2>1. SamePlaces(store, store') /\ (Stop \/ (run'.pc = "fetch_day" /\ run'.cache = run.cache))
    BY <1>2, GuardTyped DEF PlanAppend, PlanReimport, PlanRefused, RunRecord
  <2> QED
    BY <1>1, <2>1, StopGuard, AwayGuard DEF Writing, Refetched
<1>3. CASE FetchDay
  <2>1. run.pc = "fetch_day" /\ run.day \in Day /\ run.caller \in {"append", "reimport"}
    BY <1>3, GuardTyped, SumsTyped DEF FetchDay, At, TypeInv, DayAtHand, RunInOrder, DayFollows
  <2>2. CASE Stop /\ UNCHANGED store
    BY <1>1, <2>2, GuardTyped, StopGuard
  <2>3. CASE run' = [run EXCEPT !.pc = "write", !.cache[run.day] = Usage(run.day)]
             /\ store' = IF run.caller = "append" THEN SetPending(store, run.day) ELSE store
    <3>1. /\ run'.pc = "write" /\ run'.day = run.day /\ run'.caller = run.caller
          /\ run'.cache = [run.cache EXCEPT ![run.day] = Usage(run.day)]
          /\ run'.cache[run.day] = Usage(run.day)
      BY <2>1, <2>3, GuardTyped DEF RunRecord
    <3>2. \A d \in Day : Refetched(d)
      BY <1>1, <2>1, <3>1, FetchedGuard
    <3>3. /\ store'.lastWritten = store.lastWritten /\ store'.since = store.since
          /\ store'.marker = store.marker
          /\ run.caller = "append" => store'.pending = run.day
          /\ run.caller # "append" => store'.pending = store.pending
      BY <2>3, GuardTyped DEF SetPending, StoreRecord
    <3>4. Announced'
      BY <2>1, <3>1, <3>3 DEF Announced, Appending
    <3>5. run'.cache[run.day] # Unfetched
      BY <2>1, <3>1, GuardTyped, UsageType DEF Unfetched, Answer, Nothing, Partial
    <3>6. WindowHeld'
      BY <2>1, <3>1, <3>5 DEF WindowHeld, Appending, Uncached
    <3> QED
      BY <1>1, <2>1, <3>1, <3>2, <3>3, <3>4, <3>6 DEF GuardStep, Appending
  <2> QED
    BY <1>3, <2>2, <2>3 DEF FetchDay, RequestFails
<1> QED
  BY <1>2, <1>3 DEF ImportDay


LEMMA WrittenRowsAreRows ==
  ASSUME TypeOK, Complete(Records), NEW s \in ActiveStats(run.day), run.day \in Day
  PROVE  NewRows[s] # NoRow
<1>1. Records.amount \in Amount /\ Records.amount # 0
  BY AmountAssumption
     DEF TypeOK, Complete, Records, RunRecord, Answer, Nothing, Partial, Unfetched
<1>2. NewRows[s] = [state |-> Records.amount, sum |-> run.base[s] + Records.amount]
  BY DEF NewRows, ActiveStats
<1> QED
  BY <1>1, <1>2 DEF NoRow

\* A day that is appended always reads back: its rows arrive in time, and none is after it.
LEMMA AppendedDayReadsBack ==
  ASSUME GuardInv, Recoverable, RowsInReach, VerifyTimesOut, Appending
  PROVE  FALSE
<1>1. run.pc = "verify" /\ ~ReadsBack /\ run.day \in Day /\ Complete(Records)
  BY GuardTyped, SumsTyped DEF VerifyTimesOut, At, TypeInv, DayAtHand, RunInv, DayInHand
<1>2. queue = <<>>
  BY GuardTyped DEF VerifyTimesOut, TypeOK, Budget, Recoverable, Undisturbed
<1>3. \A s \in ActiveStats(run.day) : rows[s][run.day] = NewRows[s]
  BY <1>1, <1>2 DEF GuardInv, InHand
<1>4. PICK s \in ActiveStats(run.day) : Latest(s) # run.day
  BY <1>1, <1>3 DEF ReadsBack
<1>5. s \in Stat /\ HasRow(s, run.day)
  BY <1>1, <1>3, GuardTyped, WrittenRowsAreRows DEF ActiveStats, HasRow
<1>6. \A e \in Day : HasRow(s, e) => e <= run.day
  <2>1. /\ Follows(store, run.day) /\ store.lastWritten <= store.marker
        /\ \A e \in Day : NewRow(s, e) => e = run.day
    BY <1>1, <1>5, GuardTyped, SumsTyped
       DEF RunInv, DayInHand, NewRowsKnown, Appending, StoreInOrder
  <2> QED
    BY <1>1, <2>1, GuardTyped, SumsTyped, HistoryNumbers DEF Follows, NewRow
<1> DEFINE S == {e \in Day : HasRow(s, e)}
<1>7. MaxOf(S) \in S /\ \A e \in S : e <= MaxOf(S)
  <2>1. S # {} /\ S \in SUBSET Day
    BY <1>1, <1>5
  <2> QED
    BY <2>1, MaxOfDays
<1>8. MaxOf(S) = run.day
  <2>1. MaxOf(S) \in Day /\ MaxOf(S) <= run.day /\ run.day <= MaxOf(S)
    BY <1>1, <1>5, <1>6, <1>7
  <2>2. MaxOf(S) \in Int /\ run.day \in Int
    BY <1>1, <2>1, MaxDayAssumption DEF Day
  <2> QED
    BY <2>1, <2>2
<1> QED
  BY <1>4, <1>8 DEF Latest

GuardSafe ==
  Expected' /\ NewIsPending' /\ Announced' /\ CompleteStays' /\ WindowHeld' /\ InHand'

LEMMA RunStepGuard ==
  ASSUME GuardInv, Recoverable, RowsInReach, RunStep, ~VerifyPasses
  PROVE  GuardStep
<1>1. ~Backfill
  BY GuardTyped, SumsTyped DEF Backfill, BackfillSkips, BackfillBegins, At, RunInOrder, NoBackfill
<1> QED
  BY <1>1, GuardGuard, RetentionGuard, ReviseGuard, WalkGuard, RewriteGuard, WriteGuard,
     ImportDayGuard DEF RunStep

LEMMA RunStepSafe ==
  ASSUME GuardInv, Recoverable, RowsInReach, SumsInv', RunStep, ~VerifyPasses
  PROVE  GuardSafe
<1>1. GuardStep
  BY RunStepGuard
<1>2. /\ TypeOK' /\ RunInOrder' /\ RunInv'
  BY DEF SumsInv, Steady, HistoryInv, PastInv, TypeInv
<1>3. Expected'
  BY <1>1 DEF GuardInv, Expected, GuardStep, Active, HasRow
<1>4. CompleteStays'
  <2>1. \A d \in Day : Complete(run'.cache[d]) => Complete(amber[d])
    BY <1>1, GuardTyped DEF GuardStep, CompleteStays, Refetched, Complete, Unfetched, Nothing
  <2>2. ASSUME NEW s \in Stat, NEW d \in Day, NewRow(s, d)'
        PROVE  run'.cache[d] = Unfetched \/ Complete(run'.cache[d])
    <3>1. NewRow(s, d)
      BY <1>1, <2>2 DEF GuardStep, NewRow, HasRow
    <3>2. Complete(amber[d]) /\ (~Uncached(d) => Complete(run.cache[d]))
      BY <3>1, GuardTyped DEF CompleteStays, NewRow
    <3> QED
      BY <1>1, <3>1, <3>2 DEF GuardStep, Refetched, Uncached
  <2>3. \A s \in Stat, d \in Day : HasRow(s, d)' => Complete(amber[d])
    BY <1>1, GuardTyped DEF GuardStep, CompleteStays, HasRow
  <2>4. amber' = amber
    BY <1>1 DEF GuardStep
  <2>5. \A s \in Stat, d \in Day : HasRow(s, d)' =>
          Complete(amber[d])' /\ ((NewRow(s, d) /\ ~Uncached(d))' => Complete(run.cache[d])')
    BY <2>2, <2>3, <2>4 DEF Complete, Uncached
  <2>6. \A d \in Day : Complete(run.cache[d])' => Complete(amber[d])'
    BY <2>1, <2>4 DEF Complete
  <2> QED
    BY <2>5, <2>6 DEF CompleteStays, Complete, Uncached, NewRow, HasRow
<1>5. NewIsPending'
  <2> SUFFICES ASSUME NEW s \in Stat, NEW d \in Day, NewRow(s, d)'
               PROVE  /\ d = store'.pending /\ Follows(store', d)
                      /\ "estimated" \notin Quality
    BY DEF NewIsPending
  <2>1. NewRow(s, d)
    BY <1>1 DEF NewRow, HasRow, GuardStep
  <2>2. d = store.pending /\ Follows(store, d)
    BY <2>1 DEF GuardInv, NewIsPending
  <2>3. "estimated" \notin Quality
    <3> SUFFICES ASSUME "estimated" \in Quality
                 PROVE  FALSE
      OBVIOUS
    <3>1. run.pc = "verify" /\ Appending
      BY <2>1 DEF GuardInv, NewIsPending
    <3>2. VerifyTimesOut
      BY <3>1
         DEF RunStep, Guard, GuardRefuses, GuardAccepts, GuardSkipped, RetentionStep,
             RetentionDone, RetentionFails, Revise, FetchRevisions, RevisionsAlreadyChecked,
             CompareRevisions, RevisionsChecked, Walk, WalkStart, WalkFetch, WalkLeading,
             WalkSkipsLeading, WalkPatience, WalkWrite, WalkDone, NothingToWalk, Rewrite,
             ResumeTail, RewriteSkip, RewriteFetch, RewriteUnavailable, RewritePatience,
             RewriteWrite, RewriteDone, RewriteDay, RewriteAt, WalkDay, WalkAt, Write,
             WriteRefused, WriteRows, TrackRevision, Advance, Backfill, BackfillSkips,
             BackfillBegins, ImportDay, PlanAppend, PlanReimport, PlanRefused, FetchDay, At
    <3> QED
      BY <3>1, <3>2, AppendedDayReadsBack
  <2>4. CASE run'.pc = "write" /\ Appending'
    BY <1>1, <1>2, <2>4, <2>3 DEF GuardStep, Announced, RunInv, NewRowsKnown, DayInHand, Appending
  <2>5. CASE ~(run'.pc = "write" /\ Appending')
    <3>1. d = store'.pending
      BY <1>1, <2>1, <2>2, <2>5 DEF GuardStep
    <3>2. CASE store'.marker = store.marker
      BY <2>2, <2>3, <3>1, <3>2 DEF Follows
    <3>3. CASE run'.pc = "walk"
      BY <1>2, <2>3, <3>1, <3>3 DEF RunInv, NewRowsKnown, RunInOrder, WalkFollows
    <3> QED
      BY <1>1, <3>2, <3>3 DEF GuardStep
  <2> QED
    BY <2>4, <2>5
<1>6. InHand'
  BY <1>1, GuardTyped, SumsQueue, WriteRowsQueue DEF GuardStep, InHand
<1> QED
  BY <1>1, <1>3, <1>4, <1>5, <1>6 DEF GuardSafe, GuardStep

LEMMA VerifyPassesSafe ==
  ASSUME GuardInv, Recoverable, RowsInReach, SumsInv', VerifyPasses
  PROVE  GuardSafe
<1>1. /\ UNCHANGED <<rows, amber>> /\ run.pc = "verify" /\ ReadsBack /\ run.day \in Day
      /\ store' = MarkImported(store, run.day) /\ Complete(Records)
  BY GuardTyped, SumsTyped
     DEF VerifyPasses, environment, table, At, TypeInv, DayAtHand, RunInv, DayInHand
<1>2. /\ run'.pc = "track" /\ run'.day = run.day /\ run'.caller = run.caller
      /\ run'.cache = run.cache /\ run'.windowEnd = run.windowEnd
  BY GuardTyped DEF VerifyPasses, Goto, RunRecord
<1>3. /\ store'.lastWritten = Later(store.lastWritten, run.day) /\ store'.since = store.since
      /\ store.lastWritten \in Int /\ run.day \in Int /\ \A d \in Day : d \in Int
  BY <1>1, GuardTyped, SumsTyped, HistoryNumbers DEF MarkImported, StoreRecord
<1>4. Expected'
  <2>1. CASE store'.lastWritten = store.lastWritten
    BY <1>1, <1>3, <2>1 DEF GuardInv, Expected, Active, HasRow
  <2>2. CASE store'.lastWritten = run.day
    <3>1. \A s \in ActiveStats(run.day) : HasRow(s, run.day)
      BY <1>1, GuardTyped, WrittenRowsAreRows DEF ReadsBack, HasRow
    <3> QED
      BY <1>1, <1>3, <2>2, <3>1 DEF Expected, Active, ActiveStats, HasRow
  <2> QED
    BY <1>3, <2>1, <2>2 DEF Later
<1>5. NewIsPending'
  <2> SUFFICES ASSUME NEW s \in Stat, NEW d \in Day, NewRow(s, d)'
               PROVE  FALSE
    BY DEF NewIsPending
  <2>1. run.caller = "rewrite"
    BY <1>2 DEF SumsInv, RunInv, NewRowsKnown
  <2>2. NewRow(s, d)
    BY <1>1, <1>3 DEF NewRow, HasRow, Later
  <2>3. "estimated" \in Quality
    BY <1>1, <2>1, GuardTyped, SumsTyped DEF RunInv, RewriteFirst, Rewriting, Writing, TableInv, TailToEnd
  <2> QED
    BY <2>1, <2>2, <2>3 DEF GuardInv, NewIsPending, Appending
<1>6. Announced' /\ WindowHeld' /\ InHand'
  BY <1>1, <1>2, GuardTyped DEF Announced, InHand, WindowHeld, Uncached, Writing
<1>7. CompleteStays'
  <2>1. \A s \in Stat, d \in Day : NewRow(s, d)' => NewRow(s, d)
    BY <1>1, <1>3 DEF NewRow, HasRow, Later
  <2> QED
    BY <1>1, <1>2, <2>1, GuardTyped DEF CompleteStays, HasRow, Uncached
<1> QED
  BY <1>4, <1>5, <1>6, <1>7 DEF GuardSafe


\* What one import of the recorder does to the table.
LEMMA CommitAdds ==
  ASSUME QueueInOrder, NEW s \in Stat, Commit(s)
  PROVE  /\ UNCHANGED <<amber, mode, store, run>> /\ NewRows' = NewRows
         /\ \/ rows' = rows
            \/ /\ run.pc = "verify" /\ s \in ActiveStats(run.day) /\ run.day \in Day
               /\ Complete(Records) /\ NewRows[s] # NoRow
               /\ rows' = [rows EXCEPT ![s][run.day] = NewRows[s]]
         /\ InVerification(1) /\ run.pc = "verify" => rows'[s][run.day] = NewRows[s]
<1> DEFINE b == queue[1]
<1>1. /\ UNCHANGED <<amber, mode, store, run>> /\ queue \in Seq(Batch) /\ queue # <<>>
      /\ 1 \in 1..Len(queue) /\ b \in Batch
      /\ s \in b.todo /\ rows' = [rows EXCEPT ![s][b.day] = b.rows[s]]
  <2>1. queue \in Seq(Batch) /\ queue # <<>>
    BY DEF QueueInOrder, Commit, TypeOK
  <2>2. Head(queue) = b /\ 1 \in 1..Len(queue) /\ b \in Batch
    BY <2>1
  <2> QED
    BY <2>1, <2>2 DEF Commit, environment
<1>2. NewRows' = NewRows
  BY <1>1 DEF NewRows, Active, Records
<1>3. NoOp(rows, b) \/ InVerification(1)
  BY <1>1 DEF QueueInOrder, QueueSteady
<1>4. rows \in [Stat -> [Day -> Row]] /\ b.day \in Day
  BY <1>1 DEF QueueInOrder, TypeOK, Batch
<1> HIDE DEF b
<1>5. rows'[s][b.day] = b.rows[s]
  BY <1>1, <1>4
<1>6. CASE InVerification(1)
  <2>1. run.pc = "verify" /\ b.day = run.day /\ b.rows = NewRows /\ s \in ActiveStats(run.day)
    BY <1>1, <1>6 DEF InVerification, b
  <2>2. Complete(Records)
    BY <2>1 DEF QueueInOrder
  <2> QED
    BY <1>1, <1>2, <1>4, <1>5, <2>1, <2>2, WrittenRowsAreRows DEF QueueInOrder
<1>7. CASE ~InVerification(1)
  <2>1. rows[s][b.day] = b.rows[s]
    BY <1>1, <1>3, <1>7 DEF NoOp
  <2>2. rows' = rows
    BY <1>1, <1>4, <2>1
  <2> QED
    BY <1>1, <1>2, <1>7, <2>2
<1> QED
  BY <1>6, <1>7

\* What is still to come from the recorder stays in the queue.
LEMMA CommitInHand ==
  ASSUME QueueInOrder, InHand, NEW s \in Stat, Commit(s)
  PROVE  InHand'
<1>0. UNCHANGED <<store, run>> /\ NewRows' = NewRows
  BY CommitAdds
<1> SUFFICES ASSUME run.pc = "verify", NEW t \in ActiveStats(run.day),
                    rows'[t][run.day] # NewRows[t]
             PROVE  /\ queue' # <<>> /\ InVerification(Len(queue))'
                    /\ t \in queue'[Len(queue')].todo
  BY <1>0 DEF InHand, ActiveStats, Active
<1>1. t \in Stat /\ run.day \in Day
  BY DEF ActiveStats, QueueInOrder
<1>2. rows[t][run.day] # NewRows[t]
  <2>1. rows \in [Stat -> [Day -> Row]]
    BY DEF QueueInOrder, TypeOK
  <2>2. rows' = rows \/ rows' = [rows EXCEPT ![s][run.day] = NewRows[s]]
    BY CommitAdds
  <2> QED
    BY <1>1, <2>1, <2>2
<1>3. queue # <<>> /\ InVerification(Len(queue)) /\ t \in queue[Len(queue)].todo
  BY <1>2 DEF InHand
<1>4. queue \in Seq(Batch) /\ (Len(queue) = 1 \/ Len(queue) > 1)
  <2>1. queue \in Seq(Batch) /\ Len(queue) \in Nat /\ Len(queue) > 0
    BY <1>3 DEF QueueInOrder, TypeOK
  <2>2. \A n \in Nat : n > 0 => n = 1 \/ n > 1
    OBVIOUS
  <2> QED
    BY <2>1, <2>2
<1>5. Len(queue) = 1 => t # s
  BY <1>3, CommitAdds
<1>6. queue' = Tail(queue) \/ queue' = [queue EXCEPT ![1].todo = @ \ {s}]
  BY DEF Commit
<1>7. CASE Len(queue) = 1
  <2>1. queue' = [queue EXCEPT ![1].todo = @ \ {s}]
    <3>1. Head(queue).todo # {s}
      BY <1>3, <1>4, <1>5, <1>7
    <3> QED
      BY <3>1 DEF Commit
  <2>2. Len(queue') = 1 /\ queue'[1] = [queue[1] EXCEPT !.todo = @ \ {s}]
    BY <1>4, <1>7, <2>1
  <2>3. queue[1] \in Batch
    <3>1. 1 \in 1..Len(queue)
      BY <1>7
    <3> QED
      BY <1>4, <3>1
  <2>4. /\ queue'[1].day = queue[1].day /\ queue'[1].rows = queue[1].rows
        /\ queue'[1].todo = queue[1].todo \ {s}
    BY <2>2, <2>3 DEF Batch
  <2>5. queue' # <<>>
    BY <2>2
  <2> QED
    BY <1>0, <1>3, <1>5, <1>7, <2>2, <2>4, <2>5 DEF InVerification, ActiveStats, Active
<1>8. CASE Len(queue) > 1
  <2>1. Len(queue') > 0 /\ queue'[Len(queue')] = queue[Len(queue)]
    <3>1. CASE queue' = Tail(queue)
      BY <1>4, <1>8, <3>1
    <3>2. CASE queue' = [queue EXCEPT ![1].todo = @ \ {s}]
      BY <1>4, <1>8, <3>2
    <3> QED
      BY <1>6, <3>1, <3>2
  <2>2. queue' # <<>>
    BY <2>1
  <2> QED
    BY <1>0, <1>3, <2>1, <2>2 DEF InVerification, ActiveStats, Active
<1> QED
  BY <1>4, <1>7, <1>8

LEMMA CommitSafe ==
  ASSUME GuardInv, Recoverable, RowsInReach, NEW s \in Stat, Commit(s)
  PROVE  GuardSafe
<1>1. /\ UNCHANGED <<amber, mode, store, run>> /\ NewRows' = NewRows
      /\ rows \in [Stat -> [Day -> Row]]
  BY SumsQueue, CommitAdds, GuardTyped DEF TypeOK
<1>2. ASSUME NEW t \in Stat, NEW d \in Day
      PROVE  /\ HasRow(t, d) => HasRow(t, d)'
             /\ HasRow(t, d)' => \/ HasRow(t, d)
                                 \/ d = run.day /\ run.pc = "verify" /\ Complete(Records)
  BY <1>1, SumsQueue, CommitAdds, GuardTyped DEF HasRow
<1>3. Expected'
  BY <1>1, <1>2, GuardTyped DEF GuardInv, Expected, Active, StoreRecord
<1>4. Announced' /\ WindowHeld'
  BY <1>1, GuardTyped DEF Announced, WindowHeld, Appending, Uncached
<1>5. CompleteStays'
  <2>1. \A t \in Stat, d \in Day : NewRow(t, d)' =>
          NewRow(t, d) \/ (d = run.day /\ Complete(Records))
    BY <1>1, <1>2 DEF NewRow
  <2> QED
    BY <1>1, <1>2, <2>1, GuardTyped DEF CompleteStays, Records, Uncached
<1>6. NewIsPending'
  <2> SUFFICES ASSUME NEW t \in Stat, NEW d \in Day, NewRow(t, d)'
               PROVE  /\ d = store.pending /\ Follows(store, d)
                      /\ "estimated" \in Quality => run.pc = "verify" /\ Appending
    BY <1>1 DEF NewIsPending, Follows, Appending
  <2>1. CASE NewRow(t, d)
    BY <2>1 DEF GuardInv, NewIsPending
  <2>2. CASE ~NewRow(t, d)
    <3>1. d > store.lastWritten /\ d = run.day /\ run.pc = "verify"
      BY <1>1, <1>2, <2>2 DEF NewRow
    <3>2. Appending
      BY <3>1, GuardTyped, SumsTyped, HistoryNumbers
         DEF Appending, RunInv, DayInHand, Writing, RunRecord
    <3> QED
      BY <3>1, <3>2, GuardTyped, SumsTyped DEF Announced, RunInv, DayInHand, Appending
  <2> QED
    BY <2>1, <2>2
<1>7. InHand'
  BY GuardTyped, SumsQueue, CommitInHand DEF GuardInv
<1> QED
  BY <1>3, <1>4, <1>5, <1>6, <1>7 DEF GuardSafe

LEMMA OthersSafe ==
  ASSUME GuardInv, Recoverable, LoadedInTime', [Next]_vars, ~RunStep, \A s \in Stat : ~Commit(s)
  PROVE  GuardSafe
<1>1. rows' = rows /\ (store' = store \/ LoadChannels)
  BY OthersKeepRows
<1>2. /\ store'.lastWritten = store.lastWritten /\ store'.pending = store.pending
      /\ store'.marker = store.marker
  BY <1>1, GuardTyped DEF LoadChannels, StoreRecord
<1>3. \A d \in Day : Complete(amber[d]) => Complete(amber'[d])
  <2>1. ASSUME NEW e \in Day, Publish(e)
        PROVE  \A d \in Day : Complete(amber[d]) => Complete(amber'[d])
    BY <2>1, GuardTyped DEF Publish, TypeOK
  <2>2. CASE ~\E e \in Day : Publish(e)
    <3>1. CASE LoadChannels
      BY <3>1 DEF LoadChannels
    <3>2. CASE ~LoadChannels
      BY <2>2, <3>2, GuardTyped
         DEF Next, vars, ScheduledRun, RunNow, Begin, User, StartBackfill, StartImportDay,
             AddChannels, SetMode, Environment, Tick, UnexpectedChannel, Crash, environment, Recoverable
    <3> QED
      BY <3>1, <3>2
  <2> QED
    BY <2>1, <2>2
<1>4. \/ run' = run /\ queue' = queue
      \/ Stop /\ budget.crash > 0
      \/ run.pc = "idle" /\ run'.pc = "guard" /\ run'.cache = run.cache
  <2>1. CASE ScheduledRun \/ RunNow
    BY <2>1, GuardTyped DEF ScheduledRun, RunNow, Begin, At, RunRecord
  <2>2. CASE User
    <3>1. ASSUME NEW day, StartImportDay(day)
          PROVE  run.pc = "idle" /\ run'.pc = "guard" /\ run'.cache = run.cache
      BY <3>1, GuardTyped DEF StartImportDay, At, RunRecord
    <3>2. ASSUME NEW from, NEW upto, StartBackfill(from, upto)
          PROVE  FALSE
      BY <3>2 DEF StartBackfill, Serve, Recoverable, Undisturbed
    <3> QED
      BY <2>2, <3>1, <3>2 DEF User, AddChannels, LoadChannels, SetMode, table
  <2>3. CASE Environment \/ UNCHANGED vars
    BY <2>3 DEF Environment, Tick, Publish, UnexpectedChannel, Crash, table, vars
  <2> QED
    BY <2>1, <2>2, <2>3 DEF Next
<1>5. \/ store' = store
      \/ run.pc = "idle" /\ run' = run
  BY <1>1 DEF LoadChannels, At
<1>6. \A d \in Day : run'.cache[d] = run.cache[d] \/ run'.cache[d] = Unfetched
  BY <1>4 DEF Stop, Idle
<1>7. CompleteStays'
  <2>1. \A s \in Stat, d \in Day : NewRow(s, d)' => NewRow(s, d)
    BY <1>1, <1>2 DEF NewRow, HasRow
  <2> QED
    BY <1>1, <1>3, <1>6, <2>1, GuardTyped DEF CompleteStays, HasRow, Uncached, Complete, Unfetched
<1>8. Announced' /\ WindowHeld'
  BY <1>2, <1>4, GuardTyped DEF Announced, WindowHeld, Appending, Uncached, Writing, Stop, Idle
<1>9. NewIsPending'
  <2>1. \A s \in Stat, d \in Day : NewRow(s, d)' <=> NewRow(s, d)
    BY <1>1, <1>2 DEF NewRow, HasRow
  <2>2. \A d : Follows(store, d)' <=> Follows(store, d)
    BY <1>2 DEF Follows
  <2>3. budget.crash > 0 => "estimated" \notin Quality
    BY GuardTyped DEF Recoverable, TypeOK, Budget
  <2> QED
    BY <1>2, <1>4, <2>1, <2>2, <2>3 DEF GuardInv, NewIsPending, Appending
<1>10. InHand'
  BY <1>1, <1>4, <1>5 DEF GuardInv, InHand, InVerification, ActiveStats, Active, NewRows, Records, Stop, Idle
<1>11. Expected'
  <2>1. CASE store' = store
    BY <1>1, <2>1 DEF GuardInv, Expected, Active, HasRow
  <2>2. CASE LoadChannels
    <3>1. ASSUME NEW s \in Stat, store.lastWritten # NoDay, store'.since[s] <= store.lastWritten
          PROVE  store.since[s] <= store.lastWritten
      <4>1. store'.since[s] = store.since[s] \/ store.lastWritten < store'.since[s]
        BY <2>2, <3>1, GuardTyped, LoadsInTime DEF LoadedInTime
      <4>2. store.lastWritten \in Int /\ store'.since[s] \in Int
        BY <2>2, GuardTyped, SumsTyped, HistoryNumbers, LoadedFrom DEF TypeOK
      <4> QED
        BY <3>1, <4>1, <4>2
    <3> QED
      BY <1>1, <1>2, <3>1 DEF GuardInv, Expected, Active, HasRow
  <2> QED
    BY <1>1, <2>1, <2>2
<1> QED
  BY <1>7, <1>8, <1>9, <1>10, <1>11 DEF GuardSafe

LEMMA GuardNext ==
  ASSUME GuardInv, Recoverable, RowsInReach, LoadedInTime', [Next]_vars
  PROVE  GuardInv'
<1>1. SumsInv'
  BY SumsNext DEF GuardInv, Recoverable, RowsInReach
<1>2. CASE VerifyPasses
  BY <1>1, <1>2, VerifyPassesSafe DEF GuardSafe, GuardInv
<1>3. CASE RunStep /\ ~VerifyPasses
  BY <1>1, <1>3, RunStepSafe DEF GuardSafe, GuardInv
<1>4. CASE ~RunStep
  BY <1>1, <1>4, CommitSafe, OthersSafe DEF GuardSafe, GuardInv
<1> QED
  BY <1>2, <1>3, <1>4

LEMMA GuardInit ==
  ASSUME Init
  PROVE  GuardInv
<1>1. SumsInv
  BY SumsInit
<1>2. /\ \A s \in Stat, d \in Day : ~HasRow(s, d)
      /\ run.pc = "idle" /\ \A d \in Day : run.cache[d] = Unfetched
      /\ store.lastWritten = NoDay
  BY DEF Init, HasRow, EmptyStore, Idle
<1>3. Expected /\ NewIsPending /\ CompleteStays
  BY <1>2 DEF Expected, NewIsPending, NewRow, CompleteStays, Complete, Unfetched
<1>4. Announced /\ WindowHeld /\ InHand
  BY <1>2 DEF Announced, WindowHeld, InHand, Writing
<1> QED
  BY <1>1, <1>3, <1>4 DEF GuardInv

\* The last row of a statistic: at last_written or on the pending day, when guard 1 wants it.
LEMMA GuardHolds ==
  ASSUME GuardInv
  PROVE  ~GuardStops
<1>1. /\ \A e \in Day : e \in Int /\ e > 0
      /\ store.lastWritten \in Int /\ store.marker \in Int /\ store.lastWritten <= store.marker
      /\ store.lastWritten \in Day \cup {NoDay} /\ NoDay = 0
      /\ store.marker \in Day \cup {NoDay}
  BY GuardTyped, SumsTyped, HistoryNumbers, MaxDayAssumption DEF StoreInOrder, Day, StoreRecord, NoDay
<1>2. ~MarkerProblem
  <2>1. \A d \in Day : store.status[d] = "imported" => d <= store.lastWritten
    BY GuardTyped, SumsTyped DEF TableInv, RowsOnImported
  <2>2. ASSUME store.lastWritten # NoDay, NEW d \in (store.lastWritten + 1)..store.marker
        PROVE  store.status[d] \in Skipped
    <3>1. d \in Day /\ store.lastWritten \in Day /\ store.lastWritten <= d /\ d <= store.marker
      BY <1>1, <2>2, MaxDayAssumption DEF Day
    <3>2. Settled(store, store.lastWritten)
      BY <2>2, <3>1, GuardTyped, SumsTyped DEF StoreInOrder, Settled, OutcomeOf
    <3>3. Settled(store, d)
      BY <3>1, <3>2, GuardTyped, SumsTyped DEF StoreInOrder
    <3>4. store.status[d] # "imported"
      BY <1>1, <2>1, <2>2, <3>1
    <3> QED
      BY <3>3, <3>4 DEF Settled, OutcomeOf
  <2> QED
    BY <1>1, <2>1, <2>2 DEF MarkerProblem
<1>3. ASSUME NEW s \in Stat, \A d \in Day : ~NewRow(s, d)
      PROVE  Latest(s) = ExpectedEnd(s)
  <2> DEFINE S == {d \in Day : HasRow(s, d)}
  <2>1. Latest(s) = MaxOf(S) /\ S \in SUBSET Day
    BY DEF Latest
  <2>2. \A d \in S : d <= store.lastWritten
    BY <1>1, <1>3 DEF NewRow
  <2>3. \A d \in Day : HasRow(s, d) => store.since[s] <= d
    BY GuardTyped, SumsTyped DEF RowsAfterStart, NoRowBeforeStart, Active
  <2>4. S # {} => MaxOf(S) \in S /\ \A d \in S : d <= MaxOf(S)
    BY MaxOfDays
  <2>5. S = {} => MaxOf(S) = NoDay
    BY DEF MaxOf
  <2>6. store.since[s] \in Int
    BY GuardTyped, MaxDayAssumption DEF StoreRecord, Absent
  <2>7. CASE store.lastWritten # NoDay /\ Active(s, store.lastWritten)
    <3>1. store.lastWritten \in S
      BY <1>1, <2>7 DEF GuardInv, Expected
    <3>2. /\ MaxOf(S) \in S /\ MaxOf(S) \in Int /\ store.lastWritten \in Int
          /\ store.lastWritten <= MaxOf(S)
      BY <1>1, <2>1, <2>4, <3>1
    <3>3. MaxOf(S) <= store.lastWritten
      BY <2>2, <3>2
    <3>4. MaxOf(S) = store.lastWritten
      BY <3>2, <3>3
    <3> QED
      BY <2>1, <2>7, <3>4 DEF ExpectedEnd
  <2>8. CASE ~(store.lastWritten # NoDay /\ Active(s, store.lastWritten))
    <3>1. S = {}
      BY <1>1, <2>2, <2>3, <2>6, <2>8 DEF Active
    <3> QED
      BY <2>1, <2>5, <2>8, <3>1 DEF ExpectedEnd
  <2> QED
    BY <2>7, <2>8
<1>4. CASE \A s \in Stat, d \in Day : ~NewRow(s, d)
  BY <1>2, <1>3, <1>4 DEF GuardStops, StatisticsAgree
<1>5. ASSUME NEW t \in Stat, NEW d \in Day, NewRow(t, d)
      PROVE  PendingExplains
  <2>1. d = store.pending /\ Follows(store, d)
    BY <1>5 DEF GuardInv, NewIsPending
  <2>2. store.pending # NoDay /\ store.pending = NextDay
    BY <1>1, <2>1 DEF NextDay, Follows
  <2>3. ASSUME NEW s \in Stat, NEW e \in Day, NewRow(s, e)
        PROVE  Latest(s) = store.pending /\ Active(s, store.pending)
    <3> DEFINE S == {c \in Day : HasRow(s, c)}
    <3>1. e = d /\ HasRow(s, d) /\ d > store.lastWritten
      BY <1>5, <2>3, GuardTyped, SumsTyped DEF TableInv, OneNewDay, NewRow
    <3>2. \A c \in S : c <= d
      BY <1>1, <1>5, <3>1, GuardTyped, SumsTyped DEF TableInv, OneNewDay, NewRow
    <3>3. MaxOf(S) \in S /\ \A c \in S : c <= MaxOf(S)
      <4>1. S \in SUBSET Day /\ S # {}
        BY <3>1
      <4> QED
        BY <4>1, MaxOfDays
    <3>4. MaxOf(S) = d
      BY <1>1, <3>1, <3>2, <3>3
    <3>5. Active(s, d)
      BY <3>1, GuardTyped, SumsTyped DEF RowsAfterStart, NoRowBeforeStart
    <3> QED
      BY <2>1, <3>4, <3>5 DEF Latest
  <2> QED
    BY <1>3, <2>2, <2>3 DEF PendingExplains
<1> QED
  BY <1>2, <1>4, <1>5 DEF GuardStops

\* However a run ended, guard 1 lets the next one start: the rows of every channel end at
\* last_written, or on the pending day, which was announced before its first row was
\* imported and follows the history (_async_guard1, async_append_day).
THEOREM GuardAlwaysPasses ==
  ASSUME Recoverable
  PROVE  Spec /\ []RowsInReach /\ []LoadedInTime => []GuardNeverLocksOut
<1>1. Init => GuardInv
  BY GuardInit
<1>2. GuardInv /\ RowsInReach /\ LoadedInTime' /\ [Next]_vars => GuardInv'
  BY GuardNext
<1>3. GuardInv => GuardNeverLocksOut
  BY GuardHolds DEF GuardNeverLocksOut
<1> QED
  BY <1>1, <1>2, <1>3, PTL DEF Spec

-----------------------------------------------------------------------------
(* The statistics of a day match.  Without import_day: a day it writes again and does not *)
(* finish is left as it is until the next run (the README says so).                       *)

Automatic == Undisturbed /\ "import_day" \notin Services

Match(d) == \A s, t \in ActiveStats(d) : rows[s][d].state = rows[t][d].state

\* The days that match: all imported ones but the one a rewrite is at, which does so as
\* soon as its rows have been read back.
DaysMatch ==
  /\ \A d \in Day : store.status[d] = "imported" /\ ~(store.tail # NoTail /\ d = store.tail.next)
       => Match(d)
  /\ run.pc \in {"track", "advance"} => Match(run.day)

NotByHand == run.pc # "fetch_day" /\ run.caller \in {"walk", "rewrite"}

MatchInv == SumsInv /\ DaysMatch /\ NotByHand

MatchSafe == DaysMatch' /\ NotByHand'

\* A save that moves neither a rewrite nor a channel's start and adds no imported day.
NoneImported(old, new) ==
  /\ new.tail = old.tail /\ new.since = old.since
  /\ \A d \in Day : new.status[d] = "imported" => old.status[d] = "imported"

LEMMA SkippedNotImported ==
  ASSUME NEW st \in StoreRecord, NoneImported(store, st), NEW first, NEW last, NEW how \in Skipped
  PROVE  NoneImported(store, MarkSkipped(st, first, last, how))
<1> DEFINE new == MarkSkipped(st, first, last, how)
<1>1. /\ new.tail = st.tail /\ new.since = st.since
      /\ new.status = [d \in Day |-> IF d \in first..last THEN how ELSE st.status[d]]
  BY DEF MarkSkipped, StoreRecord
<1> HIDE DEF new
<1> QED
  BY <1>1 DEF NoneImported, Skipped, new

LEMMA MatchTyped ==
  ASSUME MatchInv
  PROVE  /\ SumsInv /\ store \in StoreRecord /\ run \in RunRecord /\ TypeOK
         /\ SameBooks(store, store) /\ NoneImported(store, store) /\ NotByHand
         /\ \A st : SameBooks(store, st) => NoneImported(store, st)
BY SumsTyped DEF MatchInv, NoneImported, SameBooks

LEMMA MatchKept ==
  ASSUME MatchInv, UNCHANGED rows, NoneImported(store, store'),
         run'.pc \notin {"track", "advance", "fetch_day"}, run'.caller \in {"walk", "rewrite"}
  PROVE  MatchSafe
BY DEF MatchSafe, MatchInv, DaysMatch, NotByHand, NoneImported, Match, ActiveStats, Active

\* A step between the start of a run and the writing of a day.
LEMMA MatchMoves ==
  ASSUME MatchInv, UNCHANGED rows, NoneImported(store, store'),
         \/ Stop
         \/ /\ run'.pc \notin {"track", "advance", "fetch_day"}
            /\ run'.caller \in {run.caller, "walk", "rewrite"}
  PROVE  MatchSafe
BY MatchKept DEF MatchInv, NotByHand, Stop, Idle

LEMMA EarlyMatch ==
  ASSUME MatchInv, Automatic, Guard \/ RetentionStep
  PROVE  MatchSafe
<1>1. UNCHANGED rows /\ NoneImported(store, store')
  BY MatchTyped, SettersKeepBooks
     DEF Guard, GuardRefuses, GuardAccepts, GuardSkipped, RetentionStep, RetentionDone,
         RetentionFails, table
<1>2. \/ Stop
      \/ run'.pc \notin {"track", "advance", "fetch_day"} /\ run'.caller = run.caller
  BY MatchTyped
     DEF Guard, GuardRefuses, GuardAccepts, GuardSkipped, RetentionStep, RetentionDone,
         RetentionFails, Goto, GoOn, RunRecord
<1> QED
  BY <1>1, <1>2, MatchMoves

LEMMA ReviseMatch ==
  ASSUME MatchInv, Automatic, Revise
  PROVE  MatchSafe
<1>1. UNCHANGED rows
  BY DEF Revise, FetchRevisions, RevisionsAlreadyChecked, CompareRevisions, RevisionsChecked, table
<1>2. \/ Stop
      \/ run'.pc \notin {"track", "advance", "fetch_day"} /\ run'.caller = run.caller
  BY MatchTyped
     DEF Revise, FetchRevisions, RevisionsAlreadyChecked, CompareRevisions, RevisionsChecked,
         RequestFails, Goto, At, RunRecord
<1>3. CASE FetchRevisions \/ RevisionsAlreadyChecked \/ RevisionsChecked
  <2>1. NoneImported(store, store')
    BY <1>3, MatchTyped, SettersKeepBooks
       DEF FetchRevisions, RevisionsAlreadyChecked, RevisionsChecked
  <2> QED
    BY <1>1, <1>2, <2>1, MatchMoves
<1>4. CASE CompareRevisions
  <2>1. store.tail = NoTail
    <3>1. run.pc = "compare"
      BY <1>4 DEF CompareRevisions, At
    <3> QED
      BY <3>1, MatchTyped, NoTailOutside DEF Rewriting, Writing
  <2>2. \E days : \/ store' = DropRevisions(store, days)
                  \/ \E tail : store' = SetTail(DropRevisions(store, days), tail)
    <3>1. \A days : DropRevisions(store, days).tail = NoTail
      BY <2>1, MatchTyped DEF DropRevisions, StoreRecord
    <3> QED
      BY <1>4, <3>1 DEF CompareRevisions, BeginRewrite
  <2>3. store'.status = store.status /\ store'.since = store.since
    BY <2>2, MatchTyped DEF DropRevisions, SetTail, StoreRecord
  <2>4. DaysMatch'
    <3>1. \A d \in Day : store.status[d] = "imported" => Match(d)
      BY <2>1 DEF MatchInv, DaysMatch
    <3>2. run'.pc \notin {"track", "advance"}
      BY <1>2 DEF Stop, Idle
    <3> QED
      BY <1>1, <2>3, <3>1, <3>2 DEF DaysMatch, Match, ActiveStats, Active
  <2> QED
    BY <1>2, <2>4, MatchTyped DEF MatchSafe, NotByHand, Stop, Idle
<1> QED
  BY <1>3, <1>4 DEF Revise

LEMMA WalkMatch ==
  ASSUME MatchInv, Automatic, Walk
  PROVE  MatchSafe
<1>1. UNCHANGED rows
  BY DEF Walk, WalkStart, WalkFetch, WalkLeading, WalkSkipsLeading, WalkPatience, WalkWrite,
         WalkDone, NothingToWalk, table
<1>2. NoneImported(store, store')
  <2>1. \A first, last : /\ NoneImported(store, MarkSkipped(store, first, last, "unavailable"))
                         /\ \A d, on : NoneImported(store,
                              SetRetention(MarkSkipped(store, first, last, "unavailable"), d, on))
    <3>1. \A first, last : NoneImported(store, MarkSkipped(store, first, last, "unavailable"))
      BY MatchTyped, SkippedNotImported DEF Skipped
    <3>2. \A st, d, on : NoneImported(store, st) /\ {"tail", "since", "status"} \subseteq DOMAIN st
            => NoneImported(store, SetRetention(st, d, on))
      BY DEF SetRetention, NoneImported
    <3>3. \A first, last :
            {"tail", "since", "status"} \subseteq DOMAIN MarkSkipped(store, first, last, "unavailable")
      BY MatchTyped DEF MarkSkipped, StoreRecord
    <3> QED
      BY <3>1, <3>2, <3>3
  <2>2. ASSUME NEW d \in Day
        PROVE  /\ NoneImported(store, NoteEmpty(store, d, today))
               /\ NoneImported(store, MarkSkipped(NoteEmpty(store, d, today), d, d, "gap"))
    <3>1. NoneImported(store, NoteEmpty(store, d, today)) /\ NoteEmpty(store, d, today) \in StoreRecord
      BY MatchTyped, SettersKeepBooks, NoteEmptyType DEF TypeOK
    <3> QED
      BY <3>1, SkippedNotImported DEF Skipped
  <2>3. \A d \in Day : NoneImported(store, SetPending(store, d))
    BY MatchTyped, SettersKeepBooks
  <2>4. CASE WalkStart \/ WalkSkipsLeading
    BY <2>1, <2>4, MatchTyped DEF WalkStart, WalkSkipsLeading
  <2>5. CASE WalkPatience
    BY <2>2, <2>5 DEF WalkPatience
  <2>6. CASE WalkWrite
    BY <2>3, <2>6, MatchTyped DEF WalkWrite, BeginWrite
  <2> QED
    BY <2>4, <2>5, <2>6, MatchTyped DEF Walk, WalkFetch, WalkLeading, WalkDone, NothingToWalk
<1>3. \/ Stop
      \/ run'.pc \in {"walk", "write"} /\ run'.caller \in {run.caller, "walk"}
  <2>1. CASE WalkStart
    BY <2>1, MatchTyped DEF WalkStart, RunRecord
  <2>2. CASE WalkFetch \/ WalkLeading \/ WalkSkipsLeading \/ WalkPatience \/ WalkDone \/ NothingToWalk
    BY <2>2, MatchTyped
       DEF WalkFetch, WalkLeading, WalkSkipsLeading, WalkPatience, WalkDone, NothingToWalk, WalkDay,
           WalkAt, At, RequestFails, RunRecord
  <2>3. CASE WalkWrite
    BY <2>3, MatchTyped DEF WalkWrite, BeginWrite, RunRecord
  <2> QED
    BY <2>1, <2>2, <2>3 DEF Walk
<1> QED
  BY <1>1, <1>2, <1>3, MatchMoves

LEMMA RewriteMatch ==
  ASSUME MatchInv, Automatic, Rewrite
  PROVE  MatchSafe
<1>1. UNCHANGED rows
  BY DEF Rewrite, ResumeTail, RewriteSkip, RewriteFetch, RewriteUnavailable, RewritePatience,
         RewriteWrite, RewriteDone, table
<1>2. \/ Stop
      \/ /\ run'.pc \in {"rewrite", "retention", "checked", "write"}
         /\ run'.caller \in {run.caller, "rewrite"}
  <2>1. CASE RewriteWrite
    BY <2>1, MatchTyped DEF RewriteWrite, BeginWrite, RunRecord
  <2>2. CASE ~RewriteWrite
    BY <2>2, MatchTyped
       DEF Rewrite, ResumeTail, RewriteSkip, RewriteFetch, RewriteUnavailable, RewritePatience,
           RewriteDone, RewriteDay, RewriteAt, At, RequestFails, Goto, RunRecord
  <2> QED
    BY <2>1, <2>2
<1>3. ASSUME store'.status = store.status, store'.since = store.since,
             \A d \in Day : store.status[d] = "imported" /\ store.tail # NoTail => d # store.tail.next
      PROVE  MatchSafe
  <2>1. \A d \in Day : store.status[d] = "imported" => Match(d)
    BY <1>3 DEF MatchInv, DaysMatch
  <2>2. run'.pc \notin {"track", "advance", "fetch_day"} /\ run'.caller \in {run.caller, "rewrite", "walk"}
    BY <1>2 DEF Stop, Idle
  <2> QED
    BY <1>1, <1>3, <2>1, <2>2, MatchTyped DEF MatchSafe, NotByHand, DaysMatch, Match, ActiveStats, Active
<1>4. CASE RewriteSkip
  <2>1. PICK d \in Day : RewriteAt(d) /\ RewriteSkips(d) /\ store' = [store EXCEPT !.tail.next = d + 1]
    BY <1>4 DEF RewriteSkip
  <2>2. d = store.tail.next /\ store.status[d] # "imported"
    BY <2>1, RewriteMeets, MatchTyped
  <2>3. store'.status = store.status /\ store'.since = store.since
    BY <2>1, MatchTyped DEF StoreRecord
  <2> QED
    BY <1>3, <2>2, <2>3
<1>5. CASE RewriteDone
  <2>1. store.tail.next > store.tail.to /\ store' = SetTail(store, NoTail) /\ store.tail # NoTail
    BY <1>5, MatchTyped, SumsTyped DEF RewriteDone, At, RunInv, RewriteFirst, Rewriting
  <2>2. \A d \in Day : store.status[d] = "imported" => d # store.tail.next
    <3>1. store.tail.to = store.lastWritten /\ store.tail.next \in Int /\ store.lastWritten \in Int
      BY <2>1, MatchTyped, SumsTyped, HistoryNumbers DEF TableInv, TailToEnd, StoreRecord, TailRecord
    <3> QED
      BY <2>1, <3>1, MatchTyped, SumsTyped DEF TableInv, RowsOnImported
  <2>3. store'.status = store.status /\ store'.since = store.since
    BY <2>1, MatchTyped DEF SetTail, StoreRecord
  <2> QED
    BY <1>3, <2>2, <2>3
<1>6. CASE RewritePatience
  <2>1. store.tail.onEmpty = "patience"
    BY <1>6 DEF RewritePatience
  <2> QED
    BY <2>1, MatchTyped, SumsTyped DEF StoreInOrder
<1>7. CASE ResumeTail \/ RewriteFetch \/ RewriteUnavailable \/ RewriteWrite
  <2>1. \A d \in Day : NoneImported(store, SetPending(store, d))
    BY MatchTyped, SettersKeepBooks
  <2>2. NoneImported(store, store')
    BY <1>7, <2>1, MatchTyped DEF ResumeTail, RewriteFetch, RewriteUnavailable, RewriteWrite, BeginWrite
  <2> QED
    BY <1>1, <1>2, <2>2, MatchMoves
<1> QED
  BY <1>4, <1>5, <1>6, <1>7 DEF Rewrite


\* The rows of a day that has read back are all of the same records.
LEMMA WriteMatch ==
  ASSUME MatchInv, Automatic, Write
  PROVE  MatchSafe
<1>1. rows' = rows /\ run.day \in Day
  BY MatchTyped, SumsTyped
     DEF Write, WriteRefused, WriteRows, VerifyPasses, VerifyTimesOut, TrackRevision, Advance, table,
         At, TypeInv, DayAtHand
<1>2. CASE WriteRefused
  <2>1. ClearPending(store) \in StoreRecord /\ SameBooks(store, ClearPending(store))
    BY MatchTyped, SettersKeepBooks, PendingType
  <2>2. SameBooks(store, store')
    BY <1>2, <2>1, MatchTyped, SettersKeepBooks DEF WriteRefused
  <2> QED
    BY <1>1, <1>2, <2>2, MatchTyped, MatchMoves DEF WriteRefused
<1>3. CASE VerifyTimesOut
  <2>1. SameBooks(store, store')
    BY <1>3, MatchTyped, SettersKeepBooks DEF VerifyTimesOut
  <2> QED
    BY <1>1, <1>3, <2>1, MatchTyped, MatchMoves DEF VerifyTimesOut
<1>4. CASE WriteRows
  <2>1. store' = store /\ run'.pc = "verify" /\ run'.caller = run.caller
    BY <1>4, MatchTyped DEF WriteRows, Goto, RunRecord
  <2> QED
    BY <1>1, <2>1, MatchTyped, MatchMoves
<1>5. CASE VerifyPasses
  <2>1. /\ run'.pc = "track" /\ run'.caller = run.caller /\ run'.day = run.day
    BY <1>5, MatchTyped DEF VerifyPasses, Goto, RunRecord
  <2>2. /\ store'.tail = store.tail /\ store'.since = store.since
        /\ store'.status = [store.status EXCEPT ![run.day] = "imported"]
    BY <1>5, MatchTyped DEF VerifyPasses, MarkImported, StoreRecord
  <2>3. Match(run.day)
    <3>1. \A s \in ActiveStats(run.day) : rows[s][run.day] = NewRows[s]
      BY <1>5 DEF VerifyPasses, ReadsBack
    <3>2. \A s \in ActiveStats(run.day) : NewRows[s].state = Records.amount
      BY DEF NewRows, ActiveStats
    <3> QED
      BY <3>1, <3>2 DEF Match
  <2>4. \A d \in Day : Match(d)' <=> Match(d)
    BY <1>1, <2>2 DEF Match, ActiveStats, Active
  <2>5. \A d \in Day : d # run.day /\ store'.status[d] = "imported" => store.status[d] = "imported"
    BY <2>2, MatchTyped DEF StoreRecord
  <2>6. DaysMatch'
    BY <1>1, <2>1, <2>2, <2>3, <2>4, <2>5 DEF MatchInv, DaysMatch
  <2> QED
    BY <2>1, <2>6, MatchTyped DEF MatchSafe, NotByHand
<1>6. CASE TrackRevision
  <2>1. /\ run.pc = "track" /\ run'.pc = "advance"
        /\ run'.caller = run.caller /\ run'.day = run.day
    BY <1>6, MatchTyped DEF TrackRevision, At, Goto, RunRecord
  <2>2. store'.tail = store.tail /\ store'.since = store.since /\ store'.status = store.status
    BY <1>6, MatchTyped DEF TrackRevision, SetRevision, DropRevisions, StoreRecord
  <2>3. \A d \in Day : Match(d)' <=> Match(d)
    BY <1>1, <2>2 DEF Match, ActiveStats, Active
  <2>4. DaysMatch'
    BY <1>1, <2>1, <2>2, <2>3 DEF MatchInv, DaysMatch
  <2> QED
    BY <2>1, <2>4, MatchTyped DEF MatchSafe, NotByHand
<1>7. CASE Advance
  <2>1. CASE run.caller = "rewrite"
    <3>1. /\ run.pc = "advance" /\ Goto("rewrite")
          /\ store' = [store EXCEPT !.tail.next = run.day + 1]
      BY <1>7, <2>1 DEF Advance, At
    <3>2. run'.pc = "rewrite" /\ run'.caller = run.caller
      BY <3>1, MatchTyped DEF Goto, RunRecord
    <3>3. store'.since = store.since /\ store'.status = store.status
      BY <3>1, MatchTyped DEF StoreRecord
    <3>4. run.day = store.tail.next /\ store.tail # NoTail
      BY <2>1, <3>1, MatchTyped, SumsTyped
         DEF RunInv, DayInHand, RewriteFirst, Rewriting, Writing
    <3>5. \A d \in Day : store.status[d] = "imported" => Match(d)
      BY <1>1, <3>1, <3>4 DEF MatchInv, DaysMatch
    <3>6. \A d \in Day : Match(d)' <=> Match(d)
      BY <1>1, <3>3 DEF Match, ActiveStats, Active
    <3>7. DaysMatch'
      BY <3>2, <3>3, <3>5, <3>6 DEF DaysMatch
    <3> QED
      BY <3>2, <3>7, MatchTyped DEF MatchSafe, NotByHand
  <2>2. CASE run.caller # "rewrite"
    <3>1. store' = store /\ (Stop \/ (run'.pc = "walk" /\ run'.caller = run.caller))
      BY <1>7, <2>2, MatchTyped DEF Advance, RunRecord
    <3> QED
      BY <1>1, <3>1, MatchTyped, MatchMoves
  <2> QED
    BY <2>1, <2>2
<1> QED
  BY <1>2, <1>3, <1>4, <1>5, <1>6, <1>7 DEF Write

\* The recorder imports rows of a day that is not imported yet, or of the one a rewrite is at.
LEMMA CommitMatch ==
  ASSUME MatchInv, Automatic, NEW s \in Stat, Commit(s)
  PROVE  MatchSafe
<1>1. store' = store /\ run' = run
  BY DEF Commit
<1>2. CASE rows' = rows
  BY <1>1, <1>2 DEF MatchInv, MatchSafe, DaysMatch, NotByHand, Match, ActiveStats, Active
<1>3. CASE rows' # rows
  <2>1. /\ run.pc = "verify" /\ run.day \in Day
        /\ rows' = [rows EXCEPT ![s][run.day] = NewRows[s]]
    BY <1>3, SumsQueue, CommitAdds, MatchTyped
  <2>2. \A d \in Day, t \in Stat : d # run.day => rows'[t][d] = rows[t][d]
    BY <2>1, MatchTyped DEF TypeOK
  <2>3. \A d \in Day : d # run.day => (Match(d)' <=> Match(d))
    BY <1>1, <2>2 DEF Match, ActiveStats, Active
  <2>4. store.status[run.day] # "imported" \/ (store.tail # NoTail /\ run.day = store.tail.next)
    <3>1. CASE run.caller = "rewrite"
      BY <2>1, <3>1, MatchTyped, SumsTyped DEF RunInv, DayInHand, RewriteFirst, Rewriting, Writing
    <3>2. CASE run.caller = "walk"
      <4>1. Follows(store, run.day)
        BY <2>1, <3>2, MatchTyped, SumsTyped DEF RunInv, DayInHand
      <4>2. \A d \in Day : store.status[d] = "imported" => d <= store.lastWritten
        BY MatchTyped, SumsTyped DEF TableInv, RowsOnImported
      <4> QED
        BY <2>1, <4>1, <4>2, MatchTyped, SumsTyped, HistoryNumbers DEF Follows, StoreInOrder
    <3> QED
      BY <3>1, <3>2 DEF MatchInv, NotByHand
  <2>5. DaysMatch'
    BY <1>1, <2>1, <2>3, <2>4 DEF MatchInv, DaysMatch
  <2> QED
    BY <1>1, <2>5, MatchTyped DEF MatchSafe, NotByHand
<1> QED
  BY <1>2, <1>3

LEMMA OthersMatch ==
  ASSUME MatchInv, Automatic, LoadedInTime', [Next]_vars, ~RunStep, \A s \in Stat : ~Commit(s)
  PROVE  MatchSafe
<1>1. rows' = rows /\ (store' = store \/ LoadChannels)
  BY OthersKeepRows
<1>2. \/ run' = run \/ Stop
      \/ run'.pc = "guard" /\ run'.caller = run.caller
  <2>1. CASE ScheduledRun \/ RunNow
    BY <2>1, MatchTyped DEF ScheduledRun, RunNow, Begin, RunRecord
  <2>2. CASE User
    BY <2>2 DEF User, StartImportDay, StartBackfill, Serve, Automatic, Undisturbed, AddChannels,
                LoadChannels, SetMode, table
  <2>3. CASE Environment \/ UNCHANGED vars
    BY <2>3 DEF Environment, Tick, Publish, UnexpectedChannel, Crash, table, vars
  <2> QED
    BY <2>1, <2>2, <2>3 DEF Next
<1>3. store'.status = store.status /\ store'.tail = store.tail
  BY <1>1, MatchTyped DEF LoadChannels, StoreRecord
<1>4. \A d \in Day, s \in Stat : store.status[d] = "imported" /\ store'.since[s] <= d => store.since[s] <= d
  <2>1. CASE store' = store
    BY <2>1
  <2>2. CASE LoadChannels
    <3> SUFFICES ASSUME NEW d \in Day, NEW s \in Stat, store.status[d] = "imported",
                        store'.since[s] <= d
                 PROVE  store.since[s] <= d
      OBVIOUS
    <3>1. d <= store.lastWritten
      BY MatchTyped, SumsTyped DEF TableInv, RowsOnImported
    <3>2. d \in Int /\ d > 0 /\ store.lastWritten \in Int /\ NoDay = 0 /\ store'.since[s] \in Int
      BY <2>2, MatchTyped, SumsTyped, HistoryNumbers, LoadedFrom DEF TypeOK
    <3>3. \/ store'.since[s] = store.since[s]
          \/ store.lastWritten = NoDay
          \/ store.lastWritten < store'.since[s]
      BY <2>2, MatchTyped, LoadsInTime DEF LoadedInTime
    <3> QED
      BY <3>1, <3>2, <3>3
  <2> QED
    BY <1>1, <2>1, <2>2
<1>5. \A d \in Day : store.status[d] = "imported" /\ Match(d) => Match(d)'
  BY <1>1, <1>4 DEF Match, ActiveStats, Active
<1>6. DaysMatch'
  <2>1. run'.pc \in {"track", "advance"} => run' = run /\ store' = store
    BY <1>1, <1>2 DEF Stop, Idle, LoadChannels, At
  <2>2. run'.pc \in {"track", "advance"} => Match(run.day)'
    BY <1>1, <2>1 DEF MatchInv, DaysMatch, Match, ActiveStats, Active
  <2> QED
    BY <1>3, <1>5, <2>1, <2>2 DEF MatchInv, DaysMatch
<1> QED
  BY <1>2, <1>6, MatchTyped DEF MatchSafe, NotByHand, Stop, Idle

LEMMA MatchNext ==
  ASSUME MatchInv, Automatic, RowsInReach, LoadedInTime', [Next]_vars
  PROVE  MatchInv'
<1>1. SumsInv'
  BY SumsNext, MatchTyped DEF Automatic
<1>2. CASE RunStep
  <2>1. ~Backfill
    BY MatchTyped, SumsTyped DEF Backfill, BackfillSkips, BackfillBegins, At, RunInOrder, NoBackfill
  <2>2. ~ImportDay
    <3>1. run.pc = "plan" => run.job = "import_day"
      BY MatchTyped, SumsTyped DEF TypeInv, DayRequested
    <3>2. run.job # "import_day"
      BY MatchTyped, SumsTyped DEF RunInv, JobsServed, Automatic
    <3> QED
      BY <3>1, <3>2, MatchTyped
         DEF ImportDay, PlanAppend, PlanReimport, PlanRefused, FetchDay, At, NotByHand
  <2> QED
    BY <1>1, <1>2, <2>1, <2>2, EarlyMatch, ReviseMatch, WalkMatch, RewriteMatch, WriteMatch
       DEF RunStep, MatchSafe, MatchInv
<1>3. CASE ~RunStep
  BY <1>1, <1>3, CommitMatch, OthersMatch DEF MatchSafe, MatchInv
<1> QED
  BY <1>2, <1>3

LEMMA MatchInit ==
  ASSUME Init
  PROVE  MatchInv
<1>1. SumsInv
  BY SumsInit
<1>2. \A d \in Day : store.status[d] # "imported"
  BY DEF Init, EmptyStore
<1> QED
  BY <1>1, <1>2 DEF MatchInv, DaysMatch, NotByHand, Init, Idle

\* All statistics of an imported day show the same records, although the recorder imports
\* them one by one and a run may be cut off between any two of them: a day counts as imported
\* only when all its rows have read back, and one that is rewritten and cut off is the day its
\* rewrite resumes at (_async_write_amounts, _async_verify, _async_range_rewrite).
THEOREM StatisticsOfADayMatch ==
  ASSUME Automatic
  PROVE  Spec /\ []RowsInReach /\ []LoadedInTime => []StatisticsMatch
<1>1. Init => MatchInv
  BY MatchInit
<1>2. MatchInv /\ RowsInReach /\ LoadedInTime' /\ [Next]_vars => MatchInv'
  BY MatchNext
<1>3. MatchInv => StatisticsMatch
  BY DEF MatchInv, DaysMatch, StatisticsMatch, InFlight, Match
<1> QED
  BY <1>1, <1>2, <1>3, PTL DEF Spec

-----------------------------------------------------------------------------
(* Out-of-date days are tracked.  Two more hypotheses: no stop between the import of a day *)
(* and the save that puts it in the revision set (the finding of revision_lost), and no    *)
(* complete day that turns incomplete because of an unexpected channel.                    *)

Revising ==
  /\ Automatic /\ Regress = FALSE
  /\ "track" \notin CrashPoints \/ MaxCrash = 0

Shows(d, amount) == \A s \in ActiveStats(d) : rows[s][d].state = amount

\* The rows of a day are those of its fingerprint, or of what Amber will not change any more,
\* or its time in the revision set is over.
Tracked(d) ==
  \/ InRevisionSet(store, d) /\ Shows(d, store.revisions[d].hash)
  \/ amber[d].quality = "actual" /\ Shows(d, amber[d].amount)
  \/ today > d + 1 + RevisionDays

ToRewrite(d) == store.tail # NoTail /\ store.tail.next <= d

DaysTracked ==
  \A d \in Day :
    store.status[d] = "imported" /\ ~ToRewrite(d) /\ ~(run.pc = "track" /\ run.day = d)
      => Tracked(d)

\* A day that has been read back shows the records the run holds.
DayTracked ==
  /\ run.pc = "track" => Complete(Records) /\ Shows(run.day, Records.amount)
  /\ run.pc = "advance" => Tracked(run.day)

\* Amber does not change an actual day, so that one fetched earlier is what Amber holds.
ActualStays == \A d \in Day : run.cache[d].quality = "actual" => amber[d] = run.cache[d]

\* A day enters the revision set after its end, with a fingerprint of usage.
Fingerprints ==
  \A d \in Day : InRevisionSet(store, d) =>
    store.revisions[d].since > d /\ store.revisions[d].hash # 0

TrackInv == MatchInv /\ DaysTracked /\ DayTracked /\ ActualStays /\ Fingerprints

TrackSafe == DaysTracked' /\ DayTracked' /\ Fingerprints'

\* A save that moves no rewrite and no channel's start, and leaves imported days and their
\* entries in the revision set as they are.
Kept(old, new) ==
  /\ new.tail = old.tail /\ new.since = old.since
  /\ \A d \in Day :
       /\ new.status[d] = "imported" =>
            old.status[d] = "imported" /\ new.revisions[d] = old.revisions[d]
       /\ new.revisions[d] \in {old.revisions[d], NoRevision}

LEMMA SettersKeep ==
  ASSUME NEW old, NEW st \in StoreRecord, Kept(old, st)
  PROVE  /\ \A day : Kept(old, SetPending(st, day))
         /\ Kept(old, ClearPending(st))
         /\ \A day, how : how # "imported" => Kept(old, MarkDay(st, day, how))
         /\ \A day, on : Kept(old, NoteEmpty(st, day, on))
         /\ \A b, on : Kept(old, SetRetention(st, b, on))
         /\ \A on : Kept(old, SetChecked(st, on))
         /\ \A first, last, how : how \in Skipped => Kept(old, MarkSkipped(st, first, last, how))
<1>1. /\ st.status \in [Day -> Status] /\ st.revisions \in [Day -> Revision]
      /\ st = [st EXCEPT !.marker = st.marker]
  BY DEF StoreRecord
<1>2. \A day, how : how # "imported" => Kept(old, MarkDay(st, day, how))
  BY <1>1 DEF MarkDay, Kept, StoreRecord
<1>3. \A day, on : Kept(old, NoteEmpty(st, day, on))
  <2> TAKE day, on
  <2> DEFINE n == [st EXCEPT !.emptySeen[day] = @ \cup {on}]
  <2>1. /\ n.tail = st.tail /\ n.since = st.since /\ n.status = st.status
        /\ n.revisions = st.revisions
        /\ MarkDay(n, day, "empty") = NoteEmpty(st, day, on)
    BY DEF StoreRecord, NoteEmpty
  <2>2. /\ MarkDay(n, day, "empty").tail = n.tail /\ MarkDay(n, day, "empty").since = n.since
        /\ MarkDay(n, day, "empty").revisions = n.revisions
        /\ MarkDay(n, day, "empty").status =
             [n.status EXCEPT ![day] = IF @ = "imported" THEN @ ELSE "empty"]
    BY DEF MarkDay, StoreRecord
  <2> HIDE DEF n
  <2> QED
    BY <1>1, <2>1, <2>2 DEF Kept
<1>4. \A first, last, how : how \in Skipped => Kept(old, MarkSkipped(st, first, last, how))
  <2> SUFFICES ASSUME NEW first, NEW last, NEW how \in Skipped
               PROVE  Kept(old, MarkSkipped(st, first, last, how))
    OBVIOUS
  <2> DEFINE new == MarkSkipped(st, first, last, how)
  <2>1. /\ new.tail = st.tail /\ new.since = st.since
        /\ new.status = [d \in Day |-> IF d \in first..last THEN how ELSE st.status[d]]
        /\ new.revisions = [d \in Day |-> IF d \in first..last THEN NoRevision ELSE st.revisions[d]]
    BY DEF MarkSkipped, StoreRecord
  <2> HIDE DEF new
  <2>2. how # "imported"
    BY DEF Skipped
  <2>3. Kept(old, new)
    BY <2>1, <2>2 DEF Kept
  <2> QED
    BY <2>3 DEF new
<1> QED
  BY <1>1, <1>2, <1>3, <1>4
     DEF SetPending, ClearPending, SetRetention, SetChecked, Kept, StoreRecord

LEMMA TrackTyped ==
  ASSUME TrackInv
  PROVE  /\ MatchInv /\ SumsInv /\ store \in StoreRecord /\ run \in RunRecord /\ TypeOK
         /\ PastInv /\ NotByHand /\ Kept(store, store)
BY MatchTyped DEF TrackInv, Kept, SumsInv, Steady, HistoryInv

LEMMA TrackKept ==
  ASSUME TrackInv, UNCHANGED <<rows, amber, today>>, Kept(store, store'),
         run.pc # "track", run'.pc \notin {"track", "advance"}
  PROVE  TrackSafe
<1>1. \A d \in Day : store'.status[d] = "imported" /\ Tracked(d) => Tracked(d)'
  BY DEF Kept, Tracked, Shows, ActiveStats, Active, InRevisionSet
<1>2. DaysTracked' /\ DayTracked'
  BY <1>1 DEF TrackInv, DaysTracked, DayTracked, ToRewrite, Kept
<1>3. Fingerprints'
  BY DEF TrackInv, Fingerprints, Kept, InRevisionSet
<1> QED
  BY <1>2, <1>3 DEF TrackSafe

\* Amber's answers in the run's cache, whatever the step.
LEMMA CacheMoves ==
  ASSUME SumsInv, [Next]_vars, NEW d \in Day
  PROVE  run'.cache[d] \in {run.cache[d], Unfetched, Usage(d)}
<1>1. Stop => run'.cache[d] = Unfetched
  BY DEF Stop, Idle
<1>2. \A window : run'.cache = Fetched(window) => run'.cache[d] \in {run.cache[d], Usage(d)}
  BY DEF Fetched
<1>3. CASE FetchRevisions \/ WalkFetch \/ RewriteFetch
  <2>1. Stop \/ run'.cache = run.cache \/ \E window : run'.cache = Fetched(window)
    BY <1>3, SumsTyped DEF FetchRevisions, WalkFetch, RewriteFetch, RequestFails, Goto, RunRecord
  <2> QED
    BY <1>1, <1>2, <2>1
<1>4. CASE FetchDay
  <2>1. Stop \/ run'.cache = [run.cache EXCEPT ![run.day] = Usage(run.day)]
    BY <1>4, SumsTyped DEF FetchDay, RequestFails, RunRecord
  <2>2. run.cache = [e \in Day |-> run.cache[e]]
    BY SumsTyped DEF RunRecord
  <2> QED
    BY <1>1, <2>1, <2>2
<1>5. CASE RunStep /\ ~(FetchRevisions \/ WalkFetch \/ RewriteFetch \/ FetchDay)
  <2>1. Guard => Stop \/ run'.cache = run.cache
    BY SumsTyped DEF Guard, GuardRefuses, GuardAccepts, GuardSkipped, Goto, RunRecord
  <2>2. RetentionStep => Stop \/ run'.cache = run.cache
    BY SumsTyped DEF RetentionStep, RetentionDone, RetentionFails, GoOn, Goto, RunRecord
  <2>3. Revise => FetchRevisions \/ Stop \/ run'.cache = run.cache
    BY SumsTyped DEF Revise, RevisionsAlreadyChecked, CompareRevisions, RevisionsChecked, Goto, RunRecord
  <2>4. Walk => WalkFetch \/ Stop \/ run'.cache = run.cache
    BY SumsTyped DEF Walk, WalkStart, WalkLeading, WalkSkipsLeading, WalkPatience, WalkWrite,
         WalkDone, NothingToWalk, BeginWrite, RequestFails, RunRecord
  <2>5. Rewrite => RewriteFetch \/ Stop \/ run'.cache = run.cache
    BY SumsTyped DEF Rewrite, ResumeTail, RewriteSkip, RewriteUnavailable, RewritePatience,
         RewriteWrite, RewriteDone, BeginWrite, Goto, RunRecord
  <2>6. Write => Stop \/ run'.cache = run.cache
    BY SumsTyped DEF Write, WriteRefused, WriteRows, VerifyPasses, VerifyTimesOut, TrackRevision,
         Advance, Goto, RunRecord
  <2>7. Backfill => Stop \/ run'.cache = run.cache
    BY SumsTyped DEF Backfill, BackfillSkips, BackfillBegins, RunRecord
  <2>8. ImportDay => FetchDay \/ Stop \/ run'.cache = run.cache
    BY SumsTyped DEF ImportDay, PlanAppend, PlanReimport, PlanRefused, RunRecord
  <2> QED
    BY <1>1, <1>5, <2>1, <2>2, <2>3, <2>4, <2>5, <2>6, <2>7, <2>8 DEF RunStep
<1>6. CASE ~RunStep
  BY <1>1, <1>6, SumsTyped
     DEF Next, vars, ScheduledRun, RunNow, Begin, User, StartBackfill, StartImportDay,
         AddChannels, LoadChannels, SetMode, Environment, Tick, Publish, UnexpectedChannel, Crash,
         Commit, table,
         RunRecord
<1> QED
  BY <1>3, <1>4, <1>5, <1>6

\* A run changes neither the calendar, nor Amber, nor the statistics table.
LEMMA RunStepOutside ==
  ASSUME RunStep
  PROVE  UNCHANGED <<today, amber, rows>>
<1>1. Guard \/ RetentionStep \/ Revise => UNCHANGED <<today, amber, rows>>
  BY DEF Guard, GuardRefuses, GuardAccepts, GuardSkipped, RetentionStep, RetentionDone,
         RetentionFails, Revise, FetchRevisions, RevisionsAlreadyChecked, CompareRevisions,
         RevisionsChecked, environment, table
<1>2. Walk \/ Rewrite => UNCHANGED <<today, amber, rows>>
  BY DEF Walk, WalkStart, WalkFetch, WalkLeading, WalkSkipsLeading, WalkPatience, WalkWrite,
         WalkDone, NothingToWalk, Rewrite, ResumeTail, RewriteSkip, RewriteFetch,
         RewriteUnavailable, RewritePatience, RewriteWrite, RewriteDone, environment, table
<1>3. Write \/ Backfill \/ ImportDay => UNCHANGED <<today, amber, rows>>
  BY DEF Write, WriteRefused, WriteRows, VerifyPasses, VerifyTimesOut, TrackRevision, Advance,
         Backfill, BackfillSkips, BackfillBegins, ImportDay, PlanAppend, PlanReimport,
         PlanRefused, FetchDay, environment, table
<1> QED
  BY <1>1, <1>2, <1>3 DEF RunStep

LEMMA ActualNext ==
  ASSUME TrackInv, Revising, [Next]_vars
  PROVE  ActualStays'
<1> SUFFICES ASSUME NEW d \in Day, run'.cache[d].quality = "actual"
             PROVE  amber'[d] = run'.cache[d]
  BY DEF ActualStays
<1>1. run'.cache[d] = amber[d]
  BY TrackTyped, CacheMoves DEF TrackInv, ActualStays, Usage, Nothing, Unfetched
<1>2. amber'[d] = amber[d]
  <2>1. CASE amber' = amber
    BY <2>1
  <2>2. ASSUME NEW e \in Day, Publish(e)
        PROVE  amber'[d] = amber[d]
    BY <1>1, <2>2, TrackTyped DEF Publish, TypeOK
  <2>3. ASSUME NEW e \in Day, UnexpectedChannel(e)
        PROVE  FALSE
    BY <2>3 DEF UnexpectedChannel, Revising
  <2>4. amber' = amber \/ \E e \in Day : Publish(e) \/ UnexpectedChannel(e)
    <3>1. CASE RunStep
      BY <3>1, RunStepOutside
    <3>2. CASE ~RunStep
      BY <3>2 DEF Next, vars, ScheduledRun, RunNow, Begin, User, StartBackfill, StartImportDay,
                  AddChannels, LoadChannels, SetMode, Environment, Tick, Crash, Commit,
                  environment
    <3> QED
      BY <3>1, <3>2
  <2> QED
    BY <2>1, <2>2, <2>3, <2>4
<1> QED
  BY <1>1, <1>2

LEMMA EarlyTrack ==
  ASSUME TrackInv, Revising, Guard \/ RetentionStep
  PROVE  TrackSafe
<1>1. Kept(store, store')
  BY TrackTyped, SettersKeep
     DEF Guard, GuardRefuses, GuardAccepts, GuardSkipped, RetentionStep, RetentionDone,
         RetentionFails
<1>2. run.pc # "track"
  BY DEF Guard, GuardRefuses, GuardAccepts, GuardSkipped, RetentionStep, RetentionDone,
         RetentionFails, At
<1>3. Stop \/ run'.pc \in {"plan", "resume", "revisions"}
  BY TrackTyped
     DEF Guard, GuardRefuses, GuardAccepts, GuardSkipped, RetentionStep, RetentionDone,
         RetentionFails, Goto, GoOn, RunRecord
<1>4. run'.pc \notin {"track", "advance"}
  BY <1>3 DEF Stop, Idle
<1> QED
  BY <1>1, <1>2, <1>4, TrackKept, RunStepOutside DEF RunStep

LEMMA WalkTrack ==
  ASSUME TrackInv, Revising, Walk
  PROVE  TrackSafe
<1>1. Kept(store, store')
  <2>1. \A first, last :
          LET st == MarkSkipped(store, first, last, "unavailable") IN
          /\ Kept(store, st)
          /\ \A d, on : Kept(store, SetRetention(st, d, on))
    <3>1. \A first, last : Kept(store, MarkSkipped(store, first, last, "unavailable"))
      BY TrackTyped, SettersKeep DEF Skipped
    <3>2. \A st, d, on :
            Kept(store, st) /\ {"tail", "since", "status", "revisions"} \subseteq DOMAIN st
              => Kept(store, SetRetention(st, d, on))
      BY DEF SetRetention, Kept
    <3>3. \A first, last : {"tail", "since", "status", "revisions"}
            \subseteq DOMAIN MarkSkipped(store, first, last, "unavailable")
      BY TrackTyped DEF MarkSkipped, StoreRecord
    <3> QED
      BY <3>1, <3>2, <3>3
  <2>2. ASSUME NEW d \in Day
        PROVE  /\ Kept(store, NoteEmpty(store, d, today))
               /\ Kept(store, MarkSkipped(NoteEmpty(store, d, today), d, d, "gap"))
    <3>1. Kept(store, NoteEmpty(store, d, today)) /\ NoteEmpty(store, d, today) \in StoreRecord
      BY TrackTyped, SettersKeep, NoteEmptyType DEF TypeOK
    <3> QED
      BY <3>1, SettersKeep DEF Skipped
  <2>3. \A d \in Day : Kept(store, SetPending(store, d))
    BY TrackTyped, SettersKeep
  <2>4. CASE WalkStart \/ WalkSkipsLeading
    BY <2>1, <2>4, TrackTyped DEF WalkStart, WalkSkipsLeading
  <2>5. CASE WalkPatience
    BY <2>2, <2>5 DEF WalkPatience
  <2>6. CASE WalkWrite
    BY <2>3, <2>6, TrackTyped DEF WalkWrite, BeginWrite
  <2> QED
    BY <2>4, <2>5, <2>6, TrackTyped DEF Walk, WalkFetch, WalkLeading, WalkDone, NothingToWalk
<1>2. run.pc \in {"work", "walk"}
  BY DEF Walk, WalkStart, WalkFetch, WalkLeading, WalkSkipsLeading, WalkPatience, WalkWrite,
         WalkDone, NothingToWalk, WalkDay, WalkAt, At
<1>3. Stop \/ run'.pc \in {"walk", "write"}
  <2>1. CASE WalkStart \/ WalkWrite
    BY <2>1, TrackTyped DEF WalkStart, WalkWrite, BeginWrite, RunRecord
  <2>2. CASE WalkFetch \/ WalkLeading \/ WalkSkipsLeading
    BY <2>2, TrackTyped
       DEF WalkFetch, WalkLeading, WalkSkipsLeading, WalkDay, WalkAt, At, RequestFails, RunRecord
  <2>3. CASE WalkPatience \/ WalkDone \/ NothingToWalk
    BY <2>3, TrackTyped
       DEF WalkPatience, WalkDone, NothingToWalk, WalkDay, WalkAt, At, RequestFails, RunRecord
  <2> QED
    BY <2>1, <2>2, <2>3 DEF Walk
<1>4. run'.pc \notin {"track", "advance"}
  BY <1>3 DEF Stop, Idle
<1> QED
  BY <1>1, <1>2, <1>4, TrackKept, RunStepOutside DEF RunStep

\* The revision check: expired entries leave the set, unchanged actual days as well, and a
\* changed day starts a rewrite of all days from it on.
LEMMA ReviseTrack ==
  ASSUME TrackInv, Revising, Revise
  PROVE  TrackSafe
<1>1. UNCHANGED <<today, amber, rows>>
  BY RunStepOutside DEF RunStep
<1>2. run.pc \notin {"track", "advance"} /\ run'.pc \notin {"track", "advance"}
  <2>1. run.pc \in {"revisions", "compare", "checked"}
    BY DEF Revise, FetchRevisions, RevisionsAlreadyChecked, CompareRevisions, RevisionsChecked, At
  <2>2. Stop \/ run'.pc \in {run.pc, "compare", "work", "rewrite", "checked"}
    BY TrackTyped
       DEF Revise, FetchRevisions, RevisionsAlreadyChecked, CompareRevisions, RevisionsChecked,
           RequestFails, Goto, RunRecord
  <2> QED
    BY <2>1, <2>2 DEF Stop, Idle
<1>3. store.tail = NoTail
  BY TrackTyped, NoTailOutside
     DEF Revise, FetchRevisions, RevisionsAlreadyChecked, CompareRevisions, RevisionsChecked, At,
         Rewriting, Writing
<1>4. CASE RevisionsAlreadyChecked \/ RevisionsChecked
  <2>1. Kept(store, store')
    BY <1>4, TrackTyped, SettersKeep DEF RevisionsAlreadyChecked, RevisionsChecked
  <2> QED
    BY <1>1, <1>2, <2>1, TrackKept
<1>5. \A days : LET st == DropRevisions(store, days) IN
        /\ st.status = store.status /\ st.since = store.since /\ st.tail = store.tail
        /\ st.lastWritten = store.lastWritten
        /\ \A d \in Day : st.revisions[d] = IF d \in days THEN NoRevision ELSE store.revisions[d]
  BY TrackTyped DEF DropRevisions, StoreRecord
<1>6. \A d \in Day : store.status[d] = "imported" => Tracked(d)
  BY <1>2, <1>3 DEF TrackInv, DaysTracked, ToRewrite
<1>7. ASSUME NEW days, store'.revisions = DropRevisions(store, days).revisions,
             store'.status = store.status, store'.since = store.since,
             \A d \in Day : store.status[d] = "imported" /\ ~ToRewrite(d)' /\ d \in days
               => Tracked(d)'
      PROVE  TrackSafe
  <2>1. \A d \in Day : store.status[d] = "imported" /\ ~ToRewrite(d)' => Tracked(d)'
    <3> SUFFICES ASSUME NEW d \in Day, store.status[d] = "imported", d \notin days
                 PROVE  Tracked(d)'
      BY <1>7
    <3>1. store'.revisions[d] = store.revisions[d]
      BY <1>5, <1>7
    <3> QED
      BY <1>1, <1>6, <1>7, <3>1 DEF Tracked, Shows, ActiveStats, Active, InRevisionSet
  <2>2. DaysTracked'
    BY <1>7, <2>1 DEF DaysTracked
  <2>3. DayTracked'
    BY <1>2 DEF DayTracked
  <2>4. Fingerprints'
    BY <1>5, <1>7 DEF TrackInv, Fingerprints, InRevisionSet
  <2> QED
    BY <2>2, <2>3, <2>4 DEF TrackSafe
<1>8. CASE FetchRevisions
  <2>1. store' = DropRevisions(store, Expired(store))
    BY <1>8 DEF FetchRevisions
  <2>2. ASSUME NEW d \in Expired(store)
        PROVE  today > d + 1 + RevisionDays
    <3>1. /\ d \in Day /\ store.revisions[d].since > d
          /\ store.revisions[d].since + RevisionDays < run.yesterday + 1
      BY DEF Expired, RevisionDaysOf, TrackInv, Fingerprints
    <3>2. run.yesterday < today
      BY TrackTyped DEF PastInv, RunPast
    <3>3. /\ d \in Nat /\ today \in Nat /\ run.yesterday \in Nat /\ RevisionDays \in Nat
          /\ store.revisions[d].since \in Nat
      BY <3>1, TrackTyped, MaxDayAssumption, UsageImportAssumption
         DEF TypeOK, RunRecord, StoreRecord, Revision, Day, Date, NoDay
    <3> QED
      BY <3>1, <3>2, <3>3
  <2>3. \A d \in Day : d \in Expired(store) => Tracked(d)'
    BY <1>1, <2>2 DEF Tracked
  <2> QED
    BY <1>5, <1>7, <2>1, <2>3
<1>9. CASE CompareRevisions
  <2> DEFINE final == {d \in RevisionDaysOf(store) : Final(d)}
             changed == {d \in RevisionDaysOf(store) : Changed(d)}
  <2>1. ASSUME NEW d \in Day, store.status[d] = "imported", d \in final,
               store'.since = store.since
        PROVE  Tracked(d)'
    <3>1. /\ d \in Day /\ InRevisionSet(store, d) /\ run.cache[d].quality # "estimated"
          /\ run.cache[d].amount = store.revisions[d].hash
      BY <2>1 DEF Final, Changed, RevisionDaysOf
    <3>2. run.cache[d].quality = "actual"
      <4>1. run.cache[d].amount # 0
        BY <3>1 DEF TrackInv, Fingerprints
      <4>2. run.cache[d] \in Answer \cup {Unfetched}
        BY TrackTyped DEF RunRecord
      <4> QED
        BY <3>1, <4>1, <4>2 DEF Answer, Nothing, Partial, Unfetched
    <3>3. amber[d] = run.cache[d]
      BY <3>2 DEF TrackInv, ActualStays
    <3>4. (amber[d].quality = "actual" /\ Shows(d, amber[d].amount)) \/ today > d + 1 + RevisionDays
      BY <1>6, <2>1, <3>1, <3>2, <3>3 DEF Tracked
    <3> QED
      BY <1>1, <2>1, <3>4 DEF Tracked, Shows, ActiveStats, Active
  <2>2. /\ store'.revisions = DropRevisions(store, final).revisions
        /\ store'.status = store.status /\ store'.since = store.since
    <3> DEFINE st == DropRevisions(store, final)
    <3>1. st.tail = NoTail /\ st.status = store.status /\ st.since = store.since
          /\ DOMAIN st = DOMAIN store
      BY <1>3, TrackTyped DEF DropRevisions, StoreRecord
    <3>2. store' = st \/ \E tail : store' = SetTail(st, tail)
      BY <1>9, <3>1 DEF CompareRevisions, BeginRewrite
    <3>3. \A tail : LET n == SetTail(st, tail) IN
            n.revisions = st.revisions /\ n.status = st.status /\ n.since = st.since
      BY TrackTyped, <3>1 DEF SetTail, StoreRecord
    <3> QED
      BY <3>1, <3>2, <3>3
  <2> QED
    BY <1>7, <2>1, <2>2
<1> QED
  BY <1>4, <1>8, <1>9 DEF Revise

\* A rewrite leaves a day behind only once it is tracked, or if it was never imported.
LEMMA RewriteTrack ==
  ASSUME TrackInv, Revising, Rewrite
  PROVE  TrackSafe
<1>1. UNCHANGED <<today, amber, rows>>
  BY RunStepOutside DEF RunStep
<1>2. run.pc \in {"resume", "rewrite"}
  BY DEF Rewrite, ResumeTail, RewriteSkip, RewriteFetch, RewriteUnavailable, RewritePatience,
         RewriteWrite, RewriteDone, RewriteDay, RewriteAt, At
<1>3. run'.pc \notin {"track", "advance"}
  <2>1. CASE RewriteWrite \/ RewriteDone
    <3>1. run.after \in {"retention", "checked", "end"}
      BY TrackTyped DEF RunRecord
    <3>2. Stop \/ run'.pc \in {"write", "retention", "checked"}
      BY <2>1, <3>1, TrackTyped DEF RewriteWrite, RewriteDone, BeginWrite, Goto, RunRecord
    <3> QED
      BY <3>2 DEF Stop, Idle
  <2>2. CASE ~(RewriteWrite \/ RewriteDone)
    <3>1. Stop \/ run'.pc \in {"resume", "rewrite", "retention"}
      BY <1>2, <2>2, TrackTyped
         DEF Rewrite, ResumeTail, RewriteSkip, RewriteFetch, RewriteUnavailable, RewritePatience,
             RequestFails, Goto, RunRecord
    <3> QED
      BY <3>1 DEF Stop, Idle
  <2> QED
    BY <2>1, <2>2
<1>4. ASSUME store'.status = store.status, store'.since = store.since,
             store'.revisions = store.revisions,
             \A d \in Day : store.status[d] = "imported" /\ ToRewrite(d) => ToRewrite(d)'
      PROVE  TrackSafe
  <2>1. \A d \in Day : Tracked(d) => Tracked(d)'
    BY <1>1, <1>4 DEF Tracked, Shows, ActiveStats, Active, InRevisionSet
  <2>2. DaysTracked'
    BY <1>2, <1>4, <2>1 DEF TrackInv, DaysTracked
  <2>3. DayTracked'
    BY <1>3 DEF DayTracked
  <2>4. Fingerprints'
    BY <1>4 DEF TrackInv, Fingerprints, InRevisionSet
  <2> QED
    BY <2>2, <2>3, <2>4 DEF TrackSafe
<1>5. /\ \A d \in Day : d \in Int
      /\ store.tail.next \in Int /\ store.tail.to \in Int /\ store.lastWritten \in Int
  BY TrackTyped, HistoryNumbers DEF StoreRecord, TailRecord
<1>6. CASE RewriteSkip
  <2>1. PICK d \in Day : RewriteAt(d) /\ RewriteSkips(d) /\ store' = [store EXCEPT !.tail.next = d + 1]
    BY <1>6 DEF RewriteSkip
  <2>2. d = store.tail.next /\ store.status[d] # "imported"
    BY <2>1, RewriteMeets, TrackTyped
  <2>3. /\ store'.status = store.status /\ store'.since = store.since
        /\ store'.revisions = store.revisions /\ store'.tail.next = d + 1
    BY <2>1, TrackTyped DEF StoreRecord, TailRecord
  <2>4. \A e \in Day : store.status[e] = "imported" /\ ToRewrite(e) => ToRewrite(e)'
    <3> SUFFICES ASSUME NEW e \in Day, store.status[e] = "imported", ToRewrite(e)
                 PROVE  store'.tail # NoTail /\ d + 1 <= e
      BY <2>3 DEF ToRewrite
    <3>1. d + 1 <= e /\ d \in Int /\ d + 1 # 0
      BY <1>5, <2>2 DEF ToRewrite, Day
    <3> QED
      BY <2>3, <3>1 DEF NoTail, NoDay
  <2> QED
    BY <1>4, <2>3, <2>4
<1>7. CASE RewriteDone
  <2>1. store.tail.next > store.tail.to /\ store' = SetTail(store, NoTail) /\ store.tail # NoTail
    BY <1>7, TrackTyped, SumsTyped DEF RewriteDone, At, RunInv, RewriteFirst, Rewriting
  <2>2. \A d \in Day : store.status[d] = "imported" => ~ToRewrite(d)
    <3>1. store.tail.to = store.lastWritten
      BY <2>1, TrackTyped, SumsTyped DEF TableInv, TailToEnd
    <3>2. \A d \in Day : store.status[d] = "imported" => d <= store.lastWritten
      BY TrackTyped, SumsTyped DEF TableInv, RowsOnImported
    <3> QED
      BY <1>5, <2>1, <3>1, <3>2 DEF ToRewrite
  <2>3. /\ store'.status = store.status /\ store'.since = store.since
        /\ store'.revisions = store.revisions
    BY <2>1, TrackTyped DEF SetTail, StoreRecord
  <2> QED
    BY <1>4, <2>2, <2>3
<1>8. CASE RewritePatience
  <2>1. store.tail.onEmpty = "patience"
    BY <1>8 DEF RewritePatience
  <2> QED
    BY <2>1, TrackTyped, SumsTyped DEF StoreInOrder
<1>9. CASE ResumeTail \/ RewriteFetch \/ RewriteUnavailable \/ RewriteWrite
  <2>1. \A d \in Day : Kept(store, SetPending(store, d))
    BY TrackTyped, SettersKeep
  <2>2. Kept(store, store')
    BY <1>9, <2>1, TrackTyped DEF ResumeTail, RewriteFetch, RewriteUnavailable, RewriteWrite, BeginWrite
  <2> QED
    BY <1>1, <1>2, <1>3, <2>2, TrackKept
<1> QED
  BY <1>6, <1>7, <1>8, <1>9 DEF Rewrite

\* A day that reads back shows the run's records; estimated ones go into the revision set,
\* actual ones are what Amber holds from now on.
LEMMA WriteTrack ==
  ASSUME TrackInv, Revising, Write
  PROVE  TrackSafe
<1>1. UNCHANGED <<today, amber, rows>> /\ run.day \in Day
  BY TrackTyped, SumsTyped, RunStepOutside
     DEF RunStep, Write, WriteRefused, WriteRows, VerifyPasses, VerifyTimesOut, TrackRevision,
         Advance, At, TypeInv, DayAtHand
<1>2. CASE WriteRefused \/ VerifyTimesOut \/ WriteRows
  <2>1. ClearPending(store) \in StoreRecord /\ Kept(store, ClearPending(store))
    BY TrackTyped, SettersKeep, PendingType
  <2>2. Kept(store, store')
    BY <1>2, <2>1, TrackTyped, SettersKeep DEF WriteRefused, VerifyTimesOut, WriteRows
  <2>3. run.pc \in {"write", "verify"} /\ (Stop \/ run'.pc = "verify")
    BY <1>2, TrackTyped DEF WriteRefused, VerifyTimesOut, WriteRows, At, Goto, RunRecord
  <2>4. run'.pc \notin {"track", "advance"}
    BY <2>3 DEF Stop, Idle
  <2> QED
    BY <1>1, <2>2, <2>3, <2>4, TrackKept
<1>3. CASE VerifyPasses
  <2>1. /\ run.pc = "verify" /\ run'.pc = "track" /\ run'.day = run.day /\ run'.cache = run.cache
        /\ ReadsBack /\ store' = MarkImported(store, run.day)
    BY <1>3, TrackTyped DEF VerifyPasses, At, Goto, RunRecord
  <2>2. /\ store'.tail = store.tail /\ store'.since = store.since
        /\ store'.revisions = store.revisions
        /\ \A d \in Day : d # run.day => store'.status[d] = store.status[d]
    BY <2>1, TrackTyped DEF MarkImported, StoreRecord
  <2>3. Complete(Records)
    BY <2>1, TrackTyped, SumsTyped DEF RunInv, DayInHand
  <2>4. Shows(run.day, Records.amount)
    <3>1. \A s \in ActiveStats(run.day) : rows[s][run.day] = NewRows[s]
      BY <2>1 DEF ReadsBack
    <3>2. \A s \in ActiveStats(run.day) : NewRows[s].state = Records.amount
      BY DEF NewRows, ActiveStats
    <3> QED
      BY <3>1, <3>2 DEF Shows
  <2>5. DayTracked'
    BY <1>1, <2>1, <2>2, <2>3, <2>4
       DEF DayTracked, Complete, Records, Shows, ActiveStats, Active
  <2>6. \A d \in Day : Tracked(d) => Tracked(d)'
    BY <1>1, <2>2 DEF Tracked, Shows, ActiveStats, Active, InRevisionSet
  <2>7. DaysTracked'
    BY <2>1, <2>2, <2>6 DEF TrackInv, DaysTracked, ToRewrite
  <2>8. Fingerprints'
    BY <2>2 DEF TrackInv, Fingerprints, InRevisionSet
  <2> QED
    BY <2>5, <2>7, <2>8 DEF TrackSafe
<1>4. CASE TrackRevision
  <2>1. /\ run.pc = "track" /\ run'.pc = "advance" /\ run'.day = run.day
        /\ Complete(Records) /\ Shows(run.day, Records.amount)
    BY <1>4, TrackTyped DEF TrackRevision, At, Goto, RunRecord, TrackInv, DayTracked
  <2>2. /\ store'.tail = store.tail /\ store'.since = store.since /\ store'.status = store.status
        /\ \A d \in Day : d # run.day => store'.revisions[d] = store.revisions[d]
    BY <1>4, TrackTyped DEF TrackRevision, SetRevision, DropRevisions, StoreRecord
  <2>3. \A d \in Day : d # run.day /\ Tracked(d) => Tracked(d)'
    BY <1>1, <2>2 DEF Tracked, Shows, ActiveStats, Active, InRevisionSet
  <2>4. /\ run.day < today /\ run.day \in Nat /\ today \in Nat
        /\ Records \in Answer /\ Records.amount # 0
    <3>1. Records \in Answer /\ Records \notin {Unfetched, Nothing}
      BY <1>1, <2>1, TrackTyped DEF Records, RunRecord, Complete, Unfetched, Nothing
    <3>2. Records.amount \in Amount
      BY <2>1, <3>1 DEF Answer, Complete, Nothing, Partial
    <3>3. run.day < today
      BY <1>1, <3>1, TrackTyped DEF PastInv, RunPast, Records
    <3> QED
      BY <1>1, <3>1, <3>2, <3>3, TrackTyped, AmountAssumption, MaxDayAssumption
         DEF TypeOK, Day, Date
  <2>5. CASE Records.quality = "estimated"
    <3>1. /\ store'.revisions[run.day].hash = Records.amount
          /\ store'.revisions[run.day].since \in {today, store.revisions[run.day].since}
          /\ store'.revisions[run.day].since = today \/ InRevisionSet(store, run.day)
      BY <1>1, <1>4, <2>5, TrackTyped DEF TrackRevision, SetRevision, StoreRecord, InRevisionSet
    <3>2. Fingerprints'
      BY <2>2, <2>4, <3>1 DEF TrackInv, Fingerprints, InRevisionSet
    <3>3. Tracked(run.day)'
      BY <1>1, <2>1, <2>2, <2>4, <3>1
         DEF Tracked, InRevisionSet, NoRevision, Shows, ActiveStats, Active
    <3> QED
      BY <2>1, <2>2, <2>3, <3>2, <3>3 DEF TrackInv, TrackSafe, DaysTracked, DayTracked, ToRewrite
  <2>6. CASE Records.quality # "estimated"
    <3>1. amber[run.day] = Records /\ Records.quality = "actual"
      BY <1>1, <2>1, <2>6 DEF TrackInv, ActualStays, Records, Complete
    <3>2. Tracked(run.day)'
      BY <1>1, <2>1, <2>2, <3>1 DEF Tracked, Shows, ActiveStats, Active
    <3>3. store'.revisions[run.day] = NoRevision
      BY <1>1, <1>4, <2>6, TrackTyped DEF TrackRevision, DropRevisions, StoreRecord
    <3>4. Fingerprints'
      BY <2>2, <3>3 DEF TrackInv, Fingerprints, InRevisionSet
    <3> QED
      BY <2>1, <2>2, <2>3, <3>2, <3>4 DEF TrackInv, TrackSafe, DaysTracked, DayTracked, ToRewrite
  <2> QED
    BY <2>5, <2>6
<1>5. CASE Advance
  <2>1. run.pc = "advance" /\ Tracked(run.day)
    BY <1>5 DEF Advance, At, TrackInv, DayTracked
  <2>2. CASE run.caller = "rewrite"
    <3>1. store' = [store EXCEPT !.tail.next = run.day + 1] /\ Goto("rewrite")
      BY <1>5, <2>2 DEF Advance
    <3>2. run'.pc = "rewrite"
      BY <3>1, TrackTyped DEF Goto, RunRecord
    <3>3. /\ store'.since = store.since /\ store'.status = store.status
          /\ store'.revisions = store.revisions /\ store'.tail.next = run.day + 1
      BY <3>1, TrackTyped DEF StoreRecord, TailRecord
    <3>4. run.day = store.tail.next /\ store.tail # NoTail
      BY <2>1, <2>2, TrackTyped, SumsTyped DEF RunInv, DayInHand, RewriteFirst, Rewriting, Writing
    <3>5. \A d \in Day : ToRewrite(d) => ToRewrite(d)' \/ d = run.day
      <4> SUFFICES ASSUME NEW d \in Day, run.day <= d, d # run.day
                   PROVE  store'.tail # NoTail /\ run.day + 1 <= d
        BY <3>3, <3>4 DEF ToRewrite
      <4>1. run.day \in Int /\ d \in Int /\ run.day + 1 # 0
        BY <1>1 DEF Day
      <4> QED
        BY <3>3, <4>1 DEF NoTail, NoDay
    <3>6. \A d \in Day : Tracked(d) => Tracked(d)'
      BY <1>1, <3>3 DEF Tracked, Shows, ActiveStats, Active, InRevisionSet
    <3>7. DaysTracked'
      BY <2>1, <3>3, <3>5, <3>6 DEF TrackInv, DaysTracked
    <3>8. DayTracked' /\ Fingerprints'
      BY <3>2, <3>3 DEF TrackInv, DayTracked, Fingerprints, InRevisionSet
    <3> QED
      BY <3>7, <3>8 DEF TrackSafe
  <2>3. CASE run.caller # "rewrite"
    <3>1. store' = store /\ (Stop \/ run'.pc = "walk")
      BY <1>5, <2>3, TrackTyped DEF Advance, RunRecord
    <3>2. run'.pc \notin {"track", "advance"}
      BY <3>1 DEF Stop, Idle
    <3> QED
      BY <1>1, <2>1, <3>1, <3>2, TrackTyped, TrackKept
  <2> QED
    BY <2>2, <2>3
<1> QED
  BY <1>2, <1>3, <1>4, <1>5 DEF Write

LEMMA CommitTrack ==
  ASSUME TrackInv, Revising, NEW s \in Stat, Commit(s)
  PROVE  TrackSafe
<1>1. store' = store /\ run' = run /\ today' = today /\ amber' = amber
  BY DEF Commit, environment
<1>2. CASE rows' = rows
  <2>1. \A d : Tracked(d) => Tracked(d)'
    BY <1>1, <1>2 DEF Tracked, Shows, ActiveStats, Active
  <2>2. DayTracked'
    BY <1>1, <1>2, <2>1 DEF TrackInv, DayTracked, Complete, Records, Shows, ActiveStats, Active
  <2> QED
    BY <1>1, <2>1, <2>2 DEF TrackInv, TrackSafe, DaysTracked, ToRewrite, Fingerprints
<1>3. CASE rows' # rows
  <2>1. /\ run.pc = "verify" /\ run.day \in Day
        /\ rows' = [rows EXCEPT ![s][run.day] = NewRows[s]]
    BY <1>3, SumsQueue, CommitAdds, TrackTyped
  <2>2. \A d \in Day, t \in Stat : d # run.day => rows'[t][d] = rows[t][d]
    BY <2>1, TrackTyped DEF TypeOK
  <2>3. \A d \in Day : d # run.day /\ Tracked(d) => Tracked(d)'
    BY <1>1, <2>2 DEF Tracked, Shows, ActiveStats, Active
  <2>4. store.status[run.day] # "imported" \/ ToRewrite(run.day)
    <3>1. CASE run.caller = "rewrite"
      <4>1. store.tail # NoTail /\ run.day = store.tail.next
        BY <2>1, <3>1, TrackTyped, SumsTyped DEF RunInv, DayInHand, RewriteFirst, Rewriting, Writing
      <4> QED
        BY <2>1, <4>1 DEF ToRewrite, Day
    <3>2. CASE run.caller = "walk"
      <4>1. Follows(store, run.day)
        BY <2>1, <3>2, TrackTyped, SumsTyped DEF RunInv, DayInHand
      <4>2. \A d \in Day : store.status[d] = "imported" => d <= store.lastWritten
        BY TrackTyped, SumsTyped DEF TableInv, RowsOnImported
      <4> QED
        BY <2>1, <4>1, <4>2, TrackTyped, SumsTyped, HistoryNumbers DEF Follows, StoreInOrder
    <3> QED
      BY <3>1, <3>2, TrackTyped DEF NotByHand
  <2>5. DaysTracked' /\ DayTracked'
    BY <1>1, <2>1, <2>3, <2>4 DEF TrackInv, DaysTracked, DayTracked, ToRewrite
  <2> QED
    BY <1>1, <2>5 DEF TrackInv, TrackSafe, Fingerprints
<1> QED
  BY <1>2, <1>3

LEMMA OthersTrack ==
  ASSUME TrackInv, Revising, LoadedInTime', [Next]_vars, ~RunStep, \A s \in Stat : ~Commit(s)
  PROVE  TrackSafe
<1>1. rows' = rows /\ (store' = store \/ LoadChannels)
  BY OthersKeepRows
<1>2. \/ run' = run
      \/ run.pc # "track" /\ run'.pc \in {"idle", "guard"} /\ store' = store
  <2>1. CASE ScheduledRun \/ RunNow
    BY <2>1, TrackTyped DEF ScheduledRun, RunNow, Begin, At, RunRecord
  <2>2. CASE User
    BY <2>2 DEF User, StartImportDay, StartBackfill, Serve, Revising, Automatic, Undisturbed,
                AddChannels, LoadChannels, SetMode, table
  <2>3. CASE Crash
    BY <2>3, TrackTyped DEF Crash, Stop, Idle, Revising, TypeOK, Budget
  <2>4. CASE (Environment /\ ~Crash) \/ UNCHANGED vars
    BY <2>4 DEF Environment, Tick, Publish, UnexpectedChannel, table, vars
  <2> QED
    BY <2>1, <2>2, <2>3, <2>4 DEF Next
<1>3. /\ store'.status = store.status /\ store'.tail = store.tail
      /\ store'.revisions = store.revisions
  BY <1>1, TrackTyped DEF LoadChannels, StoreRecord
<1>4. /\ today \in Int /\ today' \in Int /\ today <= today'
      /\ \A d \in Day : amber[d].quality = "actual" => amber'[d] = amber[d]
  <2>1. CASE Tick
    BY <2>1, TrackTyped, MaxDayAssumption DEF Tick, TypeOK, Date
  <2>2. ASSUME NEW e \in Day, Publish(e)
        PROVE  today' = today /\ \A d \in Day : amber[d].quality = "actual" => amber'[d] = amber[d]
    BY <2>2, TrackTyped DEF Publish, TypeOK
  <2>3. ASSUME NEW e \in Day, UnexpectedChannel(e)
        PROVE  FALSE
    BY <2>3 DEF UnexpectedChannel, Revising
  <2>4. ASSUME ~Tick, \A e \in Day : ~Publish(e)
        PROVE  today' = today /\ amber' = amber
    BY <2>3, <2>4 DEF Next, vars, ScheduledRun, RunNow, Begin, User, StartBackfill, StartImportDay,
         AddChannels, LoadChannels, SetMode, Environment, Crash, environment
  <2>5. today \in Int
    BY TrackTyped, MaxDayAssumption DEF TypeOK, Date
  <2> QED
    BY <2>1, <2>2, <2>4, <2>5
<1>5. \A d \in Day, s \in Stat :
        (store.status[d] = "imported" \/ store' = store) /\ store'.since[s] <= d => store.since[s] <= d
  <2>1. CASE store' = store
    BY <2>1
  <2>2. CASE LoadChannels
    <3> SUFFICES ASSUME NEW d \in Day, NEW s \in Stat, store.status[d] = "imported",
                        store'.since[s] <= d
                 PROVE  store.since[s] <= d
      BY <2>1
    <3>1. d <= store.lastWritten
      BY TrackTyped, SumsTyped DEF TableInv, RowsOnImported
    <3>2. d \in Int /\ d > 0 /\ store.lastWritten \in Int /\ NoDay = 0 /\ store'.since[s] \in Int
      BY <2>2, TrackTyped, SumsTyped, HistoryNumbers, LoadedFrom DEF TypeOK
    <3>3. \/ store'.since[s] = store.since[s]
          \/ store.lastWritten = NoDay
          \/ store.lastWritten < store'.since[s]
      BY <2>2, TrackTyped, LoadsInTime DEF LoadedInTime
    <3> QED
      BY <3>1, <3>2, <3>3
  <2> QED
    BY <1>1, <2>1, <2>2
<1>6. \A d \in Day : (store.status[d] = "imported" \/ store' = store) /\ Tracked(d) => Tracked(d)'
  <2> SUFFICES ASSUME NEW d \in Day, store.status[d] = "imported" \/ store' = store, Tracked(d)
               PROVE  Tracked(d)'
    OBVIOUS
  <2>1. \A amount : Shows(d, amount) => Shows(d, amount)'
    BY <1>1, <1>5 DEF Shows, ActiveStats, Active
  <2>2. CASE today > d + 1 + RevisionDays
    BY <1>4, <2>2, UsageImportAssumption DEF Tracked, Day
  <2>3. CASE ~(today > d + 1 + RevisionDays)
    BY <1>3, <1>4, <2>1, <2>3 DEF Tracked, InRevisionSet
  <2> QED
    BY <2>2, <2>3
<1>7. DaysTracked'
  BY <1>2, <1>3, <1>6 DEF TrackInv, DaysTracked, ToRewrite
<1>8. DayTracked'
  <2>1. run'.pc \in {"track", "advance"} => run' = run /\ store' = store /\ run.day \in Day
    BY <1>1, <1>2, TrackTyped, SumsTyped DEF LoadChannels, At, TypeInv, DayAtHand
  <2> QED
    BY <1>1, <1>6, <2>1 DEF TrackInv, DayTracked, Records, Complete, Shows, ActiveStats, Active
<1>9. Fingerprints'
  BY <1>3 DEF TrackInv, Fingerprints, InRevisionSet
<1> QED
  BY <1>7, <1>8, <1>9 DEF TrackSafe

LEMMA TrackNext ==
  ASSUME TrackInv, Revising, RowsInReach, LoadedInTime', [Next]_vars
  PROVE  TrackInv'
<1>1. MatchInv' /\ ActualStays'
  BY MatchNext, ActualNext, TrackTyped DEF Revising
<1>2. CASE RunStep
  <2>1. ~Backfill
    BY TrackTyped, SumsTyped DEF Backfill, BackfillSkips, BackfillBegins, At, RunInOrder, NoBackfill
  <2>2. ~ImportDay
    <3>1. run.pc = "plan" => run.job = "import_day"
      BY TrackTyped, SumsTyped DEF TypeInv, DayRequested
    <3>2. run.job # "import_day"
      BY TrackTyped, SumsTyped DEF RunInv, JobsServed, Revising, Automatic
    <3> QED
      BY <3>1, <3>2, TrackTyped
         DEF ImportDay, PlanAppend, PlanReimport, PlanRefused, FetchDay, At, NotByHand
  <2> QED
    BY <1>1, <1>2, <2>1, <2>2, EarlyTrack, ReviseTrack, WalkTrack, RewriteTrack, WriteTrack
       DEF RunStep, TrackSafe, TrackInv
<1>3. CASE ~RunStep
  BY <1>1, <1>3, CommitTrack, OthersTrack DEF TrackSafe, TrackInv
<1> QED
  BY <1>2, <1>3

LEMMA TrackInit ==
  ASSUME Init
  PROVE  TrackInv
<1>1. MatchInv
  BY MatchInit
<1>2. /\ run = Idle /\ \A d \in Day : store.status[d] # "imported" /\ ~InRevisionSet(store, d)
  BY DEF Init, EmptyStore, InRevisionSet
<1> QED
  BY <1>1, <1>2 DEF TrackInv, DaysTracked, DayTracked, ActualStays, Fingerprints, Idle, Unfetched

\* An imported day whose statistics are out of date is one the integration looks at again:
\* the days that show something Amber may still change are in the revision set with the
\* fingerprint that was imported, until a revision starts the rewrite of all days from there
\* on; a rewritten day is tracked anew before the rewrite moves on (_async_track_revision,
\* _async_check_revisions, _async_range_rewrite).
THEOREM StaleDaysAreTracked ==
  ASSUME Revising
  PROVE  Spec /\ []RowsInReach /\ []LoadedInTime => []StaleDayIsTracked
<1>1. Init => TrackInv
  BY TrackInit
<1>2. TrackInv /\ RowsInReach /\ LoadedInTime' /\ [Next]_vars => TrackInv'
  BY TrackNext
<1>3. TrackInv => StaleDayIsTracked
  <2> SUFFICES ASSUME TrackInv, NEW d \in Day, store.status[d] = "imported",
                      \E s \in ActiveStats(d) : rows[s][d].state # amber[d].amount,
                      ~(run.pc = "track" /\ run.day = d)
               PROVE  \/ InRevisionSet(store, d)
                      \/ store.tail # NoTail /\ store.tail.next <= d /\ d <= store.tail.to
                      \/ today > d + 1 + RevisionDays
    BY DEF StaleDayIsTracked
  <2>1. CASE ToRewrite(d)
    <3>1. d <= store.lastWritten
      BY TrackTyped, SumsTyped DEF TableInv, RowsOnImported
    <3>2. store.tail.to = store.lastWritten
      BY <2>1, TrackTyped, SumsTyped DEF ToRewrite, TableInv, TailToEnd
    <3> QED
      BY <2>1, <3>1, <3>2 DEF ToRewrite
  <2>2. CASE ~ToRewrite(d)
    BY <2>2 DEF TrackInv, DaysTracked, Tracked, Shows
  <2> QED
    BY <2>1, <2>2
<1> QED
  BY <1>1, <1>2, <1>3, PTL DEF Spec

-----------------------------------------------------------------------------
(* A run that ends by itself leaves no lockout behind, also with backfills and import_day: *)
(* for a site that does not crash and whose recorder commits before VERIFY_TIMEOUT.  Each  *)
(* of the three further hypotheses describes a situation in which the code does lock the   *)
(* site out (the README gives the behaviours TLC finds without them).                      *)

Undelayed == MaxCrash = 0 /\ MaxSlow = 0

\* A run resumes an interrupted rewrite before it starts another or writes a day; import_day
\* does not, nor does a run that is in pricing-only mode when it would resume and no longer
\* when it revises.
RewriteResumed ==
  store.tail # NoTail =>
    \/ run.pc \in {"idle", "guard", "resume", "retention", "revisions", "checked"} \/ Rewriting
    \/ ~UsageActive /\ (At("compare") \/ (At("work") /\ run.job = "run"))

\* A backfill of days Amber has dropped starts within the history, or right after it.
BackfillAdjoins ==
  At("work") /\ run.job = "backfill" =>
    IF store.lastWritten = NoDay
    THEN \A d \in Day : BackfillFirst <= d /\ d <= store.marker => store.status[d] \in Skipped
    ELSE run.from < store.boundary => run.from <= store.marker + 1

\* A day that was not requested and now is has complete usage at Amber.
RequestedComplete ==
  \A d \in Day :
    RewriteDay(d) /\ store.status[d] = "not_requested" => Complete(run.cache[d])

\* Each statistic ends at last_written, or on the next day while that is being verified.
EndsAgree ==
  \A s \in Stat :
    \/ Latest(s) = ExpectedEnd(s)
    \/ At("verify") /\ store.lastWritten < run.day /\ Active(s, run.day) /\ Latest(s) = run.day

Between(st, d) == st.lastWritten < d /\ d <= st.marker

\* The marker is ahead of last_written by skipped days only.
Rests(st) ==
  /\ st.lastWritten <= st.marker
  /\ \A d \in Day : st.status[d] = "imported" => d <= st.lastWritten
  /\ \A d \in Day : st.status[d] \in Skipped => d <= st.marker
  /\ IF st.lastWritten = NoDay THEN \A d \in Day : st.status[d] # "not_requested"
     ELSE \A d \in Day : Between(st, d) => st.status[d] \in Skipped

\* Days from first on can be written in order without leaving one out.
Reaches(st, first) ==
  IF st.lastWritten = NoDay
  THEN \A d \in Day : first <= d /\ d <= st.marker => st.status[d] \in Skipped
  ELSE first <= st.marker + 1

RewriteAdjoins(st) ==
  st.tail # NoTail =>
    /\ st.tail.to <= Later(st.tail.requestedEnd, st.lastWritten)
    /\ Reaches(st, st.tail.next)

\* The walk and import_day append the day after the marker.
NextInLine(st, d) == IF st.lastWritten = NoDay THEN st.marker < d ELSE d = st.marker + 1

WritesNext ==
  run.pc \in {"fetch_day", "write", "verify"} =>
    \/ NextInLine(store, run.day)
    \/ run.day <= store.lastWritten /\ run.caller \in {"rewrite", "reimport"}
    \/ /\ run.caller = "rewrite" /\ store.lastWritten # NoDay /\ Between(store, run.day)
       /\ Complete(Records)

CallerPlaced ==
  /\ run.pc = "fetch_day" => run.caller \in {"append", "reimport"}
  /\ run.pc \in Writing /\ run.caller = "rewrite" => run.day = store.tail.next
  /\ run.pc \in Writing /\ run.caller = "walk" => run.leading = NoDay
  /\ run.pc \in {"fetch_day", "write", "verify"} /\ run.caller = "reimport" =>
       run.day = store.lastWritten

Placed ==
  /\ run.recovery = NoDay
  /\ run.pc = "walk" => NextInLine(store, run.day) /\ (run.leading # NoDay => store.lastWritten = NoDay)
  /\ run.pc = "backfill" => Reaches(store, BackfillFirst)
  /\ Rewriting => store.tail # NoTail
  /\ WritesNext /\ CallerPlaced
  /\ run.pc = "verify" => Complete(Records)
  /\ run.pc \in {"track", "advance"} =>
       run.day <= store.lastWritten /\ (run.caller = "walk" => run.day = store.marker)

TableRests == QueueSteady /\ InHand /\ EndsAgree

RestInv ==
  PastInv /\ AddedFirst /\ BoundaryPast /\ TableRests /\ Rests(store) /\ RewriteAdjoins(store) /\ Placed

RestStep == BoundaryPast' /\ Rests(store') /\ RewriteAdjoins(store') /\ Placed'

LEMMA RestTyped ==
  ASSUME RestInv
  PROVE  /\ TypeInv /\ TypeOK /\ store \in StoreRecord /\ run \in RunRecord /\ today \in Date
         /\ Rests(store) /\ RewriteAdjoins(store) /\ Placed /\ BoundaryPast /\ TableRests
BY DEF RestInv, PastInv, TypeInv, TypeOK

LEMMA RestNumbers ==
  ASSUME NEW st \in StoreRecord
  PROVE  /\ st.marker \in Nat /\ st.lastWritten \in Nat /\ st.tail.to \in Nat
         /\ st.tail.next \in Nat /\ st.tail.requestedEnd \in Nat /\ st.boundary \in Nat
         /\ Day \subseteq Nat /\ NoDay = 0 /\ \A d \in Day : d > 0
         /\ st.status \in [Day -> Status]
         /\ MaxDay \in Nat /\ \A d \in Day : d <= MaxDay
         /\ st.marker <= MaxDay
<1>1. /\ Day \subseteq Nat /\ NoDay = 0 /\ MaxDay \in Nat
      /\ \A d \in Day : d > 0 /\ d <= MaxDay
      /\ \A d \in Day \cup {NoDay} : d \in Nat /\ d <= MaxDay
      /\ \A d \in Date \cup {NoDay} : d \in Nat
  BY MaxDayAssumption DEF Day, NoDay, Date
<1>2. /\ st.tail.to \in Nat /\ st.tail.next \in Nat /\ st.tail.requestedEnd \in Nat
      /\ st.status \in [Day -> Status]
  BY DEF StoreRecord, TailRecord
<1>3. /\ st.marker \in Day \cup {NoDay} /\ st.lastWritten \in Day \cup {NoDay}
      /\ st.boundary \in Date \cup {NoDay}
  BY DEF StoreRecord
<1>4. /\ st.marker \in Nat /\ st.lastWritten \in Nat /\ st.boundary \in Nat
      /\ st.marker <= MaxDay
  BY <1>1, <1>3, Zenon
<1> QED
  BY <1>1, <1>2, <1>4

-----------------------------------------------------------------------------
(* Saves *)

\* A save that leaves marker, last_written and the rewrite, and notes as failed or empty
\* only days that are not between the two.
SameDays(old, new) ==
  /\ new.marker = old.marker /\ new.lastWritten = old.lastWritten
  /\ \A d \in Day : \/ new.status[d] = old.status[d]
                    \/ new.status[d] \in {"failed", "empty"} /\ ~Between(old, d)

LEMMA SameDaysRest ==
  ASSUME NEW old \in StoreRecord, NEW new, SameDays(old, new)
  PROVE  /\ Rests(old) => Rests(new)
         /\ \A first : Reaches(old, first) => Reaches(new, first)
         /\ new.tail = old.tail /\ RewriteAdjoins(old) => RewriteAdjoins(new)
<1>1. \A d \in Day : Between(old, d) <=> Between(new, d)
  BY DEF SameDays, Between
<1>2. Rests(old) => Rests(new)
  BY <1>1 DEF SameDays, Rests, Skipped
<1>3. \A first : Reaches(old, first) => Reaches(new, first)
  <2> SUFFICES ASSUME NEW first, Reaches(old, first), old.lastWritten = NoDay, NEW d \in Day,
                      first <= d, d <= old.marker
               PROVE  new.status[d] \in Skipped
    BY DEF Reaches, SameDays
  <2>1. Between(old, d)
    BY RestNumbers DEF Between
  <2> QED
    BY <2>1 DEF Reaches, SameDays
<1> QED
  BY <1>2, <1>3 DEF RewriteAdjoins, SameDays

LEMMA SettersLeaveDays ==
  ASSUME NEW st \in StoreRecord
  PROVE  /\ SameDays(st, st)
         /\ \A day : SameDays(st, SetPending(st, day)) /\ SetPending(st, day).tail = st.tail
         /\ SameDays(st, ClearPending(st)) /\ ClearPending(st).tail = st.tail
         /\ \A b, on : SameDays(st, SetRetention(st, b, on)) /\ SetRetention(st, b, on).tail = st.tail
         /\ \A day, on, hash : /\ SameDays(st, SetRevision(st, day, on, hash))
                               /\ SetRevision(st, day, on, hash).tail = st.tail
         /\ \A days : SameDays(st, DropRevisions(st, days)) /\ DropRevisions(st, days).tail = st.tail
         /\ \A on : SameDays(st, SetChecked(st, on)) /\ SetChecked(st, on).tail = st.tail
         /\ \A tail : SameDays(st, SetTail(st, tail)) /\ SetTail(st, tail).tail = tail
BY DEF SameDays, StoreRecord, SetPending, ClearPending, SetRetention, SetRevision, DropRevisions,
       SetChecked, SetTail

\* A day is noted as failed or empty.
LEMMA MarkDayRests ==
  ASSUME NEW st \in StoreRecord, NEW day \in Day, ~Between(st, day), NEW how \in {"failed", "empty"}
  PROVE  SameDays(st, MarkDay(st, day, how)) /\ MarkDay(st, day, how).tail = st.tail
<1> DEFINE new == MarkDay(st, day, how)
<1>1. /\ new.marker = st.marker /\ new.lastWritten = st.lastWritten /\ new.tail = st.tail
      /\ \A d \in Day : d # day => new.status[d] = st.status[d]
      /\ new.status[day] = IF st.status[day] = "imported" THEN "imported" ELSE how
  BY DEF StoreRecord, MarkDay
<1> HIDE DEF new
<1> QED
  BY <1>1 DEF SameDays, new

LEMMA NoteEmptyRests ==
  ASSUME NEW st \in StoreRecord, NEW day \in Day, ~Between(st, day), NEW on \in Date
  PROVE  SameDays(st, NoteEmpty(st, day, on)) /\ NoteEmpty(st, day, on).tail = st.tail
<1> DEFINE mid == [st EXCEPT !.emptySeen[day] = @ \cup {on}]
<1>1. mid \in StoreRecord
  BY DEF StoreRecord
<1>2. /\ mid.marker = st.marker /\ mid.lastWritten = st.lastWritten /\ mid.status = st.status
      /\ mid.tail = st.tail
  BY DEF StoreRecord
<1> HIDE DEF mid
<1>3. ~Between(mid, day)
  BY <1>2 DEF Between
<1>4. SameDays(mid, MarkDay(mid, day, "empty")) /\ MarkDay(mid, day, "empty").tail = mid.tail
  BY <1>1, <1>3, MarkDayRests
<1>5. MarkDay(mid, day, "empty") = NoteEmpty(st, day, on)
  BY DEF NoteEmpty, mid
<1> QED
  BY <1>2, <1>4, <1>5 DEF SameDays, Between

\* A day of the history, or the next one, is imported.
LEMMA ImportRests ==
  ASSUME NEW st \in StoreRecord, Rests(st), NEW day \in Day,
         IF st.lastWritten = NoDay THEN st.marker < day ELSE day <= st.marker + 1
  PROVE  LET new == MarkImported(st, day) IN
         /\ Rests(new) /\ new.tail = st.tail
         /\ new.lastWritten = Later(st.lastWritten, day) /\ new.marker = Later(st.marker, day)
         /\ \A first \in Nat : Reaches(st, first) /\ (st.lastWritten = NoDay => first <= day)
              => Reaches(new, first)
<1> DEFINE new == MarkImported(st, day)
<1>1. /\ new.marker = Later(st.marker, day) /\ new.lastWritten = Later(st.lastWritten, day)
      /\ new.tail = st.tail
      /\ \A d \in Day : new.status[d] = IF d = day THEN "imported" ELSE st.status[d]
  BY DEF StoreRecord, MarkImported
<1>2. /\ st.marker \in Nat /\ st.lastWritten \in Nat /\ NoDay = 0 /\ day \in Nat /\ day > 0
      /\ Day \subseteq Nat /\ st.lastWritten <= st.marker
  BY RestNumbers DEF Rests
<1> HIDE DEF new
<1>3. new.lastWritten # NoDay /\ new.lastWritten <= new.marker
  BY <1>1, <1>2 DEF Later
<1>4. \A d \in Day : new.status[d] = "imported" => d <= new.lastWritten
  BY <1>1, <1>2 DEF Rests, Later
<1>5. \A d \in Day : new.status[d] \in Skipped => d <= new.marker
  BY <1>1, <1>2 DEF Rests, Later, Skipped
<1>6. \A d \in Day : Between(new, d) => d # day /\ st.lastWritten # NoDay /\ Between(st, d)
  <2> SUFFICES ASSUME NEW d \in Day, Between(new, d)
               PROVE  d # day /\ st.lastWritten # NoDay /\ Between(st, d)
    OBVIOUS
  <2>1. new.lastWritten < d /\ d <= new.marker /\ d \in Nat
    BY <1>2 DEF Between
  <2>2. day < d /\ st.lastWritten < d
    BY <1>1, <1>2, <2>1 DEF Later
  <2>3. d <= st.marker
    BY <1>1, <1>2, <2>1, <2>2 DEF Later
  <2>4. st.lastWritten # NoDay
    BY <1>2, <2>2, <2>3
  <2> QED
    BY <1>2, <2>2, <2>3, <2>4 DEF Between
<1>7. Rests(new)
  BY <1>1, <1>3, <1>4, <1>5, <1>6 DEF Rests
<1>8. ASSUME NEW first \in Nat, Reaches(st, first), st.lastWritten = NoDay => first <= day
      PROVE  Reaches(new, first)
  BY <1>1, <1>2, <1>3, <1>8 DEF Reaches, Later
<1> QED
  BY <1>1, <1>7, <1>8 DEF new

\* Days of the history, or from the next one on, are skipped.
LEMMA SkipRests ==
  ASSUME NEW st \in StoreRecord, Rests(st), NEW first \in Nat, NEW last \in Nat,
         NEW how \in Skipped,
         st.lastWritten = NoDay => how # "not_requested",
         st.lastWritten # NoDay => first <= st.marker + 1
  PROVE  LET new == MarkSkipped(st, first, last, how) IN
         /\ Rests(new) /\ new.tail = st.tail
         /\ new.lastWritten = st.lastWritten /\ new.marker = Later(st.marker, last)
         /\ new.boundary = st.boundary
         /\ \A d \in Day : new.status[d] = IF d \in first..last THEN how ELSE st.status[d]
<1> DEFINE new == MarkSkipped(st, first, last, how)
<1>1. /\ new.marker = Later(st.marker, last) /\ new.lastWritten = st.lastWritten
      /\ new.tail = st.tail /\ new.boundary = st.boundary
      /\ \A d \in Day : new.status[d] = IF d \in first..last THEN how ELSE st.status[d]
  BY DEF StoreRecord, MarkSkipped
<1>2. st.marker \in Nat /\ st.lastWritten \in Nat /\ Day \subseteq Nat /\ how # "imported"
  BY RestNumbers DEF Skipped
<1> HIDE DEF new
<1>3. new.lastWritten <= new.marker
  BY <1>1, <1>2 DEF Rests, Later
<1>4. \A d \in Day : new.status[d] = "imported" => d <= new.lastWritten
  BY <1>1, <1>2 DEF Rests
<1>5. \A d \in Day : new.status[d] \in Skipped => d <= new.marker
  BY <1>1, <1>2 DEF Rests, Later
<1>6. \A d \in Day : st.lastWritten # NoDay /\ Between(new, d) => new.status[d] \in Skipped
  BY <1>1, <1>2 DEF Rests, Between, Later
<1>7. st.lastWritten = NoDay => \A d \in Day : new.status[d] # "not_requested"
  BY <1>1 DEF Rests
<1>8. Rests(new)
  BY <1>1, <1>3, <1>4, <1>5, <1>6, <1>7 DEF Rests
<1> QED
  BY <1>1, <1>8 DEF new

\* What the rewrite in the Store says when it is begun, or has moved on.
LEMMA TailRests ==
  ASSUME NEW st \in StoreRecord, NEW new, SameDays(st, new), Rests(st),
         new.tail.to <= Later(new.tail.requestedEnd, st.lastWritten),
         Reaches(st, new.tail.next)
  PROVE  Rests(new) /\ RewriteAdjoins(new)
BY SameDaysRest DEF RewriteAdjoins, SameDays

-----------------------------------------------------------------------------
(* The steps of the run *)

\* Where a run holds no day.
Quiet == {"idle", "guard", "resume", "retention", "revisions", "compare", "checked", "work", "plan"}

LEMMA QuietPlaced ==
  ASSUME RestInv, run'.recovery = NoDay,
         run'.pc \in Quiet \/ (run'.pc = "rewrite" /\ store'.tail # NoTail)
  PROVE  Placed'
BY DEF Placed, WritesNext, CallerPlaced, Rewriting, Writing, Quiet

LEMMA GotoPlaced ==
  ASSUME RestInv, NEW pc, Goto(pc), pc \in Quiet \/ (pc = "rewrite" /\ store'.tail # NoTail)
  PROVE  Placed'
<1>1. run'.pc = pc /\ run'.recovery = NoDay
  BY RestTyped DEF Goto, RunRecord, Placed
<1> QED
  BY <1>1, QuietPlaced

LEMMA StopPlaced ==
  ASSUME RestInv, Stop
  PROVE  Placed'
BY QuietPlaced DEF Stop, Idle, Quiet

\* A save of the run that keeps the days.
LEMMA SaveRests ==
  ASSUME RestInv, SameDays(store, store'), store'.tail = store.tail
  PROVE  Rests(store') /\ RewriteAdjoins(store')
BY RestTyped, SameDaysRest

LEMMA BoundaryRests ==
  ASSUME RestInv, store'.boundary = store.boundary, today' = today
  PROVE  BoundaryPast'
BY DEF RestInv, BoundaryPast

\* Guard 1 finds agreement: no day is to be recovered.
LEMMA GuardRests ==
  ASSUME RestInv, Guard
  PROVE  RestStep
<1>1. today' = today /\ run.pc = "guard"
  BY DEF Guard, GuardRefuses, GuardAccepts, GuardSkipped, environment, At
<1>2. StatisticsAgree
  BY <1>1 DEF RestInv, TableRests, EndsAgree, StatisticsAgree, At
<1>3. SameDays(store, store') /\ store'.tail = store.tail /\ store'.boundary = store.boundary
  BY RestTyped, SettersLeaveDays, BoundaryKept DEF Guard, GuardRefuses, GuardAccepts, GuardSkipped
<1>4. Placed'
  <2>1. CASE GuardAccepts
    <3>1. run'.pc \in {"plan", "resume"} /\ run'.recovery = NoDay
      BY <1>2, <2>1, RestTyped DEF GuardAccepts, RunRecord
    <3> QED
      BY <3>1, QuietPlaced DEF Quiet
  <2> QED
    BY <2>1, GotoPlaced, StopPlaced DEF Guard, GuardRefuses, GuardSkipped, Quiet
<1> QED
  BY <1>1, <1>3, <1>4, SaveRests, BoundaryRests DEF RestStep

LEMMA RetentionRests ==
  ASSUME RestInv, RetentionStep
  PROVE  RestStep
<1>1. today' = today /\ run.pc = "retention"
  BY DEF RetentionStep, RetentionDone, RetentionFails, environment, At
<1>2. Fallback <= today
  BY RestTyped, UsageImportAssumption DEF Fallback, Later, Date
<1>3. MeasuredBoundary <= today
  <2> DEFINE held == {d \in Day : d < today /\ ~Empty(Usage(d))}
  <2>1. held # {} => MinOf(held) \in held
    BY MinOfDays
  <2> HIDE DEF held
  <2>2. MeasuredBoundary = IF held = {} THEN Fallback ELSE MinOf(held)
    BY DEF MeasuredBoundary, held
  <2>3. \A d \in held : d <= today
    BY RestTyped DEF held, Day, Date
  <2> QED
    BY <1>2, <2>1, <2>2, <2>3
<1>4. store' = store \/ \E b : b <= today /\ store' = SetRetention(store, b, today)
  BY <1>2, <1>3 DEF RetentionStep, RetentionDone, RetentionFails
<1>5. SameDays(store, store') /\ store'.tail = store.tail
  BY <1>4, RestTyped, SettersLeaveDays
<1>6. BoundaryPast'
  <2>1. \A b : SetRetention(store, b, today).boundary = b
    BY RestTyped DEF SetRetention, StoreRecord
  <2> QED
    BY <1>1, <1>4, <2>1, RestTyped DEF BoundaryPast
<1>7. Placed'
  <2>1. CASE GoOn
    <3>1. run'.pc = "revisions" /\ run'.recovery = NoDay
      BY <2>1, RestTyped DEF GoOn, RunRecord, Placed
    <3> QED
      BY <3>1, QuietPlaced DEF Quiet
  <2> QED
    BY <2>1, StopPlaced DEF RetentionStep, RetentionDone, RetentionFails
<1> QED
  BY <1>5, <1>6, <1>7, SaveRests DEF RestStep

\* A revision's rewrite goes from a day of the history to its end.
LEMMA ReviseRests ==
  ASSUME RestInv, RewriteResumed, Revise
  PROVE  RestStep
<1>1. today' = today /\ run.pc \in {"revisions", "compare", "checked"}
  BY DEF Revise, FetchRevisions, RevisionsAlreadyChecked, CompareRevisions, RevisionsChecked,
         environment, At
<1>2. CASE FetchRevisions
  <2>1. SameDays(store, store') /\ store'.tail = store.tail /\ store'.boundary = store.boundary
    BY <1>2, RestTyped, SettersLeaveDays, BoundaryKept DEF FetchRevisions
  <2>2. Goto("compare") \/ (\E cache : run' = [run EXCEPT !.cache = cache]) \/ Stop
    BY <1>2 DEF FetchRevisions, RequestFails
  <2>3. ASSUME NEW cache, run' = [run EXCEPT !.cache = cache]
        PROVE  Placed'
    <3>1. run'.pc = run.pc /\ run'.recovery = NoDay
      BY <2>3, RestTyped DEF RunRecord, Placed
    <3> QED
      BY <1>1, <3>1, QuietPlaced DEF Quiet
  <2>4. Placed'
    BY <2>2, <2>3, GotoPlaced, StopPlaced DEF Quiet
  <2> QED
    BY <1>1, <2>1, <2>4, SaveRests, BoundaryRests DEF RestStep
<1>3. CASE RevisionsAlreadyChecked \/ RevisionsChecked
  <2>1. SameDays(store, store') /\ store'.tail = store.tail /\ store'.boundary = store.boundary
    BY <1>3, RestTyped, SettersLeaveDays, BoundaryKept DEF RevisionsAlreadyChecked, RevisionsChecked
  <2>2. Placed'
    BY <1>3, GotoPlaced DEF RevisionsAlreadyChecked, RevisionsChecked, Quiet
  <2> QED
    BY <1>1, <2>1, <2>2, SaveRests, BoundaryRests DEF RestStep
<1>4. CASE CompareRevisions
  <2> DEFINE final == {d \in RevisionDaysOf(store) : Final(d)}
             changed == {d \in RevisionDaysOf(store) : Changed(d)}
             st == DropRevisions(store, final)
             first == MinOf(changed)
  <2>1. /\ st \in StoreRecord /\ SameDays(store, st) /\ st.tail = store.tail
        /\ st.boundary = store.boundary
    BY RestTyped, DropRevisionsType, SettersLeaveDays, BoundaryKept
  <2>0. UsageActive => st.tail = NoTail
    BY <1>4, <2>1 DEF CompareRevisions, At, RewriteResumed, Rewriting, Writing
  <2> HIDE DEF st
  <2>2. Rests(st) /\ RewriteAdjoins(st)
    BY <2>1, RestTyped, SameDaysRest
  <2>3. changed # {} => first \in Day
    <3>1. changed \in SUBSET Day
      BY DEF RevisionDaysOf
    <3> QED
      BY <3>1, MinOfDays
  <2> HIDE DEF first
  <2>4. CASE /\ changed # {} /\ UsageActive /\ first <= store.lastWritten
             /\ store' = BeginRewrite(st, first, st.lastWritten, st.lastWritten, "error")
             /\ run' = [run EXCEPT !.pc = "rewrite", !.after = "checked"]
    <3> DEFINE tail == [next |-> first, to |-> st.lastWritten,
                        requestedEnd |-> st.lastWritten, onEmpty |-> "error"]
    <3>1. store' = SetTail(st, tail)
      BY <2>0, <2>4 DEF BeginRewrite
    <3>2. tail.next = first /\ tail.to = st.lastWritten /\ tail.requestedEnd = st.lastWritten
      OBVIOUS
    <3> HIDE DEF tail
    <3>3. first > 0 /\ first <= st.lastWritten /\ st.lastWritten <= st.marker
          /\ first \in Nat /\ st.lastWritten \in Nat /\ st.marker \in Nat /\ NoDay = 0
      BY <2>1, <2>2, <2>3, <2>4, RestNumbers DEF SameDays, Rests
    <3>4. SameDays(st, store') /\ store'.tail = tail /\ store'.boundary = store.boundary
      BY <2>1, <3>1, SettersLeaveDays, BoundaryKept
    <3>5. Reaches(st, first) /\ tail.to <= Later(tail.requestedEnd, st.lastWritten)
      BY <3>2, <3>3 DEF Reaches, Later
    <3>6. Rests(store') /\ RewriteAdjoins(store')
      BY <2>1, <2>2, <3>2, <3>4, <3>5, TailRests
    <3>7. run'.pc = "rewrite" /\ run'.recovery = NoDay /\ store'.tail # NoTail
      BY <2>4, <3>2, <3>3, <3>4, RestTyped DEF RunRecord, Placed, NoTail
    <3> QED
      BY <1>1, <3>4, <3>6, <3>7, QuietPlaced, BoundaryRests DEF RestStep
  <2>5. CASE store' = st /\ Goto("checked")
    BY <1>1, <2>1, <2>2, <2>5, GotoPlaced, BoundaryRests DEF RestStep, Quiet
  <2> QED
    BY <1>4, <2>4, <2>5 DEF CompareRevisions, st, first
<1> QED
  BY <1>2, <1>3, <1>4 DEF Revise

LEMMA BeginWriteRests ==
  ASSUME RestInv, today' = today, NEW day \in Day, NEW caller \in {"walk", "rewrite"},
         BeginWrite(day, caller),
         caller = "walk" => run.leading = NoDay /\ NextInLine(store, day),
         caller = "rewrite" =>
           /\ store.tail # NoTail /\ day = store.tail.next
           /\ \/ NextInLine(store, day) \/ day <= store.lastWritten
              \/ store.lastWritten # NoDay /\ Between(store, day) /\ Complete(run.cache[day])
  PROVE  RestStep
<1>1. SameDays(store, store') /\ store'.tail = store.tail /\ store'.boundary = store.boundary
  BY RestTyped, SettersLeaveDays, BoundaryKept DEF BeginWrite
<1>2. CASE Stop
  BY <1>1, <1>2, StopPlaced, SaveRests, BoundaryRests DEF RestStep
<1>3. CASE run' = [run EXCEPT !.pc = "write", !.day = day, !.caller = caller,
                              !.base = Baselines(day)]
  <2>1. /\ run'.pc = "write" /\ run'.day = day /\ run'.caller = caller
        /\ run'.recovery = NoDay /\ run'.leading = run.leading /\ run'.cache = run.cache
    BY <1>3, RestTyped DEF RunRecord, Placed
  <2>2. WritesNext' /\ CallerPlaced'
    BY <1>1, <2>1 DEF WritesNext, CallerPlaced, NextInLine, Between, SameDays, Records, Writing
  <2>3. Placed'
    BY <1>1, <2>1, <2>2 DEF Placed, Rewriting, Writing
  <2> QED
    BY <1>1, <2>3, SaveRests, BoundaryRests DEF RestStep
<1> QED
  BY <1>2, <1>3 DEF BeginWrite

\* The walk moves on to another day, without or with a save.
LEMMA WalkPlaced ==
  ASSUME RestInv, run'.pc = "walk", run'.recovery = run.recovery,
         NextInLine(store', run'.day), run'.leading # NoDay => store'.lastWritten = NoDay
  PROVE  Placed'
BY RestTyped DEF Placed, WritesNext, CallerPlaced, Rewriting, Writing

\* The days before Amber's retention are skipped, from the day after the marker on.
LEMMA WalkStartRests ==
  ASSUME RestInv, RewriteResumed, WalkStart
  PROVE  RestStep
<1> DEFINE b == store.boundary
           start == IF store.marker # NoDay THEN store.marker + 1 ELSE b
           last == Earlier(b - 1, Yesterday)
           from == IF start < b THEN last + 1 ELSE start
<1>1. /\ today' = today /\ run.pc = "work" /\ store.tail = NoTail /\ run.recovery = NoDay
  <2>1. today' = today /\ run.pc = "work"
    BY DEF WalkStart, environment, At
  <2>2. mode = "full"
    BY DEF WalkStart
  <2> QED
    BY <2>1, <2>2, RestTyped DEF RewriteResumed, Rewriting, Writing, UsageActive, At, Placed
<1>2. /\ store' = IF start < b THEN MarkSkipped(store, start, last, "unavailable") ELSE store
      /\ run' = [run EXCEPT !.pc = "walk", !.yesterday = Yesterday, !.day = from,
                            !.windowEnd = from - 1, !.leading = NoDay]
  BY <1>1 DEF WalkStart
<1>3. /\ b \in Nat /\ b > 0 /\ b <= today /\ today \in Nat /\ store.marker \in Nat
      /\ store.lastWritten \in Nat /\ store.lastWritten <= store.marker /\ NoDay = 0
  <2>1. store.boundary \in Date /\ today \in Date /\ b <= today
    BY <1>1, RestTyped DEF TypeInv, BoundarySet, BoundaryPast
  <2> QED
    BY <2>1, RestTyped, RestNumbers, MaxDayAssumption DEF Rests, Date
<1>4. run'.pc = "walk" /\ run'.recovery = run.recovery /\ run'.day = from /\ run'.leading = NoDay
  BY <1>2, RestTyped DEF RunRecord
<1>5. CASE start < b
  <2>1. start = store.marker + 1 /\ last = b - 1 /\ last \in Nat /\ from = b
    BY <1>3, <1>5 DEF Earlier, Yesterday
  <2>2. store' = MarkSkipped(store, start, last, "unavailable")
    BY <1>2, <1>5
  <2> HIDE DEF start, last, from, b
  <2>3. /\ Rests(store') /\ store'.tail = store.tail /\ store'.boundary = store.boundary
        /\ store'.lastWritten = store.lastWritten /\ store'.marker = Later(store.marker, last)
    BY <1>3, <2>1, <2>2, RestTyped, SkipRests DEF Skipped
  <2>4. NextInLine(store', run'.day)
    BY <1>3, <1>4, <1>5, <2>1, <2>3 DEF NextInLine, Later
  <2> QED
    BY <1>1, <1>4, <2>3, <2>4, WalkPlaced, BoundaryRests DEF RestStep, RewriteAdjoins
<1>6. CASE ~(start < b)
  <2>1. store' = store /\ NextInLine(store, from)
    BY <1>2, <1>3, <1>6 DEF NextInLine
  <2> QED
    BY <1>1, <1>4, <2>1, RestTyped, WalkPlaced, BoundaryRests DEF RestStep
<1> QED
  BY <1>5, <1>6

LEMMA WalkRests ==
  ASSUME RestInv, RewriteResumed, Walk
  PROVE  RestStep
<1>1. today' = today
  BY DEF Walk, WalkStart, WalkFetch, WalkLeading, WalkSkipsLeading, WalkPatience, WalkWrite,
         WalkDone, NothingToWalk, environment
<1>2. /\ store.marker \in Nat /\ store.lastWritten \in Nat /\ NoDay = 0 /\ Day \subseteq Nat
      /\ store.lastWritten <= store.marker /\ \A d \in Day : d > 0
  BY RestTyped, RestNumbers DEF Rests
<1>3. ASSUME NEW d, WalkAt(d)
      PROVE  /\ run.pc = "walk" /\ d = run.day /\ NextInLine(store, d) /\ store.tail = NoTail
             /\ run.leading # NoDay => store.lastWritten = NoDay
             /\ d < today
  <2>1. run.pc = "walk" /\ d = run.day /\ d <= run.yesterday
    BY <1>3 DEF WalkAt, At
  <2>2. run.yesterday < today /\ run.yesterday \in Int /\ run.day \in Int /\ today \in Int
    BY RestTyped, MaxDayAssumption DEF RestInv, PastInv, RunPast, RunRecord, Date
  <2> QED
    BY <2>1, <2>2, RestTyped DEF Placed, RewriteResumed, Rewriting, Writing, At
<1>4. CASE WalkStart
  BY <1>4, WalkStartRests
<1>5. CASE NothingToWalk \/ WalkDone
  BY <1>1, <1>5, RestTyped, StopPlaced, BoundaryRests DEF NothingToWalk, WalkDone, RestStep
<1>6. CASE WalkFetch
  <2>1. store' = store /\ WalkAt(run.day)
        /\ (Stop \/ \E c, e : run' = [run EXCEPT !.cache = c, !.windowEnd = e])
    BY <1>6 DEF WalkFetch, RequestFails
  <2>2. ASSUME NEW c, NEW e, run' = [run EXCEPT !.cache = c, !.windowEnd = e]
        PROVE  Placed'
    <3>1. /\ run'.pc = run.pc /\ run'.recovery = run.recovery /\ run'.day = run.day
          /\ run'.leading = run.leading
      BY <2>2, RestTyped DEF RunRecord
    <3> QED
      BY <1>3, <2>1, <3>1, WalkPlaced
  <2>3. Placed'
    BY <2>1, <2>2, StopPlaced
  <2> QED
    BY <1>1, <2>1, <2>3, RestTyped, BoundaryRests DEF RestStep
<1>7. CASE WalkLeading
  <2>1. PICK d \in Day : /\ WalkDay(d) /\ store.lastWritten = NoDay
          /\ run' = [run EXCEPT !.leading = IF @ = NoDay THEN d ELSE @, !.day = d + 1]
    BY <1>7 DEF WalkLeading
  <2>2. run'.pc = "walk" /\ run'.recovery = run.recovery /\ run'.day = d + 1 /\ WalkAt(d)
    BY <2>1, RestTyped DEF RunRecord, WalkDay, WalkAt, At
  <2>3. NextInLine(store, d + 1) /\ store' = store
    BY <1>2, <1>3, <1>7, <2>1, <2>2 DEF NextInLine, WalkLeading
  <2> QED
    BY <1>1, <2>1, <2>2, <2>3, RestTyped, WalkPlaced, BoundaryRests DEF RestStep
<1>8. CASE WalkSkipsLeading
  <2>1. PICK d \in Day : /\ WalkDay(d) /\ run.leading # NoDay
          /\ store' = SetRetention(MarkSkipped(store, run.leading, d - 1, "unavailable"), d, today)
          /\ run' = [run EXCEPT !.leading = NoDay]
    BY <1>8 DEF WalkSkipsLeading
  <2>2. /\ run'.pc = "walk" /\ run'.recovery = run.recovery /\ run'.day = d
        /\ run'.leading = NoDay /\ WalkAt(d)
    BY <2>1, RestTyped DEF RunRecord, WalkDay, WalkAt, At
  <2>3. /\ store.lastWritten = NoDay /\ NextInLine(store, d) /\ store.tail = NoTail /\ d < today
    BY <1>3, <2>1, <2>2
  <2>4. run.leading \in Nat /\ d - 1 \in Nat /\ d - 1 \in Day \cup {NoDay}
    <3>1. run.leading \in Day \cup {NoDay} /\ d - 1 \in Day \cup {NoDay}
      BY RestTyped, NextOfDay DEF RunRecord
    <3>2. \A e \in Day \cup {NoDay} : e \in Nat
      BY <1>2
    <3> QED
      BY <3>1, <3>2, Zenon
  <2> DEFINE st == MarkSkipped(store, run.leading, d - 1, "unavailable")
  <2>5. /\ Rests(st) /\ st.tail = NoTail /\ st.lastWritten = NoDay
        /\ st.marker = Later(store.marker, d - 1) /\ st \in StoreRecord
    BY <2>3, <2>4, RestTyped, SkipRests, MarkSkippedType DEF Skipped
  <2> HIDE DEF st
  <2>6. store' = SetRetention(st, d, today)
    BY <2>1 DEF st
  <2>7. /\ SameDays(st, store') /\ store'.tail = NoTail /\ store'.boundary = d
    BY <2>5, <2>6, SettersLeaveDays DEF SetRetention, StoreRecord
  <2>8. Rests(store') /\ RewriteAdjoins(store')
    BY <2>5, <2>7, SameDaysRest DEF RewriteAdjoins
  <2>9. NextInLine(store', d) /\ store'.lastWritten = NoDay
    BY <1>2, <2>3, <2>5, <2>7 DEF NextInLine, SameDays, Later
  <2>10. BoundaryPast'
    BY <1>1, <1>2, <2>3, <2>7, RestTyped DEF BoundaryPast, Date
  <2> QED
    BY <2>2, <2>8, <2>9, <2>10, WalkPlaced DEF RestStep
<1>9. CASE WalkPatience
  <2>1. PICK d \in Day : /\ WalkDay(d) /\ store.lastWritten # NoDay
          /\ LET st == NoteEmpty(store, d, today) IN
             \/ store' = st /\ Stop
             \/ store' = MarkSkipped(st, d, d, "gap") /\ run' = [run EXCEPT !.day = d + 1]
    BY <1>9 DEF WalkPatience, RequestFails
  <2> DEFINE st == NoteEmpty(store, d, today)
  <2>2. WalkAt(d)
    BY <2>1 DEF WalkDay
  <2>3. d = store.marker + 1 /\ store.tail = NoTail /\ run.pc = "walk" /\ run.leading = NoDay
    BY <1>3, <2>1, <2>2 DEF NextInLine
  <2>4. ~Between(store, d)
    BY <1>2, <2>3 DEF Between
  <2>5. /\ SameDays(store, st) /\ st.tail = store.tail /\ st.boundary = store.boundary
        /\ st \in StoreRecord
    BY <2>4, RestTyped, NoteEmptyRests, NoteEmptyType, BoundaryKept
  <2> HIDE DEF st
  <2>6. Rests(st) /\ RewriteAdjoins(st) /\ st.marker = store.marker
        /\ st.lastWritten = store.lastWritten
    BY <2>5, RestTyped, SameDaysRest DEF SameDays
  <2>7. CASE store' = st /\ Stop
    BY <1>1, <2>5, <2>6, <2>7, StopPlaced, BoundaryRests DEF RestStep
  <2>8. CASE store' = MarkSkipped(st, d, d, "gap") /\ run' = [run EXCEPT !.day = d + 1]
    <3>1. /\ Rests(store') /\ store'.tail = NoTail /\ store'.boundary = store.boundary
          /\ store'.lastWritten = store.lastWritten /\ store'.marker = Later(store.marker, d)
      BY <1>2, <2>1, <2>3, <2>5, <2>6, <2>8, SkipRests DEF Skipped
    <3>2. /\ run'.pc = "walk" /\ run'.recovery = run.recovery /\ run'.day = d + 1
          /\ run'.leading = NoDay
      BY <2>3, <2>8, RestTyped DEF RunRecord
    <3>3. NextInLine(store', d + 1)
      BY <1>2, <2>1, <2>3, <3>1 DEF NextInLine, Later
    <3> QED
      BY <1>1, <3>1, <3>2, <3>3, WalkPlaced, BoundaryRests DEF RestStep, RewriteAdjoins
  <2> QED
    BY <2>1, <2>7, <2>8 DEF st
<1>10. CASE WalkWrite
  <2>1. PICK d \in Day : WalkDay(d) /\ run.leading = NoDay /\ BeginWrite(d, "walk")
    BY <1>10 DEF WalkWrite
  <2> QED
    BY <1>1, <1>3, <2>1, BeginWriteRests DEF WalkDay
<1> QED
  BY <1>4, <1>5, <1>6, <1>7, <1>8, <1>9, <1>10 DEF Walk

LEMMA MoveTail ==
  ASSUME NEW st \in StoreRecord, NEW n
  PROVE  LET new == [st EXCEPT !.tail.next = n] IN
         /\ SameDays(st, new) /\ new.tail.next = n /\ new.tail.to = st.tail.to
         /\ new.tail.requestedEnd = st.tail.requestedEnd /\ new.boundary = st.boundary
BY DEF SameDays, StoreRecord, TailRecord

\* The rewrite's next day, when the rewrite does not skip it: one that is not resolved, or
\* was not requested before.
LEMMA RewriteReaches ==
  ASSUME RestInv, RequestedComplete, NEW d \in Day, RewriteAt(d)
  PROVE  /\ store.tail # NoTail /\ d = store.tail.next
         /\ store.tail.to <= Later(store.tail.requestedEnd, store.lastWritten)
         /\ Reaches(store, d)
         /\ RewriteSkips(d) => Reaches(store, d + 1)
         /\ RewriteDay(d) => \/ NextInLine(store, d) \/ d <= store.lastWritten
                             \/ /\ store.lastWritten # NoDay /\ Between(store, d)
                                /\ Complete(run.cache[d])
<1>1. run.pc = "rewrite" /\ d = store.tail.next /\ d <= store.tail.to /\ store.tail # NoTail
  BY RestTyped DEF RewriteAt, At, Placed, Rewriting
<1>2. store.tail.to <= Later(store.tail.requestedEnd, store.lastWritten) /\ Reaches(store, d)
  BY <1>1, RestTyped DEF RewriteAdjoins
<1>3. /\ store.marker \in Nat /\ store.lastWritten \in Nat /\ NoDay = 0 /\ Day \subseteq Nat
      /\ store.lastWritten <= store.marker /\ \A e \in Day : e > 0
      /\ store.tail.to \in Nat /\ store.tail.requestedEnd \in Nat
  BY RestTyped, RestNumbers DEF Rests
<1>4. ASSUME RewriteSkips(d)
      PROVE  Reaches(store, d + 1)
  <2>1. CASE store.lastWritten = NoDay
    BY <1>2, <1>3, <2>1 DEF Reaches
  <2>2. CASE store.lastWritten # NoDay
    <3>1. store.status[d] \in Skipped => d <= store.marker
      BY RestTyped DEF Rests
    <3>2. ~Requested(d) => d <= store.lastWritten
      BY <1>1, <1>2, <1>3 DEF Requested, Later
    <3>3. d <= store.marker
      BY <1>3, <1>4, <3>1, <3>2 DEF RewriteSkips
    <3> QED
      BY <1>3, <2>2, <3>3 DEF Reaches
  <2> QED
    BY <2>1, <2>2
<1>5. ASSUME RewriteDay(d)
      PROVE  \/ NextInLine(store, d) \/ d <= store.lastWritten
             \/ store.lastWritten # NoDay /\ Between(store, d) /\ Complete(run.cache[d])
  <2>1. store.status[d] \in Skipped => store.status[d] = "not_requested" /\ Complete(run.cache[d])
    BY <1>5 DEF RewriteDay, RewriteSkips, RequestedComplete
  <2>2. CASE store.lastWritten = NoDay
    <3>1. ~(d <= store.marker)
      BY <1>2, <1>3, <2>1, <2>2, RestTyped DEF Reaches, Rests
    <3> QED
      BY <1>3, <2>2, <3>1 DEF NextInLine
  <2>3. CASE store.lastWritten # NoDay
    <3>1. d <= store.marker + 1
      BY <1>2, <2>3 DEF Reaches
    <3>2. Between(store, d) => Complete(run.cache[d])
      BY <2>1, <2>3, RestTyped DEF Rests
    <3>3. d = store.marker + 1 \/ d <= store.lastWritten \/ Between(store, d)
      BY <1>3, <3>1 DEF Between
    <3> QED
      BY <2>3, <3>2, <3>3 DEF NextInLine
  <2> QED
    BY <2>2, <2>3
<1> QED
  BY <1>1, <1>2, <1>4, <1>5

LEMMA RewritePatienceRests ==
  ASSUME RestInv, RequestedComplete, RewritePatience
  PROVE  RestStep
<1> DEFINE ST(d) == NoteEmpty(store, d, today)
<1>1. today' = today
  BY DEF RewritePatience, environment
<1>2. PICK d \in Day : /\ RewriteDay(d) /\ Empty(run.cache[d])
        /\ \/ store' = [MarkSkipped(ST(d), d, d, "gap") EXCEPT !.tail.next = d + 1] /\ run' = run
           \/ store' = ST(d) /\ Stop
  BY DEF RewritePatience
<1> DEFINE st == ST(d)
<1>3. RewriteAt(d)
  BY <1>2 DEF RewriteDay
<1>4. /\ store.tail # NoTail /\ d = store.tail.next /\ Reaches(store, d)
      /\ store.tail.to <= Later(store.tail.requestedEnd, store.lastWritten)
      /\ NextInLine(store, d) \/ d <= store.lastWritten
  <2>1. ~Complete(run.cache[d])
    BY <1>2 DEF Empty, Complete
  <2> QED
    BY <1>2, <1>3, <2>1, RewriteReaches
<1>5. /\ store.marker \in Nat /\ store.lastWritten \in Nat /\ NoDay = 0 /\ d \in Nat /\ d > 0
      /\ store.lastWritten <= store.marker /\ Day \subseteq Nat
  BY RestTyped, RestNumbers DEF Rests
<1>6. ~Between(store, d)
  BY <1>4, <1>5 DEF Between, NextInLine
<1>7. /\ SameDays(store, st) /\ st.tail = store.tail /\ st.boundary = store.boundary
      /\ st \in StoreRecord
  BY <1>6, RestTyped, NoteEmptyRests, NoteEmptyType, BoundaryKept
<1> HIDE DEF ST
<1>8. /\ Rests(st) /\ RewriteAdjoins(st) /\ st.marker = store.marker
      /\ st.lastWritten = store.lastWritten /\ Reaches(st, d)
  BY <1>4, <1>7, RestTyped, SameDaysRest DEF SameDays
<1>9. CASE store' = st /\ Stop
  BY <1>1, <1>7, <1>8, <1>9, StopPlaced, BoundaryRests DEF RestStep
<1>10. CASE store' = [MarkSkipped(st, d, d, "gap") EXCEPT !.tail.next = d + 1] /\ run' = run
  <2> DEFINE sk == MarkSkipped(st, d, d, "gap")
  <2>1. /\ Rests(sk) /\ sk.tail = store.tail /\ sk.boundary = store.boundary
        /\ sk.lastWritten = store.lastWritten /\ sk.marker = Later(store.marker, d)
        /\ sk \in StoreRecord
        /\ \A e \in Day : sk.status[e] = IF e \in d..d THEN "gap" ELSE st.status[e]
    <3>1. st.lastWritten # NoDay => d <= st.marker + 1
      BY <1>8 DEF Reaches
    <3>2. d \in Day \cup {NoDay} /\ "gap" \in Skipped
      BY DEF Skipped
    <3> QED
      BY <1>5, <1>7, <1>8, <3>1, <3>2, SkipRests, MarkSkippedType
  <2> HIDE DEF sk
  <2>2. Reaches(sk, d + 1)
    <3>1. CASE store.lastWritten = NoDay
      <4>1. ASSUME NEW e \in Day, d + 1 <= e, e <= sk.marker
            PROVE  sk.status[e] \in Skipped
        <5>1. e \notin d..d /\ e <= st.marker /\ d <= e
          BY <1>5, <1>8, <2>1, <4>1 DEF Later
        <5> QED
          BY <1>8, <2>1, <3>1, <5>1 DEF Reaches
      <4> QED
        BY <2>1, <3>1, <4>1 DEF Reaches
    <3>2. CASE store.lastWritten # NoDay
      BY <1>5, <2>1, <3>2 DEF Reaches, Later
    <3> QED
      BY <3>1, <3>2
  <2>3. /\ SameDays(sk, store') /\ store'.tail.next = d + 1 /\ store'.tail.to = store.tail.to
        /\ store'.tail.requestedEnd = store.tail.requestedEnd /\ store'.boundary = store.boundary
    <3>1. store' = [sk EXCEPT !.tail.next = d + 1]
      BY <1>10 DEF sk
    <3> QED
      BY <2>1, <3>1, MoveTail
  <2>4. Rests(store') /\ RewriteAdjoins(store')
    BY <1>4, <2>1, <2>2, <2>3, TailRests
  <2>5. run'.pc = "rewrite" /\ run'.recovery = NoDay /\ store'.tail # NoTail
    BY <1>3, <1>5, <1>10, <2>3, RestTyped DEF RewriteAt, At, Placed, NoTail
  <2> QED
    BY <1>1, <2>3, <2>4, <2>5, QuietPlaced, BoundaryRests DEF RestStep
<1> QED
  BY <1>2, <1>9, <1>10

LEMMA RewriteRests ==
  ASSUME RestInv, RequestedComplete, Rewrite
  PROVE  RestStep
<1>1. today' = today
  BY DEF Rewrite, ResumeTail, RewriteSkip, RewriteFetch, RewriteUnavailable, RewritePatience,
         RewriteWrite, RewriteDone, environment
<1>2. CASE ResumeTail
  <2>1. store' = store
    BY <1>2 DEF ResumeTail
  <2>2. CASE store.tail # NoTail /\ run' = [run EXCEPT !.pc = "rewrite", !.after = "retention"]
    <3>1. run'.pc = "rewrite" /\ run'.recovery = NoDay
      BY <2>2, RestTyped DEF RunRecord, Placed
    <3> QED
      BY <1>1, <2>1, <2>2, <3>1, RestTyped, QuietPlaced, BoundaryRests DEF RestStep
  <2>3. CASE Goto("retention")
    BY <1>1, <2>1, <2>3, RestTyped, GotoPlaced, BoundaryRests DEF RestStep, Quiet
  <2> QED
    BY <1>2, <2>2, <2>3 DEF ResumeTail
<1>3. CASE RewriteSkip
  <2>1. PICK d \in Day : /\ RewriteAt(d) /\ RewriteSkips(d) /\ run' = run
                         /\ store' = [store EXCEPT !.tail.next = d + 1]
    BY <1>3 DEF RewriteSkip
  <2>2. /\ SameDays(store, store') /\ store'.tail.next = d + 1 /\ store'.tail.to = store.tail.to
        /\ store'.tail.requestedEnd = store.tail.requestedEnd /\ store'.boundary = store.boundary
    BY <2>1, RestTyped, MoveTail
  <2>3. Reaches(store, d + 1) /\ store.tail.to <= Later(store.tail.requestedEnd, store.lastWritten)
    BY <2>1, RewriteReaches
  <2>4. Rests(store') /\ RewriteAdjoins(store')
    BY <2>2, <2>3, RestTyped, TailRests
  <2>5. store'.tail # NoTail
    <3>1. d \in Nat /\ d > 0
      BY RestTyped, RestNumbers
    <3> QED
      BY <2>2, <3>1 DEF NoTail, NoDay
  <2>6. run'.pc = "rewrite" /\ run'.recovery = NoDay
    BY <2>1, RestTyped DEF RewriteAt, At, Placed
  <2> QED
    BY <1>1, <2>2, <2>4, <2>5, <2>6, QuietPlaced, BoundaryRests DEF RestStep
<1>4. CASE RewriteFetch
  <2>1. PICK d \in Day : /\ RewriteAt(d)
                         /\ Stop \/ \E c : run' = [run EXCEPT !.cache = c]
    BY <1>4 DEF RewriteFetch, RequestFails
  <2>2. store' = store /\ store.tail # NoTail /\ run.pc = "rewrite"
    BY <1>4, <2>1, RestTyped DEF RewriteFetch, RewriteAt, At, Placed, Rewriting
  <2>3. ASSUME NEW c, run' = [run EXCEPT !.cache = c]
        PROVE  Placed'
    <3>1. run'.pc = "rewrite" /\ run'.recovery = NoDay
      BY <2>2, <2>3, RestTyped DEF RunRecord, Placed
    <3> QED
      BY <2>2, <3>1, QuietPlaced
  <2> QED
    BY <1>1, <2>1, <2>2, <2>3, RestTyped, StopPlaced, BoundaryRests DEF RestStep
<1>5. CASE RewriteUnavailable
  BY <1>1, <1>5, RestTyped, StopPlaced, BoundaryRests DEF RewriteUnavailable, RestStep
<1>6. CASE RewritePatience
  BY <1>6, RewritePatienceRests
<1>7. CASE RewriteWrite
  <2>1. PICK d \in Day : RewriteDay(d) /\ BeginWrite(d, "rewrite")
    BY <1>7 DEF RewriteWrite
  <2>2. RewriteAt(d)
    BY <2>1 DEF RewriteDay
  <2> QED
    BY <1>1, <2>1, <2>2, RewriteReaches, BeginWriteRests
<1>8. CASE RewriteDone
  <2>1. store' = SetTail(store, NoTail) /\ (Stop \/ (Goto(run.after) /\ run.after # "end"))
    BY <1>8, Zenon DEF RewriteDone
  <2>2. SameDays(store, store') /\ store'.tail = NoTail /\ store'.boundary = store.boundary
    BY <2>1, RestTyped, SettersLeaveDays, BoundaryKept
  <2>3. Rests(store') /\ RewriteAdjoins(store')
    BY <2>2, RestTyped, SameDaysRest DEF RewriteAdjoins
  <2>4. run.after \in {"retention", "checked", "end"}
    BY RestTyped DEF RunRecord
  <2>5. Placed'
    BY <2>1, <2>4, StopPlaced, GotoPlaced DEF Quiet
  <2> QED
    BY <1>1, <2>2, <2>3, <2>5, BoundaryRests DEF RestStep
<1> QED
  BY <1>2, <1>3, <1>4, <1>5, <1>6, <1>7, <1>8 DEF Rewrite

-----------------------------------------------------------------------------
(* Writing a day *)

LEMMA VerifyPassesRests ==
  ASSUME RestInv, RewriteResumed, VerifyPasses
  PROVE  RestStep /\ store'.lastWritten = Later(store.lastWritten, run.day)
<1>1. /\ today' = today /\ run.pc = "verify" /\ store' = MarkImported(store, run.day)
      /\ run.day \in Day
  BY RestTyped DEF VerifyPasses, environment, At, TypeInv, DayAtHand
<1>2. /\ run'.pc = "track" /\ run'.day = run.day /\ run'.caller = run.caller
      /\ run'.recovery = NoDay /\ run'.leading = run.leading
  BY RestTyped DEF VerifyPasses, Goto, RunRecord, Placed
<1>3. /\ store.marker \in Nat /\ store.lastWritten \in Nat /\ NoDay = 0 /\ run.day \in Nat
      /\ run.day > 0 /\ store.lastWritten <= store.marker /\ store.tail.next \in Nat
      /\ store.tail.to \in Nat /\ store.tail.requestedEnd \in Nat
  BY <1>1, RestTyped, RestNumbers DEF Rests
<1>4. /\ NextInLine(store, run.day) \/ run.day <= store.marker
      /\ run.caller = "walk" => NextInLine(store, run.day)
      /\ store.lastWritten = NoDay => store.marker < run.day
  BY <1>1, <1>3, RestTyped DEF Placed, WritesNext, NextInLine, Between
<1>5. IF store.lastWritten = NoDay THEN store.marker < run.day ELSE run.day <= store.marker + 1
  BY <1>3, <1>4 DEF NextInLine
<1>6. /\ Rests(store') /\ store'.tail = store.tail
      /\ store'.lastWritten = Later(store.lastWritten, run.day)
      /\ store'.marker = Later(store.marker, run.day)
      /\ \A first \in Nat : Reaches(store, first) /\ (store.lastWritten = NoDay => first <= run.day)
           => Reaches(store', first)
  BY <1>1, <1>5, RestTyped, ImportRests
<1>7. store'.boundary = store.boundary
  BY <1>1, RestTyped, BoundaryKept
<1>8. store.tail # NoTail => run.caller = "rewrite" /\ run.day = store.tail.next
  BY <1>1, RestTyped DEF RewriteResumed, Rewriting, Placed, CallerPlaced, Writing, At
<1>9. RewriteAdjoins(store')
  <2> SUFFICES ASSUME store.tail # NoTail
               PROVE  /\ store.tail.to <= Later(store.tail.requestedEnd, store'.lastWritten)
                      /\ Reaches(store', store.tail.next)
    BY <1>6 DEF RewriteAdjoins
  <2>1. /\ store.tail.to <= Later(store.tail.requestedEnd, store.lastWritten)
        /\ Reaches(store, store.tail.next)
    BY RestTyped DEF RewriteAdjoins
  <2>2. store.tail.to <= Later(store.tail.requestedEnd, store'.lastWritten)
    BY <1>3, <1>6, <2>1 DEF Later
  <2> QED
    BY <1>3, <1>6, <1>8, <2>1, <2>2
<1>10. Placed'
  <2>1. run.day <= store'.lastWritten /\ (run.caller = "walk" => run.day = store'.marker)
    BY <1>3, <1>4, <1>6 DEF Later, NextInLine
  <2>2. CallerPlaced'
    BY <1>1, <1>2, <1>6, RestTyped DEF Placed, CallerPlaced, Writing
  <2> QED
    BY <1>1, <1>2, <1>6, <2>1, <2>2, RestTyped DEF Placed, WritesNext, Rewriting, Writing
<1> QED
  BY <1>1, <1>6, <1>7, <1>9, <1>10, BoundaryRests DEF RestStep

\* An import that reads back in part or not at all is not met: every commit arrives in time,
\* and the rows of the day are the last ones.
LEMMA AlwaysReadsBack ==
  ASSUME RestInv, Undelayed
  PROVE  ~VerifyTimesOut
<1> SUFFICES ASSUME VerifyTimesOut
             PROVE  FALSE
  OBVIOUS
<1>1. run.pc = "verify" /\ ~ReadsBack /\ run.day \in Day /\ Complete(Records)
  BY RestTyped DEF VerifyTimesOut, At, TypeInv, DayAtHand, Placed
<1>2. queue = <<>>
  BY RestTyped DEF VerifyTimesOut, TypeOK, Budget, Undelayed
<1>3. \A s \in ActiveStats(run.day) : rows[s][run.day] = NewRows[s]
  BY <1>1, <1>2, RestTyped DEF TableRests, InHand
<1>4. PICK s \in ActiveStats(run.day) :
        (~InsideHistory(run.day) \/ run.caller = "reimport") /\ Latest(s) # run.day
  BY <1>1, <1>3 DEF ReadsBack
<1>5. s \in Stat /\ Active(s, run.day) /\ HasRow(s, run.day)
  <2>1. NewRows[s] # NoRow
    <3>1. Records.amount \in Amount /\ Records.amount # 0
      BY <1>1, RestTyped, AmountAssumption
         DEF Complete, Records, RunRecord, Answer, Nothing, Partial, Unfetched
    <3>2. NewRows[s] = [state |-> Records.amount, sum |-> run.base[s] + Records.amount]
      BY DEF NewRows, ActiveStats
    <3> QED
      BY <3>1, <3>2 DEF NoRow
  <2> QED
    BY <1>3, <2>1 DEF ActiveStats, HasRow
<1>6. Latest(s) \in Day /\ run.day <= Latest(s)
  <2> DEFINE S == {e \in Day : HasRow(s, e)}
  <2>1. S # {} /\ S \in SUBSET Day /\ run.day \in S
    BY <1>1, <1>5
  <2>2. MaxOf(S) \in S /\ \A e \in S : e <= MaxOf(S)
    BY <2>1, MaxOfDays
  <2> QED
    BY <2>1, <2>2 DEF Latest
<1>7. Latest(s) = ExpectedEnd(s)
  BY <1>4, <1>5, RestTyped DEF TableRests, EndsAgree
<1>8. Latest(s) = store.lastWritten /\ run.day <= store.lastWritten
  BY <1>1, <1>6, <1>7, RestTyped, RestNumbers DEF ExpectedEnd
<1>9. run.day # store.lastWritten /\ InsideHistory(run.day)
  BY <1>1, <1>4, <1>8, RestTyped, RestNumbers DEF InsideHistory
<1> QED
  BY <1>1, <1>4, <1>9, RestTyped DEF Placed, CallerPlaced

LEMMA WriteRests ==
  ASSUME RestInv, RewriteResumed, Undelayed, Write, ~VerifyPasses
  PROVE  RestStep
<1>1. today' = today
  BY DEF Write, WriteRefused, WriteRows, VerifyTimesOut, TrackRevision, Advance, environment
<1>2. /\ store.marker \in Nat /\ store.lastWritten \in Nat /\ NoDay = 0 /\ Day \subseteq Nat
      /\ store.lastWritten <= store.marker /\ \A d \in Day : d > 0
  BY RestTyped, RestNumbers DEF Rests
<1>3. CASE WriteRefused
  <2>1. /\ run.pc = "write" /\ ~Complete(Records) /\ run.day \in Day /\ Stop
        /\ \/ store' = MarkDay(ClearPending(store), run.day, "failed")
           \/ store' = MarkDay(store, run.day, "failed")
    BY <1>3, RestTyped DEF WriteRefused, At, TypeInv, DayAtHand
  <2>2. ~Between(store, run.day)
    <3>1. NextInLine(store, run.day) \/ run.day <= store.lastWritten
      BY <2>1, RestTyped DEF Placed, WritesNext
    <3>2. run.day \in Nat /\ run.day > 0
      BY <1>2, <2>1
    <3> QED
      BY <1>2, <3>1, <3>2 DEF NextInLine, Between
  <2> DEFINE st == ClearPending(store)
  <2>3. /\ st \in StoreRecord /\ SameDays(store, st) /\ st.tail = store.tail
        /\ st.boundary = store.boundary
    BY RestTyped, PendingType, SettersLeaveDays, BoundaryKept
  <2> HIDE DEF st
  <2>4. Rests(st) /\ RewriteAdjoins(st) /\ ~Between(st, run.day)
    BY <2>2, <2>3, RestTyped, SameDaysRest DEF SameDays, Between
  <2>5. ASSUME NEW x \in StoreRecord, Rests(x), RewriteAdjoins(x), ~Between(x, run.day),
               x.boundary = store.boundary, store' = MarkDay(x, run.day, "failed")
        PROVE  RestStep
    <3>1. SameDays(x, store') /\ store'.tail = x.tail /\ store'.boundary = store.boundary
      BY <2>1, <2>5, MarkDayRests, BoundaryKept
    <3> QED
      BY <1>1, <2>1, <2>5, <3>1, SameDaysRest, StopPlaced, BoundaryRests DEF RestStep
  <2> QED
    BY <2>1, <2>2, <2>3, <2>4, <2>5, RestTyped DEF st
<1>4. CASE WriteRows
  <2>1. /\ run.pc = "write" /\ Complete(Records) /\ store' = store
        /\ run'.pc = "verify" /\ run'.day = run.day /\ run'.caller = run.caller
        /\ run'.recovery = NoDay /\ run'.leading = run.leading /\ run'.cache = run.cache
    BY <1>4, RestTyped DEF WriteRows, At, Goto, RunRecord, Placed
  <2>2. WritesNext' /\ CallerPlaced'
    BY <2>1, RestTyped DEF Placed, WritesNext, CallerPlaced, Records, Writing
  <2>3. Placed'
    BY <2>1, <2>2, RestTyped DEF Placed, Rewriting, Records, Writing
  <2> QED
    BY <1>1, <2>1, <2>3, RestTyped, BoundaryRests DEF RestStep
<1>5. CASE TrackRevision
  <2>1. SameDays(store, store') /\ store'.tail = store.tail /\ store'.boundary = store.boundary
    BY <1>5, RestTyped, SettersLeaveDays, BoundaryKept DEF TrackRevision
  <2>2. /\ run.pc = "track" /\ run'.pc = "advance" /\ run'.day = run.day
        /\ run'.caller = run.caller /\ run'.recovery = NoDay /\ run'.leading = run.leading
    BY <1>5, RestTyped DEF TrackRevision, At, Goto, RunRecord, Placed
  <2>3. Placed'
    BY <2>1, <2>2, RestTyped DEF Placed, WritesNext, CallerPlaced, Rewriting, Writing, SameDays
  <2> QED
    BY <1>1, <2>1, <2>3, SaveRests, BoundaryRests DEF RestStep
<1>6. CASE Advance
  <2>1. /\ run.pc = "advance" /\ run.day \in Day /\ run.day <= store.lastWritten
        /\ run.caller = "walk" => run.day = store.marker /\ run.leading = NoDay
        /\ run.caller = "rewrite" => store.tail # NoTail /\ run.day = store.tail.next
    BY <1>6, RestTyped
       DEF Advance, At, TypeInv, DayAtHand, Placed, CallerPlaced, Rewriting, Writing
  <2>2. CASE run.caller = "walk" /\ run' = [run EXCEPT !.pc = "walk", !.day = @ + 1]
             /\ UNCHANGED store
    <3>1. /\ run'.pc = "walk" /\ run'.day = run.day + 1 /\ run'.recovery = run.recovery
          /\ run'.leading = NoDay
      BY <2>1, <2>2, RestTyped DEF RunRecord
    <3>2. NextInLine(store', run'.day)
      BY <1>2, <2>1, <2>2, <3>1 DEF NextInLine
    <3> QED
      BY <1>1, <2>2, <3>1, <3>2, RestTyped, WalkPlaced, BoundaryRests DEF RestStep
  <2>3. CASE run.caller = "rewrite" /\ Goto("rewrite")
             /\ store' = [store EXCEPT !.tail.next = run.day + 1]
    <3>1. /\ SameDays(store, store') /\ store'.tail.next = run.day + 1
          /\ store'.tail.to = store.tail.to
          /\ store'.tail.requestedEnd = store.tail.requestedEnd
          /\ store'.boundary = store.boundary
      BY <2>3, RestTyped, MoveTail
    <3>2. /\ Reaches(store, run.day + 1)
          /\ store.tail.to <= Later(store.tail.requestedEnd, store.lastWritten)
      BY <1>2, <2>1, <2>3, RestTyped DEF Reaches, RewriteAdjoins
    <3>3. Rests(store') /\ RewriteAdjoins(store')
      BY <3>1, <3>2, RestTyped, TailRests
    <3>4. store'.tail # NoTail
      <4>1. run.day \in Nat /\ run.day > 0
        BY <1>2, <2>1
      <4> QED
        BY <3>1, <4>1 DEF NoTail, NoDay
    <3> QED
      BY <1>1, <2>3, <3>1, <3>3, <3>4, GotoPlaced, BoundaryRests DEF RestStep
  <2>4. CASE Stop /\ UNCHANGED store
    BY <1>1, <2>4, RestTyped, StopPlaced, BoundaryRests DEF RestStep
  <2> QED
    BY <1>6, <2>2, <2>3, <2>4 DEF Advance
<1> QED
  BY <1>3, <1>4, <1>5, <1>6, AlwaysReadsBack DEF Write

-----------------------------------------------------------------------------
(* Backfills and import_day *)

LEMMA BackfillSkipsRests ==
  ASSUME RestInv, RewriteResumed, BackfillAdjoins, BackfillSkips
  PROVE  RestStep
<1> DEFINE end == Earlier(run.upto, Yesterday)
           oldLast == Earlier(end, store.boundary - 1)
           st == IF run.from <= oldLast THEN MarkSkipped(store, run.from, oldLast, "unavailable")
                 ELSE store
           first == BackfillFirst
           forward == st.lastWritten # NoDay /\ first > st.lastWritten + 1
           gapFirst == IF st.marker # NoDay THEN st.marker + 1 ELSE first
           new == IF forward /\ gapFirst < first
                  THEN MarkSkipped(st, gapFirst, first - 1, "not_requested") ELSE st
<1>1. /\ today' = today /\ run.pc = "work" /\ run.job = "backfill"
      /\ store.tail = NoTail
  <2>1. today' = today /\ run.pc = "work" /\ run.job = "backfill"
    BY DEF BackfillSkips, environment, At
  <2> QED
    BY <2>1 DEF RewriteResumed, Rewriting, Writing, At
<1>2. \/ (store' = store \/ store' = st) /\ Stop
      \/ store' = new /\ run' = [run EXCEPT !.pc = "backfill", !.yesterday = Yesterday]
  BY DEF BackfillSkips
<1>3. /\ run.from \in Nat /\ run.upto \in Nat /\ Yesterday \in Int
      /\ store.boundary \in Nat /\ store.boundary > 0
      /\ store.marker \in Nat /\ store.lastWritten \in Nat /\ NoDay = 0
      /\ store.lastWritten <= store.marker /\ Day \subseteq Nat
  <2>1. \A d \in Day \cup {NoDay} : d \in Nat
    BY RestTyped, RestNumbers
  <2>2. run.from \in Day \cup {NoDay} /\ run.upto \in Day \cup {NoDay}
    BY RestTyped DEF RunRecord
  <2>3. run.from \in Nat /\ run.upto \in Nat
    BY <2>1, <2>2, Zenon
  <2>4. store.boundary \in Date /\ today \in Date
    BY <1>1, RestTyped DEF TypeInv, BoundarySet
  <2>5. store.boundary \in Nat /\ store.boundary > 0 /\ Yesterday \in Int
    BY <2>4, MaxDayAssumption DEF Date, Yesterday
  <2> QED
    BY <2>3, <2>5, RestTyped, RestNumbers DEF Rests
<1>4. IF store.lastWritten = NoDay
      THEN \A d \in Day : first <= d /\ d <= store.marker => store.status[d] \in Skipped
      ELSE run.from < store.boundary => run.from <= store.marker + 1
  BY <1>1 DEF BackfillAdjoins, At
<1>5. /\ end \in Int /\ oldLast \in Int /\ oldLast < store.boundary
      /\ first = Later(run.from, store.boundary) /\ first \in Nat
      /\ store.boundary <= first /\ run.from <= first
  BY <1>3 DEF Earlier, Later, BackfillFirst
<1> HIDE DEF first, end
<1>6. /\ st \in StoreRecord /\ Rests(st) /\ st.tail = NoTail /\ st.boundary = store.boundary
      /\ st.lastWritten = store.lastWritten /\ st.marker \in Nat /\ store.marker <= st.marker
      /\ store.lastWritten = NoDay =>
           \A d \in Day : first <= d /\ d <= st.marker => st.status[d] \in Skipped
  <2>1. CASE run.from <= oldLast
    <3>1. /\ oldLast \in Nat /\ (store.lastWritten # NoDay => run.from <= store.marker + 1)
      BY <1>3, <1>4, <1>5, <2>1
    <3> HIDE DEF oldLast
    <3>2. st = MarkSkipped(store, run.from, oldLast, "unavailable")
      BY <2>1
    <3>3. oldLast \in Day \cup {NoDay}
      <4>1. oldLast <= MaxDay
        <5>1. run.upto <= MaxDay
          BY RestTyped, MaxDayAssumption DEF RunRecord, Day, NoDay
        <5> QED
          BY <1>3, <1>5, <5>1, RestTyped, RestNumbers DEF oldLast, end, Earlier
      <4> QED
        BY <3>1, <4>1, MaxDayAssumption DEF Day, NoDay
    <3> HIDE DEF st
    <3>4. /\ Rests(st) /\ st.tail = NoTail /\ st.boundary = store.boundary
          /\ st.lastWritten = store.lastWritten /\ st.marker = Later(store.marker, oldLast)
          /\ st \in StoreRecord
          /\ \A d \in Day : st.status[d] = IF d \in (run.from)..oldLast THEN "unavailable"
                                           ELSE store.status[d]
      <4>1. "unavailable" \in Skipped
        BY DEF Skipped
      <4>2. st \in StoreRecord
        BY <3>2, <3>3, <4>1, RestTyped, MarkSkippedType
      <4> QED
        BY <1>1, <1>3, <3>1, <3>2, <3>3, <4>1, <4>2, RestTyped, SkipRests
    <3>5. st.marker \in Nat /\ store.marker <= st.marker
      BY <1>3, <3>1, <3>4 DEF Later
    <3>6. ASSUME store.lastWritten = NoDay, NEW d \in Day, first <= d, d <= st.marker
          PROVE  st.status[d] \in Skipped
      <4>1. d \notin (run.from)..oldLast /\ d <= store.marker
        BY <1>3, <1>5, <3>1, <3>4, <3>6 DEF Later
      <4> QED
        BY <1>4, <3>4, <3>6, <4>1
    <3> QED
      BY <3>4, <3>5, <3>6
  <2>2. CASE ~(run.from <= oldLast)
    <3>1. st = store
      BY <2>2
    <3> HIDE DEF st
    <3> QED
      BY <1>1, <1>3, <1>4, <3>1, RestTyped
  <2> QED
    BY <2>1, <2>2
<1> HIDE DEF st
<1>7. CASE (store' = store \/ store' = st) /\ Stop
  BY <1>1, <1>6, <1>7, RestTyped, StopPlaced, BoundaryRests DEF RestStep, RewriteAdjoins
<1>8. CASE store' = new /\ run' = [run EXCEPT !.pc = "backfill", !.yesterday = Yesterday]
  <2>1. /\ run'.pc = "backfill" /\ run'.recovery = NoDay /\ run'.from = run.from
    BY <1>8, RestTyped DEF RunRecord, Placed
  <2>2. /\ Rests(store') /\ store'.tail = NoTail /\ store'.boundary = store.boundary
        /\ Reaches(store', first)
    <3>1. CASE forward /\ gapFirst < first
      <4>1. store' = MarkSkipped(st, gapFirst, first - 1, "not_requested")
        BY <1>8, <3>1
      <4>2. /\ gapFirst = st.marker + 1 /\ st.lastWritten # NoDay /\ gapFirst < first
            /\ first - 1 \in Nat /\ gapFirst \in Nat
        BY <1>3, <1>5, <1>6, <3>1
      <4> HIDE DEF gapFirst
      <4>3. /\ Rests(store') /\ store'.tail = st.tail /\ store'.boundary = st.boundary
            /\ store'.lastWritten = st.lastWritten /\ store'.marker = Later(st.marker, first - 1)
        BY <1>6, <4>1, <4>2, SkipRests DEF Skipped
      <4>4. Reaches(store', first)
        BY <1>5, <1>6, <4>2, <4>3 DEF Reaches, Later
      <4> QED
        BY <1>6, <4>3, <4>4
    <3>2. CASE ~(forward /\ gapFirst < first)
      <4>1. store' = st
        BY <1>8, <3>2
      <4>2. Reaches(st, first)
        BY <1>3, <1>5, <1>6, <3>2 DEF Reaches
      <4> QED
        BY <1>6, <4>1, <4>2
    <3> QED
      BY <3>1, <3>2
  <2>3. BackfillFirst' = first
    BY <1>5, <2>1, <2>2 DEF BackfillFirst
  <2>4. Placed'
    BY <2>1, <2>2, <2>3 DEF Placed, WritesNext, CallerPlaced, Rewriting, Writing
  <2> QED
    BY <1>1, <2>2, <2>4, BoundaryRests DEF RestStep, RewriteAdjoins
<1> QED
  BY <1>2, <1>7, <1>8

LEMMA BackfillRests ==
  ASSUME RestInv, RewriteResumed, BackfillAdjoins, Backfill
  PROVE  RestStep
<1>1. CASE BackfillSkips
  BY <1>1, BackfillSkipsRests
<1>2. CASE BackfillBegins
  <2>1. /\ today' = today /\ run.pc = "backfill" /\ store.tail = NoTail
        /\ run' = [run EXCEPT !.pc = "rewrite", !.after = "end"]
        /\ Reaches(store, BackfillFirst)
    BY <1>2, RestTyped
       DEF BackfillBegins, environment, At, RewriteResumed, Rewriting, Writing, Placed
  <2> DEFINE tail == [next |-> BackfillFirst, to |-> Later(BackfillEnd, store.lastWritten),
                      requestedEnd |-> BackfillEnd, onEmpty |-> "patience"]
  <2>2. store' = SetTail(store, tail)
    BY <1>2, <2>1 DEF BackfillBegins, BeginRewrite
  <2>3. /\ tail.next = BackfillFirst /\ tail.to = Later(tail.requestedEnd, store.lastWritten)
        /\ tail # NoTail
    BY DEF NoTail
  <2> HIDE DEF tail
  <2>4. SameDays(store, store') /\ store'.tail = tail /\ store'.boundary = store.boundary
    BY <2>2, RestTyped, SettersLeaveDays, BoundaryKept
  <2>5. tail.to <= Later(tail.requestedEnd, store.lastWritten)
    <3>1. store'.tail \in TailRecord
      BY <1>2, BackfillTypes, RestTyped DEF Backfill, TypeInv, TypeOK, StoreRecord
    <3>2. tail.to \in Int
      BY <2>4, <3>1, MaxDayAssumption DEF TailRecord
    <3> QED
      BY <2>3, <3>2
  <2>6. Rests(store') /\ RewriteAdjoins(store')
    BY <2>1, <2>3, <2>4, <2>5, RestTyped, TailRests
  <2>7. run'.pc = "rewrite" /\ run'.recovery = NoDay
    BY <2>1, RestTyped DEF RunRecord, Placed
  <2> QED
    BY <2>1, <2>3, <2>4, <2>6, <2>7, QuietPlaced, BoundaryRests DEF RestStep
<1> QED
  BY <1>1, <1>2 DEF Backfill

LEMMA ImportDayRests ==
  ASSUME RestInv, ImportDay
  PROVE  RestStep
<1>1. today' = today
  BY DEF ImportDay, PlanAppend, PlanReimport, PlanRefused, FetchDay, environment
<1>2. /\ store.marker \in Nat /\ store.lastWritten \in Nat /\ NoDay = 0 /\ Day \subseteq Nat
      /\ store.lastWritten <= store.marker /\ \A d \in Day : d > 0
  BY RestTyped, RestNumbers DEF Rests
<1>3. CASE PlanRefused
  BY <1>1, <1>3, RestTyped, StopPlaced, BoundaryRests DEF PlanRefused, RestStep
<1>4. CASE PlanAppend \/ PlanReimport
  <2>1. run.pc = "plan" /\ run.recovery = NoDay /\ run.from \in Day /\ store' = store
    BY <1>4, RestTyped DEF PlanAppend, PlanReimport, At, TypeInv, DayRequested, Placed
  <2>2. PICK caller \in {"append", "reimport"} :
          /\ \/ Stop
             \/ \E base : run' = [run EXCEPT !.pc = "fetch_day", !.day = run.from,
                                             !.caller = caller, !.base = base]
          /\ caller = "append" => store.marker = NoDay \/ run.from = store.marker + 1
          /\ caller = "reimport" => run.from = store.lastWritten
    BY <1>4, <2>1 DEF PlanAppend, PlanReimport
  <2>3. ASSUME NEW base, run' = [run EXCEPT !.pc = "fetch_day", !.day = run.from,
                                            !.caller = caller, !.base = base]
        PROVE  Placed'
    <3>1. /\ run'.pc = "fetch_day" /\ run'.day = run.from /\ run'.caller = caller
          /\ run'.recovery = NoDay
      BY <2>1, <2>3, RestTyped DEF RunRecord
    <3>2. \/ NextInLine(store, run.from)
          \/ run.from <= store.lastWritten /\ caller = "reimport"
      <4>1. CASE caller = "append"
        <5>1. run.from > 0
          BY <1>2, <2>1
        <5>2. CASE store.marker = NoDay
          <6>1. store.lastWritten = NoDay /\ store.marker < run.from
            BY <1>2, <5>1, <5>2
          <6> QED
            BY <6>1 DEF NextInLine
        <5>3. CASE run.from = store.marker + 1
          BY <1>2, <5>3 DEF NextInLine
        <5> QED
          BY <2>2, <4>1, <5>2, <5>3
      <4>2. CASE caller = "reimport"
        <5>1. run.from = store.lastWritten
          BY <2>2, <4>2
        <5> QED
          BY <1>2, <4>2, <5>1
      <4> QED
        BY <2>2, <4>1, <4>2
    <3>3. WritesNext' /\ CallerPlaced'
      BY <2>1, <2>2, <3>1, <3>2 DEF WritesNext, CallerPlaced, Writing
    <3> QED
      BY <3>1, <3>3 DEF Placed, Rewriting, Writing
  <2> QED
    BY <1>1, <2>1, <2>2, <2>3, RestTyped, StopPlaced, BoundaryRests DEF RestStep
<1>5. CASE FetchDay
  <2>1. /\ run.pc = "fetch_day" /\ run.recovery = NoDay /\ run.caller # "rewrite"
        /\ SameDays(store, store') /\ store'.tail = store.tail
        /\ store'.boundary = store.boundary
    BY <1>5, RestTyped, SettersLeaveDays, BoundaryKept DEF FetchDay, At, Placed, CallerPlaced
  <2>2. CASE Stop
    BY <1>1, <2>1, <2>2, SaveRests, StopPlaced, BoundaryRests DEF RestStep
  <2>3. CASE run' = [run EXCEPT !.pc = "write", !.cache[run.day] = Usage(run.day)]
    <3>1. /\ run'.pc = "write" /\ run'.day = run.day /\ run'.caller = run.caller
          /\ run'.recovery = NoDay /\ run'.leading = run.leading
      BY <2>1, <2>3, RestTyped DEF RunRecord
    <3>2. run.caller # "walk"
      BY <2>1, RestTyped DEF Placed, CallerPlaced
    <3>3. WritesNext' /\ CallerPlaced'
      BY <2>1, <3>1, <3>2, RestTyped
         DEF Placed, WritesNext, CallerPlaced, NextInLine, SameDays, Writing
    <3> QED
      BY <1>1, <2>1, <3>1, <3>3, SaveRests, BoundaryRests DEF RestStep, Placed, Rewriting, Writing
  <2> QED
    BY <1>5, <2>2, <2>3 DEF FetchDay, RequestFails
<1> QED
  BY <1>3, <1>4, <1>5 DEF ImportDay

LEMMA RunStepRests ==
  ASSUME RestInv, Undelayed, RewriteResumed, BackfillAdjoins, RequestedComplete, RunStep
  PROVE  RestStep
BY GuardRests, RetentionRests, ReviseRests, WalkRests, RewriteRests, VerifyPassesRests,
   WriteRests, BackfillRests, ImportDayRests DEF RunStep, Write

-----------------------------------------------------------------------------
(* The table and the recorder *)

LEMMA RestQueue ==
  ASSUME RestInv
  PROVE  QueueInOrder /\ InHand /\ EndsAgree
BY RestTyped DEF TableRests, QueueInOrder, TypeInv, DayAtHand, Placed

LEMMA TableStays ==
  ASSUME RestInv, UNCHANGED <<rows, queue>>, run.pc # "verify", run'.pc # "verify",
         store'.lastWritten = store.lastWritten, store'.since = store.since
  PROVE  TableRests'
<1>1. \A i \in 1..Len(queue) : NoOp(rows, queue[i])
  BY RestQueue DEF QueueInOrder, QueueSteady, InVerification
<1>2. QueueSteady'
  BY <1>1 DEF QueueSteady, NoOp
<1>3. EndsAgree'
  BY RestQueue DEF EndsAgree, At, Latest, HasRow, ExpectedEnd, Active
<1> QED
  BY <1>2, <1>3 DEF TableRests, InHand

\* Only WriteRows begins a verification, and it ends in one of two ways.
LEMMA VerificationBegins ==
  ASSUME TypeOK, RunStep, ~WriteRows, ~VerifyPasses, ~VerifyTimesOut
  PROVE  UNCHANGED <<rows, queue>> /\ run.pc # "verify" /\ run'.pc # "verify"
<1>1. run \in RunRecord
  BY DEF TypeOK
<1>2. \A pc : pc # "verify" /\ Goto(pc) => run'.pc # "verify"
  BY <1>1 DEF Goto, RunRecord
<1>3. (Stop => run'.pc # "verify") /\ (GoOn => run'.pc # "verify")
  <2>1. Stop => run'.pc = "idle"
    BY DEF Stop, Idle
  <2>2. GoOn => run'.pc = "revisions"
    BY <1>1 DEF GoOn, RunRecord
  <2> QED
    BY <2>1, <2>2
<1>4. CASE Guard \/ RetentionStep \/ Revise
  BY <1>1, <1>2, <1>3, <1>4
     DEF Guard, GuardRefuses, GuardAccepts, GuardSkipped, RetentionStep, RetentionDone,
         RetentionFails, Revise, FetchRevisions, RevisionsAlreadyChecked, CompareRevisions,
         RevisionsChecked, RequestFails, RunRecord, At, table
<1>5. \A d, caller : BeginWrite(d, caller) => run'.pc # "verify"
  BY <1>1, <1>3 DEF BeginWrite, RunRecord
<1>6. CASE Walk
  BY <1>1, <1>3, <1>5, <1>6
     DEF Walk, WalkStart, WalkFetch, WalkLeading, WalkSkipsLeading, WalkPatience, WalkWrite,
         WalkDone, NothingToWalk, WalkDay, WalkAt, RequestFails, RunRecord, At, table
<1>7. CASE Rewrite
  BY <1>1, <1>2, <1>3, <1>5, <1>7
     DEF Rewrite, ResumeTail, RewriteSkip, RewriteFetch, RewriteUnavailable, RewritePatience,
         RewriteWrite, RewriteDone, RewriteDay, RewriteAt, RequestFails, RunRecord, At, table
<1>8. CASE Write
  BY <1>1, <1>2, <1>3, <1>8
     DEF Write, WriteRefused, TrackRevision, Advance, RunRecord, At, table
<1>9. CASE Backfill \/ ImportDay
  BY <1>1, <1>3, <1>9
     DEF Backfill, BackfillSkips, BackfillBegins, ImportDay, PlanAppend, PlanReimport, PlanRefused,
         FetchDay, RequestFails, RunRecord, At, table
<1> QED
  BY <1>4, <1>6, <1>7, <1>8, <1>9 DEF RunStep

\* A day after last_written that reads back is where every statistic ends.
LEMMA VerifiedEnds ==
  ASSUME RestInv, RewriteResumed, VerifyPasses
  PROVE  TableRests'
<1>1. /\ UNCHANGED <<rows, queue>> /\ run.pc = "verify" /\ ReadsBack /\ run.day \in Day
      /\ store'.lastWritten = Later(store.lastWritten, run.day) /\ store'.since = store.since
      /\ run'.pc = "track"
  <2>1. /\ UNCHANGED <<rows, queue>> /\ run.pc = "verify" /\ ReadsBack /\ run'.pc = "track"
    BY RestTyped DEF VerifyPasses, table, At, Goto, RunRecord
  <2>2. store'.since = store.since
    BY RestTyped, RunKeepsEnds DEF RunStep, Write
  <2> QED
    BY <2>1, <2>2, RestTyped, VerifyPassesRests DEF TypeInv, DayAtHand
<1>2. QueueSteady'
  BY <1>1, RestQueue, VerifiedQueue
<1>3. /\ store.lastWritten \in Nat /\ run.day \in Nat /\ run.day > 0 /\ NoDay = 0
      /\ \A s \in Stat : store.since[s] \in Int
  <2>1. \A s \in Stat : store.since[s] \in Int
    BY RestTyped, MaxDayAssumption DEF StoreRecord, Absent
  <2> QED
    BY <1>1, <2>1, RestTyped, RestNumbers
<1>4. EndsAgree'
  <2> SUFFICES ASSUME NEW s \in Stat
               PROVE  Latest(s)' = ExpectedEnd(s)'
    BY DEF EndsAgree
  <2>1. Latest(s)' = Latest(s)
    BY <1>1 DEF Latest, HasRow
  <2>2. ExpectedEnd(s)' = IF store.since[s] <= store'.lastWritten THEN store'.lastWritten
                           ELSE NoDay
    BY <1>1 DEF ExpectedEnd, Active
  <2>3. \/ Latest(s) = ExpectedEnd(s)
        \/ store.lastWritten < run.day /\ Active(s, run.day)
    BY RestQueue DEF EndsAgree
  <2>4. CASE store.lastWritten < run.day
    <3>1. store'.lastWritten = run.day
      BY <1>1, <1>3, <2>4 DEF Later
    <3>2. CASE Active(s, run.day)
      <4>1. ~InsideHistory(run.day)
        BY <1>3, <2>4 DEF InsideHistory
      <4>2. Latest(s) = run.day
        BY <1>1, <3>2, <4>1 DEF ReadsBack, ActiveStats
      <4> QED
        BY <2>1, <2>2, <3>1, <3>2, <4>2 DEF Active
    <3>3. CASE ~Active(s, run.day)
      <4>1. Latest(s) = NoDay
        BY <1>3, <2>3, <2>4, <3>3 DEF ExpectedEnd, Active
      <4> QED
        BY <2>1, <2>2, <3>1, <3>3, <4>1 DEF Active
    <3> QED
      BY <3>2, <3>3
  <2>5. CASE ~(store.lastWritten < run.day)
    <3>1. store'.lastWritten = store.lastWritten
      BY <1>1, <1>3, <2>5 DEF Later
    <3> QED
      BY <2>1, <2>2, <2>3, <2>5, <3>1 DEF ExpectedEnd, Active
  <2> QED
    BY <2>4, <2>5
<1> QED
  BY <1>1, <1>2, <1>4 DEF TableRests, InHand

LEMMA RunStepTable ==
  ASSUME RestInv, Undelayed, RewriteResumed, RunStep
  PROVE  TableRests'
<1>1. CASE VerifyPasses
  BY <1>1, VerifiedEnds
<1>2. CASE ~VerifyPasses
  <2>1. store'.lastWritten = store.lastWritten /\ store'.since = store.since
    BY <1>2, RestTyped, RunKeepsEnds
  <2>2. CASE WriteRows
    <3>1. UNCHANGED rows /\ run.pc = "write"
      BY <2>2 DEF WriteRows, At
    <3>2. EndsAgree'
      BY <2>1, <3>1, RestQueue DEF EndsAgree, At, Latest, HasRow, ExpectedEnd, Active
    <3> QED
      BY <2>2, <3>2, RestQueue, WriteRowsQueue DEF TableRests
  <2>3. CASE ~WriteRows
    BY <1>2, <2>1, <2>3, RestTyped, AlwaysReadsBack, VerificationBegins, TableStays
  <2> QED
    BY <2>2, <2>3
<1> QED
  BY <1>1, <1>2

\* A statistic whose row of day d arrives ends there, or later.
LEMMA LatestGrows ==
  ASSUME NEW s \in Stat, NEW d \in Day, NEW row \in Row, row # NoRow, TypeOK,
         rows' = [rows EXCEPT ![s][d] = row]
  PROVE  /\ Latest(s)' = Later(Latest(s), d)
         /\ \A t \in Stat : t # s => Latest(t)' = Latest(t)
<1> DEFINE S == {e \in Day : HasRow(s, e)}
           T == {e \in Day : HasRow(s, e)'}
<1>1. rows \in [Stat -> [Day -> Row]]
  BY DEF TypeOK
<1>2. \A t \in Stat, e \in Day :
        rows'[t][e] = IF t = s /\ e = d THEN row ELSE rows[t][e]
  BY <1>1
<1>3. T = S \cup {d} /\ S \in SUBSET Day /\ T \in SUBSET Day
  BY <1>2 DEF HasRow
<1>4. \A t \in Stat : t # s => Latest(t)' = Latest(t)
  BY <1>2 DEF Latest, HasRow
<1>5. Latest(s) = MaxOf(S) /\ Latest(s)' = MaxOf(T)
  BY DEF Latest
<1> HIDE DEF S, T
<1>6. MaxOf(T) \in T /\ \A e \in T : e <= MaxOf(T)
  BY <1>3, MaxOfDays
<1>7. Day \subseteq Nat /\ NoDay = 0 /\ \A e \in Day : e > 0
  BY MaxDayAssumption DEF Day, NoDay
<1>8. CASE S = {}
  BY <1>3, <1>4, <1>5, <1>6, <1>7, <1>8 DEF MaxOf, Later
<1>9. CASE S # {}
  <2>1. MaxOf(S) \in S /\ \A e \in S : e <= MaxOf(S)
    BY <1>3, <1>9, MaxOfDays
  <2>2. MaxOf(S) \in Nat /\ MaxOf(T) \in Nat /\ d \in Nat
    BY <1>3, <1>6, <1>7, <2>1
  <2>3. MaxOf(S) <= MaxOf(T) /\ d <= MaxOf(T) /\ (MaxOf(T) <= MaxOf(S) \/ MaxOf(T) = d)
    BY <1>3, <1>6, <2>1
  <2> QED
    BY <1>4, <1>5, <2>2, <2>3 DEF Later
<1> QED
  BY <1>8, <1>9

LEMMA CommitRests ==
  ASSUME RestInv, NEW s \in Stat, Commit(s)
  PROVE  TableRests' /\ RestStep
<1>1. /\ UNCHANGED <<today, store, run>> /\ NewRows' = NewRows
  BY RestQueue, CommitAdds DEF Commit, environment
<1>2. RestStep
  BY <1>1, RestTyped
     DEF RestStep, BoundaryPast, Placed, WritesNext, CallerPlaced, NextInLine, Between, Records,
         BackfillFirst, Rewriting
<1>3. QueueSteady'
  BY RestQueue, CommitKeepsQueue
<1>4. InHand'
  BY RestQueue, CommitInHand
<1>5. EndsAgree'
  <2>1. \A t \in Stat : ExpectedEnd(t)' = ExpectedEnd(t)
    BY <1>1 DEF ExpectedEnd, Active
  <2>2. CASE rows' = rows
    BY <1>1, <2>1, <2>2, RestQueue DEF EndsAgree, At, Latest, HasRow, Active
  <2>3. CASE rows' # rows
    <3>1. /\ run.pc = "verify" /\ Active(s, run.day) /\ run.day \in Day
          /\ NewRows[s] # NoRow /\ rows' = [rows EXCEPT ![s][run.day] = NewRows[s]]
      BY <2>3, RestQueue, CommitAdds DEF ActiveStats
    <3>2. NewRows[s] \in Row
      <4>1. /\ rows' \in [Stat -> [Day -> Row]] /\ rows \in [Stat -> [Day -> Row]]
        BY TypeStep, RestTyped DEF TypeInv, TypeOK, Next, Environment
      <4>2. rows'[s][run.day] = NewRows[s]
        BY <3>1, <4>1
      <4> QED
        BY <3>1, <4>1, <4>2
    <3>3. /\ Latest(s)' = Later(Latest(s), run.day)
          /\ \A t \in Stat : t # s => Latest(t)' = Latest(t)
      BY <3>1, <3>2, RestTyped, LatestGrows
    <3>4. /\ store.lastWritten \in Nat /\ run.day \in Nat /\ run.day > 0 /\ NoDay = 0
          /\ store.since[s] \in Int
      <4>1. store.since[s] \in Int
        BY RestTyped, MaxDayAssumption DEF StoreRecord, Absent
      <4> QED
        BY <3>1, <4>1, RestTyped, RestNumbers
    <3>5. \/ Latest(s)' = ExpectedEnd(s)
          \/ store.lastWritten < run.day /\ Latest(s)' = run.day
      <4>1. CASE Latest(s) = ExpectedEnd(s)
        BY <3>1, <3>3, <3>4, <4>1 DEF ExpectedEnd, Active, Later
      <4>2. CASE store.lastWritten < run.day /\ Latest(s) = run.day
        BY <3>3, <3>4, <4>2 DEF Later
      <4> QED
        BY <4>1, <4>2, RestQueue DEF EndsAgree
    <3> QED
      BY <1>1, <2>1, <3>1, <3>3, <3>5, RestQueue DEF EndsAgree, At, Active
  <2> QED
    BY <2>2, <2>3
<1> QED
  BY <1>2, <1>3, <1>4, <1>5 DEF TableRests

-----------------------------------------------------------------------------
(* The calendar, Amber and the user *)

LEMMA OthersRest ==
  ASSUME RestInv, Undelayed, LoadedInTime', [Next]_vars, ~RunStep, \A s \in Stat : ~Commit(s)
  PROVE  TableRests' /\ RestStep
<1>1. \/ UNCHANGED <<store, rows, queue, run>> /\ (today' = today \/ today' = today + 1)
      \/ /\ UNCHANGED <<today, store, rows, queue>>
         /\ run.pc = "idle" /\ run'.pc = "guard" /\ run'.recovery = run.recovery
      \/ LoadChannels
  <2>1. ~Crash
    BY RestTyped DEF Crash, TypeOK, Budget, Undelayed
  <2>2. CASE ScheduledRun \/ RunNow
    BY <2>2, RestTyped DEF ScheduledRun, RunNow, Begin, At, environment, table, RunRecord
  <2>3. CASE User
    BY <2>3, RestTyped
       DEF User, StartBackfill, StartImportDay, AddChannels, SetMode, At, environment, table,
           RunRecord
  <2>4. CASE Environment \/ UNCHANGED vars
    BY <2>1, <2>4 DEF Environment, Tick, Publish, UnexpectedChannel, table, vars
  <2> QED
    BY <2>2, <2>3, <2>4 DEF Next
<1>2. CASE UNCHANGED <<store, rows, queue, run>> /\ (today' = today \/ today' = today + 1)
  <2>1. NewRows' = NewRows /\ ActiveStats(run.day)' = ActiveStats(run.day)
    BY <1>2 DEF NewRows, Records, Active, ActiveStats
  <2>2. TableRests'
    BY <1>2, <2>1, RestTyped
       DEF TableRests, QueueSteady, InHand, InVerification, NoOp, EndsAgree, At, Latest, HasRow,
           ExpectedEnd, Active
  <2>3. BoundaryPast'
    <3>1. today \in Int /\ store.boundary \in Int
      BY RestTyped, RestNumbers, MaxDayAssumption DEF Date
    <3> QED
      BY <1>2, <3>1, RestTyped DEF BoundaryPast
  <2> QED
    BY <1>2, <2>2, <2>3, RestTyped
       DEF RestStep, Placed, WritesNext, CallerPlaced, NextInLine, Between, Records,
           BackfillFirst, Rewriting
<1>3. CASE /\ UNCHANGED <<today, store, rows, queue>>
           /\ run.pc = "idle" /\ run'.pc = "guard" /\ run'.recovery = run.recovery
  <2>1. TableRests'
    BY <1>3, TableStays
  <2>2. Placed'
    BY <1>3, RestTyped, QuietPlaced DEF Placed, Quiet
  <2> QED
    BY <1>3, <2>1, <2>2, RestTyped, BoundaryRests DEF RestStep
<1>4. CASE LoadChannels
  <2>1. /\ run.pc = "idle" /\ UNCHANGED <<today, rows, queue, run>>
        /\ \E since : store' = [store EXCEPT !.since = since]
    BY <1>4 DEF LoadChannels, table, At
  <2>2. /\ SameDays(store, store') /\ store'.tail = store.tail
        /\ store'.boundary = store.boundary /\ store'.lastWritten = store.lastWritten
    BY <2>1, RestTyped DEF SameDays, StoreRecord
  <2>3. Placed'
    BY <2>1, RestTyped, QuietPlaced DEF Placed, Quiet
  <2>4. \A s \in Stat : ExpectedEnd(s)' = ExpectedEnd(s)
    <3> SUFFICES ASSUME NEW s \in Stat
                 PROVE  ExpectedEnd(s)' = ExpectedEnd(s)
      OBVIOUS
    <3>1. /\ store.lastWritten \in Nat /\ store.lastWritten <= store.marker /\ store.marker \in Nat
          /\ store.marker <= MaxDay /\ MaxDay \in Nat /\ NoDay = 0
      BY RestTyped, RestNumbers DEF Rests
    <3>2. store.since[s] \in Int /\ store'.since[s] \in Int
      BY <1>4, RestTyped, MaxDayAssumption DEF LoadChannels, TypeOK, StoreRecord, Absent
    <3>3. store'.since[s] <= store.since[s]
      BY RestTyped, SinceOnlyFalls DEF RestInv
    <3>4. \/ store'.since[s] = store.since[s]
          \/ store.lastWritten = NoDay
          \/ store.lastWritten < store'.since[s]
      BY <1>4, RestTyped, LoadsInTime DEF LoadedInTime
    <3> QED
      BY <2>2, <3>1, <3>2, <3>3, <3>4 DEF ExpectedEnd, Active
  <2>5. TableRests'
    <3>1. \A i \in 1..Len(queue) : NoOp(rows, queue[i])
      BY <2>1, RestQueue DEF QueueInOrder, QueueSteady, InVerification
    <3>2. QueueSteady'
      BY <2>1, <3>1 DEF QueueSteady, NoOp
    <3>3. EndsAgree'
      BY <2>1, <2>4, RestQueue DEF EndsAgree, At, Latest, HasRow
    <3> QED
      BY <2>1, <3>2, <3>3 DEF TableRests, InHand
  <2> QED
    BY <2>1, <2>2, <2>3, <2>5, SaveRests, BoundaryRests DEF RestStep
<1> QED
  BY <1>1, <1>2, <1>3, <1>4

-----------------------------------------------------------------------------
(* A run that ends leaves no lockout *)

LEMMA RestNext ==
  ASSUME RestInv, Undelayed, RewriteResumed, BackfillAdjoins, RequestedComplete, LoadedInTime',
         [Next]_vars
  PROVE  RestInv'
<1>1. PastInv'
  <2>1. CASE UNCHANGED vars
    BY <2>1, TypeStep DEF RestInv, vars, PastInv, PublishedPast, RunPast, StorePast
  <2> QED
    BY <2>1, PastNext DEF RestInv
<1>2. TableRests' /\ RestStep
  BY RunStepRests, RunStepTable, CommitRests, OthersRest
<1>3. AddedFirst'
  BY RestTyped, SinceOnlyFalls DEF RestInv
<1> QED
  BY <1>1, <1>2, <1>3 DEF RestInv, RestStep

LEMMA RestInit ==
  ASSUME Init
  PROVE  RestInv
<1>1. PastInv
  BY PastInit
<1>2. /\ run = Idle /\ queue = <<>> /\ today = 1
      /\ store.marker = NoDay /\ store.lastWritten = NoDay /\ store.boundary = NoDay
      /\ store.tail = NoTail /\ \A d \in Day : store.status[d] = "none"
      /\ \A s \in Stat, d \in Day : ~HasRow(s, d)
  BY DEF Init, EmptyStore, HasRow
<1>3. BoundaryPast /\ Rests(store) /\ RewriteAdjoins(store)
  BY <1>2, MaxDayAssumption
     DEF BoundaryPast, Rests, RewriteAdjoins, NoDay, Skipped, Between
<1>4. Placed
  BY <1>2 DEF Placed, WritesNext, CallerPlaced, Idle, Rewriting, Writing
<1>5. TableRests
  <2>1. \A s \in Stat : Latest(s) = NoDay
    BY <1>2 DEF Latest, MaxOf
  <2>2. EndsAgree
    BY <1>2, <2>1 DEF EndsAgree, ExpectedEnd
  <2>3. QueueSteady /\ InHand
    BY <1>2 DEF QueueSteady, InHand, Idle
  <2> QED
    BY <2>2, <2>3 DEF TableRests
<1>6. AddedFirst
  BY LateInit DEF LateInv
<1> QED
  BY <1>1, <1>3, <1>4, <1>5, <1>6 DEF RestInv

LEMMA RestHolds ==
  ASSUME RestInv
  PROVE  RestsUnlocked
<1> SUFFICES ASSUME At("idle")
             PROVE  ~GuardStops
  BY DEF RestsUnlocked
<1>1. StatisticsAgree
  BY RestQueue DEF StatisticsAgree, EndsAgree, At
<1>2. /\ store.marker \in Nat /\ store.lastWritten \in Nat /\ NoDay = 0 /\ MaxDay \in Nat
      /\ store.lastWritten <= store.marker /\ Day = 1..MaxDay /\ store.marker <= MaxDay
  BY RestTyped, RestNumbers DEF Rests, Day
<1>3. ~MarkerProblem
  <2>1. \A d \in Day : store.status[d] = "imported" => d <= store.lastWritten
    BY RestTyped DEF Rests
  <2>2. ASSUME store.lastWritten # NoDay, NEW d \in (store.lastWritten + 1)..store.marker
        PROVE  store.status[d] \in Skipped
    <3>1. d \in Day /\ Between(store, d)
      BY <1>2, <2>2 DEF Between
    <3> QED
      BY <2>2, <3>1, RestTyped DEF Rests
  <2> QED
    BY <1>2, <2>1, <2>2 DEF MarkerProblem
<1> QED
  BY <1>1, <1>3 DEF GuardStops

RestSafe == TypeInv /\ (~late => RestInv)

\* What is late stays late.
LEMMA LateForGood ==
  ASSUME TypeOK, [Next]_vars, ~late'
  PROVE  ~late
<1>1. CASE RunStep
  BY <1>1, RunLeavesChannels
<1>2. CASE ~RunStep
  BY <1>2
     DEF Next, vars, ScheduledRun, RunNow, Begin, User, StartBackfill, StartImportDay, AddChannels,
         LoadChannels, SetMode, Environment, Tick, Publish, UnexpectedChannel, Commit, Crash,
         environment
<1> QED
  BY <1>1, <1>2

\* A run that ends by itself leaves the next one free to start (_async_guard1,
\* _marker_problem), with runs, import_day, backfills, switches of mode and channels added in
\* the middle of a run, in every order but those these keep out: a stop, a commit after
\* VERIFY_TIMEOUT (Undelayed); a day written ahead of an unfinished rewrite (RewriteResumed);
\* a backfill of days Amber has dropped with a hole to the history (BackfillAdjoins); a
\* requested day with no complete usage (RequestedComplete); and, in the property itself, a
\* channel loaded only after its first day was recorded.  The README says what each does.
THEOREM RestingSiteIsUnlocked ==
  ASSUME Undelayed
  PROVE  Spec /\ []RewriteResumed /\ []BackfillAdjoins /\ []RequestedComplete => []RestsUnlocked
<1>1. Init => RestSafe
  BY RestInit, TypeInit DEF RestSafe
<1>2. RestSafe /\ RewriteResumed /\ BackfillAdjoins /\ RequestedComplete /\ [Next]_vars => RestSafe'
  <2> SUFFICES ASSUME RestSafe, RewriteResumed, BackfillAdjoins, RequestedComplete, [Next]_vars
               PROVE  RestSafe'
    OBVIOUS
  <2>1. TypeInv /\ TypeInv' /\ TypeOK
    BY TypeStep DEF RestSafe, TypeInv
  <2>2. ASSUME ~late'
        PROVE  RestInv'
    <3>1. RestInv
      BY <2>1, <2>2, LateForGood DEF RestSafe
    <3> QED
      BY <2>2, <3>1, RestNext DEF LoadedInTime
  <2> QED
    BY <2>1, <2>2 DEF RestSafe
<1>3. RestSafe => RestsUnlocked
  BY RestHolds DEF RestSafe, RestsUnlocked
<1> QED
  BY <1>1, <1>2, <1>3, PTL DEF Spec
=============================================================================

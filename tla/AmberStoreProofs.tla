-------------------------- MODULE AmberStoreProofs --------------------------
(***************************************************************************)
(* Lemmas about the operators of AmberStore: what the reads return, that   *)
(* every setter keeps the record well-formed, and what each setter does to *)
(* the fields the import's invariants speak of.                            *)
(***************************************************************************)
EXTENDS AmberStore, FiniteSetTheorems, WellFoundedInduction, TLAPS

-----------------------------------------------------------------------------
(* Days and sets of days *)

LEMMA NextOfDay ==
  /\ Day \subseteq Nat /\ Date \subseteq Nat /\ NoDay \notin Day
  /\ \A d \in Day : d + 1 \in Date /\ d - 1 \in Day \cup {NoDay}
BY MaxDayAssumption DEF Day, Date, NoDay

\* A set of naturals that is not empty has a least element.
LEMMA LeastNatural ==
  ASSUME NEW S \in SUBSET Nat, S # {}
  PROVE  \E d \in S : \A e \in S : d <= e
<1>1. PICK d \in S : \A e \in S : <<e, d>> \notin OpToRel(<, Nat)
  BY NatLessThanWellFounded, WFMin
<1>2. \A e \in S : ~(e < d)
  BY <1>1 DEF OpToRel
<1> QED
  BY <1>2

\* A set of days that is not empty has a last one.
LEMMA LastDay ==
  ASSUME NEW S \in SUBSET Day, S # {}
  PROVE  \E d \in S : \A e \in S : e <= d
<1> DEFINE T == {n \in Nat : \E d \in S : n = MaxDay - d}
<1>1. T \in SUBSET Nat /\ T # {}
  <2>1. PICK d \in S : TRUE
    OBVIOUS
  <2>2. MaxDay - d \in T
    BY MaxDayAssumption DEF Day
  <2> QED
    BY <2>2
<1>2. PICK n \in T : \A m \in T : n <= m
  BY <1>1, LeastNatural
<1>3. PICK d \in S : n = MaxDay - d
  BY <1>2
<1>4. ASSUME NEW e \in S
      PROVE  e <= d
  <2>1. MaxDay - e \in T
    BY MaxDayAssumption DEF Day
  <2> QED
    BY <1>2, <1>3, <2>1, MaxDayAssumption DEF Day
<1> QED
  BY <1>4

\* MinOf and MaxOf return a member, or NoDay for the empty set.
LEMMA MinOfDays ==
  ASSUME NEW S \in SUBSET Day
  PROVE  /\ MinOf(S) \in S \cup {NoDay}
         /\ S # {} => MinOf(S) \in S
<1>1. CASE S = {}
  BY <1>1 DEF MinOf
<1>2. CASE S # {}
  <2>1. \E d \in S : \A e \in S : d <= e
    BY <1>2, LeastNatural, NextOfDay
  <2> QED
    BY <1>2, <2>1 DEF MinOf
<1> QED
  BY <1>1, <1>2

LEMMA MaxOfDays ==
  ASSUME NEW S \in SUBSET Day
  PROVE  /\ MaxOf(S) \in S \cup {NoDay}
         /\ S # {} => MaxOf(S) \in S /\ \A e \in S : e <= MaxOf(S)
<1>1. CASE S = {}
  BY <1>1 DEF MaxOf
<1>2. CASE S # {}
  <2>1. \E d \in S : \A e \in S : e <= d
    BY <1>2, LastDay
  <2> QED
    BY <1>2, <2>1 DEF MaxOf
<1> QED
  BY <1>1, <1>2

\* The end of a range of days is its MaxOf.
LEMMA MaxOfRange ==
  ASSUME NEW first \in Int, NEW last \in Int, first <= last
  PROVE  MaxOf(first..last) = last
<1>1. \E d \in first..last : \A e \in first..last : e <= d
  <2> WITNESS last \in first..last
  <2> QED OBVIOUS
<1>2. first..last # {}
  BY <1>1
<1>3. /\ MaxOf(first..last) \in first..last
      /\ \A e \in first..last : e <= MaxOf(first..last)
  BY <1>1, <1>2 DEF MaxOf
<1> QED
  BY <1>3

LEMMA LastImportedBeforeIsADay ==
  ASSUME NEW st, NEW day
  PROVE  LastImportedBefore(st, day) \in Day \cup {NoDay}
BY MaxOfDays DEF LastImportedBefore

-----------------------------------------------------------------------------
(* Every setter keeps the record well-formed *)

LEMMA PendingType ==
  ASSUME NEW st \in StoreRecord
  PROVE  /\ ClearPending(st) \in StoreRecord
         /\ \A day \in Day : SetPending(st, day) \in StoreRecord
BY DEF ClearPending, SetPending, StoreRecord

LEMMA MarkImportedType ==
  ASSUME NEW st \in StoreRecord, NEW day \in Day
  PROVE  MarkImported(st, day) \in StoreRecord
BY NextOfDay DEF MarkImported, StoreRecord, Status, Later

LEMMA MarkSkippedType ==
  ASSUME NEW st \in StoreRecord, NEW first, NEW last \in Day \cup {NoDay}, NEW how \in Skipped
  PROVE  MarkSkipped(st, first, last, how) \in StoreRecord
<1>1. Later(st.marker, last) \in Day \cup {NoDay}
  BY DEF StoreRecord, Later
<1>2. [d \in Day |-> IF d \in first..last THEN how ELSE st.status[d]] \in [Day -> Status]
  BY DEF StoreRecord, Status
<1>3. [d \in Day |-> IF d \in first..last THEN {} ELSE st.emptySeen[d]] \in [Day -> SUBSET Date]
  BY DEF StoreRecord
<1>4. [d \in Day |-> IF d \in first..last THEN NoRevision ELSE st.revisions[d]]
        \in [Day -> Revision]
  BY DEF StoreRecord, Revision, NoRevision, NoDay
<1> QED
  BY <1>1, <1>2, <1>3, <1>4 DEF MarkSkipped, StoreRecord

LEMMA MarkDayType ==
  ASSUME NEW st \in StoreRecord, NEW day \in Day, NEW how \in Status
  PROVE  MarkDay(st, day, how) \in StoreRecord
BY DEF MarkDay, StoreRecord

LEMMA NoteEmptyType ==
  ASSUME NEW st \in StoreRecord, NEW day \in Day, NEW seenOn \in Date
  PROVE  NoteEmpty(st, day, seenOn) \in StoreRecord
<1>1. [st EXCEPT !.emptySeen[day] = @ \cup {seenOn}] \in StoreRecord
  BY DEF StoreRecord
<1> QED
  BY <1>1, MarkDayType DEF NoteEmpty, Status

LEMMA SetRetentionType ==
  ASSUME NEW st \in StoreRecord, NEW boundary \in Date, NEW on \in Date
  PROVE  SetRetention(st, boundary, on) \in StoreRecord
BY DEF SetRetention, StoreRecord

LEMMA SetRevisionType ==
  ASSUME NEW st \in StoreRecord, NEW day \in Day, NEW on \in Date, NEW hash \in Amount \cup {0}
  PROVE  SetRevision(st, day, on, hash) \in StoreRecord
<1>1. st.revisions[day] \in Revision
  BY DEF StoreRecord
<1>2. [since |-> IF st.revisions[day] = NoRevision THEN on ELSE st.revisions[day].since,
       hash |-> hash] \in Revision
  BY <1>1 DEF Revision
<1> QED
  BY <1>2 DEF SetRevision, StoreRecord

LEMMA DropRevisionsType ==
  ASSUME NEW st \in StoreRecord, NEW days
  PROVE  DropRevisions(st, days) \in StoreRecord
<1>1. [d \in Day |-> IF d \in days THEN NoRevision ELSE st.revisions[d]] \in [Day -> Revision]
  BY DEF StoreRecord, Revision, NoRevision, NoDay
<1> QED
  BY <1>1 DEF DropRevisions, StoreRecord

LEMMA TailType ==
  ASSUME NEW st \in StoreRecord
  PROVE  /\ \A tail \in TailRecord : SetTail(st, tail) \in StoreRecord
         /\ \A next \in 0..(MaxDay + 1) : [st EXCEPT !.tail.next = next] \in StoreRecord
         /\ NoTail \in TailRecord
BY MaxDayAssumption DEF SetTail, StoreRecord, TailRecord, NoTail, NoDay

LEMMA SetCheckedType ==
  ASSUME NEW st \in StoreRecord, NEW on \in Date
  PROVE  SetChecked(st, on) \in StoreRecord
BY DEF SetChecked, StoreRecord

LEMMA EmptyStoreType ==
  ASSUME NEW absent
  PROVE  EmptyStore(absent) \in StoreRecord
BY MaxDayAssumption
   DEF EmptyStore, StoreRecord, NoDay, Status, NoRevision, Revision, NoTail, TailRecord, Absent
=============================================================================

----------------------------- MODULE AmberStore -----------------------------
(***************************************************************************)
(* The per-site Store of the integration (storage.py, AmberStore), as far  *)
(* as the usage chain uses it: the record kept on disk and the operators   *)
(* that change it.  Each operator is one setter of the class; the setters  *)
(* save at once and atomically, so an operator application is one durable  *)
(* write.  Applications nest in the order of the saves.                    *)
(*                                                                         *)
(* NEM days are numbered 1..MaxDay; a date nem_today() can return is in    *)
(* 1..MaxDay+1 and yesterday is the date minus one.  Python's None is the  *)
(* number NoDay.                                                           *)
(***************************************************************************)
EXTENDS Integers, FiniteSets

CONSTANTS
  MaxDay,   \* the last NEM day of the instance
  Amount,   \* what a day's usage can amount to; one amount, one fingerprint
  Stat      \* the usage statistics of the site (kWh and cost per channel)

ASSUME MaxDayAssumption == MaxDay \in Nat \ {0}
ASSUME AmountAssumption == Amount \subseteq Nat \ {0}

NoDay == 0
Day   == 1..MaxDay
Date  == 1..(MaxDay + 1)
Absent == MaxDay + 2       \* the channel_since of a channel not configured yet

Later(a, b) == IF a < b THEN b ELSE a
Earlier(a, b) == IF a < b THEN a ELSE b

MaxOf(S) == IF S = {} THEN NoDay ELSE CHOOSE d \in S : \A e \in S : e <= d
MinOf(S) == IF S = {} THEN NoDay ELSE CHOOSE d \in S : \A e \in S : d <= e

-----------------------------------------------------------------------------
(* The record *)

Skipped == {"unavailable", "gap", "not_requested"}
Status  == {"none", "imported", "failed", "empty"} \cup Skipped

\* A revision-set entry: the date of the day's first import and its fingerprint.
NoRevision == [since |-> NoDay, hash |-> 0]
Revision   == [since : Date \cup {NoDay}, hash : Amount \cup {0}]

\* Progress of a range rewrite (the stored tail_rewrite).
NoTail == [next |-> NoDay, to |-> NoDay, requestedEnd |-> NoDay, onEmpty |-> "error"]
TailRecord == [next : 0..(MaxDay + 1), to : 0..MaxDay, requestedEnd : 0..MaxDay,
               onEmpty : {"error", "patience"}]

StoreRecord ==
  [marker : Day \cup {NoDay},        \* the last resolved day
   lastWritten : Day \cup {NoDay},   \* the last day with statistics
   pending : Day \cup {NoDay},       \* the day being appended
   status : [Day -> Status],
   emptySeen : [Day -> SUBSET Date],
   revisions : [Day -> Revision],
   checked : Date \cup {NoDay},      \* revisions_checked
   tail : TailRecord,
   boundary : Date \cup {NoDay},     \* retention_boundary
   verified : Date \cup {NoDay},     \* retention["last_verified"]
   since : [Stat -> 0..Absent]]      \* channel_since; 0 is "always"

EmptyStore(absent) ==
  [marker |-> NoDay, lastWritten |-> NoDay, pending |-> NoDay,
   status |-> [d \in Day |-> "none"], emptySeen |-> [d \in Day |-> {}],
   revisions |-> [d \in Day |-> NoRevision], checked |-> NoDay, tail |-> NoTail,
   boundary |-> NoDay, verified |-> NoDay,
   since |-> [s \in Stat |-> IF s \in absent THEN Absent ELSE 0]]

-----------------------------------------------------------------------------
(* Reads *)

LastImportedBefore(st, day) ==
  MaxOf({d \in Day : d < day /\ st.status[d] = "imported"})

InRevisionSet(st, day) == st.revisions[day] # NoRevision
RevisionDaysOf(st) == {d \in Day : InRevisionSet(st, d)}

-----------------------------------------------------------------------------
(* Writes *)

SetPendingNext(st, day) == [st EXCEPT !.pending = day + 1]   \* mutant: off by one

SetPending(st, day) == [st EXCEPT !.pending = day]
ClearPending(st)    == [st EXCEPT !.pending = NoDay]

MarkImportedMovesBack(st, day) ==   \* mutant: a rewritten day becomes the marker
  [st EXCEPT !.marker = day, !.lastWritten = day, !.pending = NoDay,
             !.status[day] = "imported", !.emptySeen[day] = {}]

MarkImported(st, day) ==
  [st EXCEPT !.marker = Later(@, day), !.lastWritten = Later(@, day), !.pending = NoDay,
             !.status[day] = "imported", !.emptySeen[day] = {}]

MarkSkipped(st, first, last, how) ==
  [st EXCEPT !.status = [d \in Day |-> IF d \in first..last THEN how ELSE @[d]],
             !.emptySeen = [d \in Day |-> IF d \in first..last THEN {} ELSE @[d]],
             !.revisions = [d \in Day |-> IF d \in first..last THEN NoRevision ELSE @[d]],
             !.marker = Later(@, last)]

MarkDayResolves(st, day, how) ==   \* mutant: a failed day counts as resolved
  [st EXCEPT !.status[day] = IF @ = "imported" THEN @ ELSE how, !.marker = Later(@, day)]

\* A non-imported outcome; an imported record keeps its status.
MarkDay(st, day, how) ==
  [st EXCEPT !.status[day] = IF @ = "imported" THEN @ ELSE how]

NoteEmptyOnce(st, day, seenOn) ==   \* mutant: only the last date is kept
  MarkDay([st EXCEPT !.emptySeen[day] = {seenOn}], day, "empty")

NoteEmpty(st, day, seenOn) ==
  MarkDay([st EXCEPT !.emptySeen[day] = @ \cup {seenOn}], day, "empty")

SetRetention(st, boundary, on) == [st EXCEPT !.boundary = boundary, !.verified = on]

\* The first import's date is kept when the fingerprint is updated.
SetRevision(st, day, on, hash) ==
  [st EXCEPT !.revisions[day] =
     [since |-> IF @ = NoRevision THEN on ELSE @.since, hash |-> hash]]

DropRevisions(st, days) ==
  [st EXCEPT !.revisions = [d \in Day |-> IF d \in days THEN NoRevision ELSE @[d]]]

SetTail(st, tail) == [st EXCEPT !.tail = tail]
SetChecked(st, on) == [st EXCEPT !.checked = on]
=============================================================================

------------------------ MODULE SecondaryChainProofs ------------------------
(***************************************************************************)
(* Proofs about SecondaryChain, for every calendar, patience, retention,   *)
(* sensor, set of gaps, points where a run may be cut off, and number of   *)
(* stops, revisions, removals and switches.  Its types, its history and    *)
(* its gaps hold whatever the environment does; its guard, the sums of its *)
(* rows and the tracking of its revisions hold until what they rest on has *)
(* lapsed (the history variable lapses).                                   *)
(***************************************************************************)
EXTENDS SecondaryChainProperties, AmberStoreProofs

-----------------------------------------------------------------------------
(* The inductive invariant *)

\* The day had usage data when the chain resolved it.
Given(d) == chain.status[d] \in {"imported", "sensor"}

Agrees == LastRow = chain.lastWritten

\* The chain's records agree with each other and with its rows: written days have rows, a
\* day is resolved once the marker has passed it, and from the first resolved day on, or the
\* last written one, no day is left out.
Records ==
  /\ chain.lastWritten <= chain.marker
  /\ chain.lastWritten # NoDay => HasRow(chain.lastWritten)
  /\ \A d \in Day : chain.status[d] # "none" => d <= chain.marker
  /\ \A d \in Day : chain.status[d] = "imported" => d <= chain.lastWritten /\ HasRow(d)
  /\ \A d, e \in Day :
       d <= e /\ e <= chain.marker /\ chain.status[d] # "none" => chain.status[e] # "none"
  /\ \A d \in Day : chain.lastWritten # NoDay /\ chain.lastWritten < d /\ d <= chain.marker
       => chain.status[d] # "none"

\* An interrupted rewrite has days to go, none of them after the marker.
Progress ==
  chain.rewrite # NoRewrite =>
    /\ chain.rewrite.next \in Day /\ chain.rewrite.next <= chain.rewrite.to
    /\ chain.rewrite.to <= chain.marker

\* What once was there stays: usage data, and sensor data behind a row.
Lasting ==
  /\ \A d \in Day : HasRow(d) => SensorData(d) /\ ~Empty(amber[d])
  /\ \A d \in Day : Given(d) => ~Empty(amber[d])
  /\ \A d \in Day : InRevisionSet(store, d) => ~Empty(amber[d])
  /\ \A d \in Day : ~Empty(amber[d]) => d < today

\* The run's fetched days against Amber, the chain and its rows.
Fetches ==
  /\ \A d \in Day : run.cache[d] # Unfetched /\ ~Empty(run.cache[d]) => ~Empty(amber[d])
  /\ \A d \in Day : Boundary <= d /\ Empty(run.cache[d]) => ~Given(d) /\ ~HasRow(d)
  /\ IF At("idle") THEN run = Idle ELSE run.yesterday = today - 1
  /\ Interrupted /\ run.pc \in {"revisions", "checked", "usage"} =>
       \A d \in Day : run.cache[d] \in {Unfetched, Usage(d)}

\* The pending day explains the last row, and nothing will make the chain forget it before
\* the guard has seen it: no revision waits, no rewrite is to be resumed.
Explained ==
  /\ chain.pending = chain.marker + 1 /\ LastRow = chain.pending
  /\ ~RevisionWaits /\ chain.rewrite = NoRewrite /\ LastRow >= Boundary

NextDay == chain.marker = NoDay \/ run.day = chain.marker + 1

BeforeGuard ==
  /\ run.pc \in {"idle", "revisions", "checked", "usage", "guard"} =>
       chain.marker = NoDay \/ Agrees \/ Explained
  /\ At("revised") => run.day \in Day /\ (chain.marker = NoDay \/ Agrees)

AfterGuard ==
  /\ run.pc \in {"resume", "start", "ready"} =>
       IF run.recovery = NoDay THEN Agrees
       ELSE run.recovery = chain.marker + 1 /\ chain.marker # NoDay /\ Explained
  /\ run.pc \in {"start", "ready"} => chain.rewrite = NoRewrite \/ ~Flows
  /\ At("ready") => run.day >= Boundary /\ NextDay

\* The day at hand can be worked out.
Readable ==
  /\ run.day \in Day /\ SensorData(run.day)
  /\ run.cache[run.day] # Unfetched /\ ~Empty(run.cache[run.day])

\* The walk writes the day after the marker, or the first one of all, again where an
\* interrupted append is recovered.
Walks ==
  /\ At("walk") \/ (run.pc \in {"rows", "mark"} /\ ~run.rewriting) =>
       chain.rewrite = NoRewrite /\ run.day >= Boundary /\ NextDay
  /\ At("walk") => Agrees \/ LastRow = run.day
  /\ run.pc \in {"rows", "mark"} /\ ~run.rewriting =>
       /\ Readable /\ chain.pending = run.day
       /\ IF At("mark") THEN LastRow = run.day ELSE Agrees \/ LastRow = run.day
  /\ At("track") /\ ~run.rewriting =>
       /\ chain.rewrite = NoRewrite /\ run.day >= Boundary
       /\ chain.marker = run.day /\ Agrees /\ Readable

Rewriting == At("rewrite") \/ (run.pc \in {"rows", "mark", "track"} /\ run.rewriting)

\* A rewrite writes days the chain has resolved; the last row it leaves is the last written
\* day's, or, in a retry before the walk, that of an append still to be recovered.
Rewrites ==
  Rewriting =>
    /\ run.rewriting /\ run.day > 0 /\ run.last <= chain.marker /\ chain.marker # NoDay
    /\ At("rewrite") \/ (run.day <= run.last /\ Readable /\ Given(run.day))
    /\ run.pc \in {"rows", "mark"} /\ chain.status[run.day] = "sensor" => chain.rewrite.retry
    /\ At("track") => chain.status[run.day] = "imported"
    /\ At("mark") => HasRow(run.day)
    /\ \/ At("mark") /\ LastRow = Later(chain.lastWritten, run.day)
       \/ Agrees
       \/ run.after = "walk" /\ LastRow = run.start
    /\ run.after = "start" => run.recovery = NoDay
    /\ run.after = "walk" =>
         /\ run.start = chain.marker + 1 /\ run.start >= Boundary
         /\ Flows /\ run.day >= Boundary

Control == BeforeGuard /\ AfterGuard /\ Walks /\ Rewrites

\* No recovery of an interrupted append has been lost.
RecoveryKept == "recovery" \notin lapses

ChainInv == StateOK /\ Records /\ Progress /\ Lasting /\ Fetches /\ Control

-----------------------------------------------------------------------------
(* Rows *)

LEMMA Constants ==
  /\ Day \subseteq Nat /\ Date \subseteq Nat /\ NoDay = 0 /\ NoDay \notin Day
  /\ MaxDay \in Nat \ {0} /\ Retention \in Nat \ {0} /\ Patience \in Nat \ {0}
BY NextOfDay, MaxDayAssumption, SecondaryChainAssumption DEF NoDay

\* The last row is a day's, and no row comes after it.
LEMMA LastRowIsLast ==
  /\ LastRow \in Day \cup {NoDay}
  /\ LastRow # NoDay => HasRow(LastRow)
  /\ \A d \in Day : HasRow(d) => d <= LastRow
<1> DEFINE S == {d \in Day : HasRow(d)}
<1>1. S \in SUBSET Day /\ LastRow = MaxOf(S)
  BY DEF LastRow
<1>2. /\ MaxOf(S) \in S \cup {NoDay}
      /\ S # {} => MaxOf(S) \in S /\ \A e \in S : e <= MaxOf(S)
  BY <1>1, MaxOfDays
<1>3. \A d \in Day : HasRow(d) => d \in S
  OBVIOUS
<1> QED
  BY <1>1, <1>2, <1>3

\* ... which tells which row it is.
LEMMA LastRowUnique ==
  ASSUME NEW day \in Day, HasRow(day), \A d \in Day : HasRow(d) => d <= day
  PROVE  LastRow = day
<1>1. LastRow \in Day \cup {NoDay} /\ day <= LastRow /\ (LastRow # NoDay => HasRow(LastRow))
  BY LastRowIsLast
<1>2. LastRow # NoDay
  BY <1>1, Constants
<1>3. LastRow <= day
  BY <1>1, <1>2
<1> QED
  BY <1>1, <1>2, <1>3, Constants

\* The same rows have the same last one.
LEMMA SameRows ==
  ASSUME rows' = rows
  PROVE  LastRow' = LastRow /\ \A d \in Day : HasRow(d)' <=> HasRow(d)
BY DEF LastRow, HasRow

\* Writing a day's row.
LEMMA RowWritten ==
  ASSUME NEW day \in Day, NEW r, r # NoRow, StateOK, rows' = [rows EXCEPT ![day] = r]
  PROVE  /\ \A d \in Day : HasRow(d)' <=> HasRow(d) \/ d = day
         /\ LastRow' = Later(LastRow, day)
<1>1. \A d \in Day : rows'[d] = IF d = day THEN r ELSE rows[d]
  BY DEF StateOK
<1>2. \A d \in Day : HasRow(d)' <=> HasRow(d) \/ d = day
  BY <1>1 DEF HasRow
<1>3. LastRow' = Later(LastRow, day)
  <2> DEFINE S == {d \in Day : rows'[d] # NoRow}
  <2>0. /\ MaxOf(S) \in S \cup {NoDay}
        /\ S # {} => MaxOf(S) \in S /\ \A e \in S : e <= MaxOf(S)
    BY MaxOfDays
  <2>1. /\ LastRow \in Day \cup {NoDay}
        /\ LastRow # NoDay => HasRow(LastRow)
        /\ \A d \in Day : HasRow(d) => d <= LastRow
    BY LastRowIsLast
  <2>2. LastRow' = MaxOf(S) /\ \A d \in Day : d \in S <=> HasRow(d) \/ d = day
    BY <1>2 DEF LastRow, HasRow
  <2>3. /\ LastRow' \in Day /\ (HasRow(LastRow') \/ LastRow' = day)
        /\ \A d \in Day : HasRow(d) \/ d = day => d <= LastRow'
    BY <2>0, <2>2
  <2>4. day <= LastRow'
    BY <2>3
  <2>5. LastRow <= LastRow'
    BY <2>1, <2>3, Constants
  <2>6. LastRow' <= LastRow \/ LastRow' = day
    BY <2>1, <2>3
  <2> QED
    BY <2>1, <2>3, <2>4, <2>5, <2>6, Constants DEF Later
<1> QED
  BY <1>2, <1>3

-----------------------------------------------------------------------------
(* What the setters of the chain's record change *)

LEMMA NoRewriteType == NoRewrite \in [next : 0..MaxDay, to : 0..MaxDay, retry : BOOLEAN]
BY MaxDayAssumption DEF NoRewrite, NoDay

LEMMA NewChainFields ==
  /\ NewChain \in ChainRecord
  /\ NewChain.marker = NoDay /\ NewChain.lastWritten = NoDay /\ NewChain.pending = NoDay
  /\ NewChain.rewrite = NoRewrite /\ \A d \in Day : NewChain.status[d] = "none"
BY NoRewriteType DEF NewChain, ChainRecord, ChainStatus

LEMMA SetPendingFields ==
  ASSUME NEW c \in ChainRecord, NEW day \in Day \cup {NoDay}
  PROVE  LET n == ChainSetPending(c, day) IN
         /\ n \in ChainRecord /\ n.pending = day
         /\ n.marker = c.marker /\ n.lastWritten = c.lastWritten /\ n.status = c.status
         /\ n.rewrite = c.rewrite
BY DEF ChainSetPending, ChainRecord

LEMMA AdoptFields ==
  ASSUME NEW c \in ChainRecord, NEW last \in Day
  PROVE  LET n == Adopt(c, last) IN
         /\ n \in ChainRecord /\ n.marker = last /\ n.lastWritten = last
         /\ n.pending = c.pending /\ n.status = c.status /\ n.rewrite = c.rewrite
BY DEF Adopt, ChainRecord

LEMMA LaterType ==
  ASSUME NEW a \in Day \cup {NoDay}, NEW b \in Day \cup {NoDay}
  PROVE  /\ Later(a, b) \in Day \cup {NoDay} /\ a <= Later(a, b) /\ b <= Later(a, b)
         /\ Later(a, b) = a \/ Later(a, b) = b
BY Constants DEF Later

LEMMA MarkWrittenFields ==
  ASSUME NEW c \in ChainRecord, NEW day \in Day
  PROVE  LET n == MarkWritten(c, day) IN
         /\ n \in ChainRecord
         /\ n.marker = Later(c.marker, day) /\ n.lastWritten = Later(c.lastWritten, day)
         /\ n.pending = NoDay /\ n.rewrite = c.rewrite
         /\ \A d \in Day : n.status[d] = IF d = day THEN "imported" ELSE c.status[d]
<1>1. c.marker \in Day \cup {NoDay} /\ c.lastWritten \in Day \cup {NoDay}
  BY DEF ChainRecord
<1>2. Later(c.marker, day) \in Day \cup {NoDay} /\ Later(c.lastWritten, day) \in Day \cup {NoDay}
  BY <1>1, LaterType
<1> QED
  BY <1>2 DEF MarkWritten, ChainRecord, ChainStatus

LEMMA MarkSkippedFields ==
  ASSUME NEW c \in ChainRecord, NEW first \in Day, NEW last \in Day, NEW how \in ChainSkipped
  PROVE  LET n == ChainMarkSkipped(c, first, last, how) IN
         /\ n \in ChainRecord
         /\ n.marker = Later(c.marker, last) /\ n.lastWritten = c.lastWritten
         /\ n.pending = c.pending /\ n.rewrite = c.rewrite
         /\ \A d \in Day : n.status[d] = IF d \in first..last /\ c.status[d] # "imported"
                                         THEN how ELSE c.status[d]
<1>1. c.marker \in Day \cup {NoDay} /\ last \in Day \cup {NoDay}
  BY DEF ChainRecord
<1>2. Later(c.marker, last) \in Day \cup {NoDay}
  BY <1>1, LaterType
<1> QED
  BY <1>2 DEF ChainMarkSkipped, ChainRecord, ChainStatus

LEMMA SetRewriteFields ==
  ASSUME NEW c \in ChainRecord, NEW next \in 0..MaxDay, NEW to \in 0..MaxDay
  PROVE  LET n == SetRewrite(c, next, to) IN
         /\ n \in ChainRecord
         /\ n.marker = c.marker /\ n.lastWritten = c.lastWritten /\ n.pending = c.pending
         /\ n.status = c.status
         /\ n.rewrite.next = next /\ n.rewrite.to = to /\ n.rewrite.retry = c.rewrite.retry
BY DEF SetRewrite, ChainRecord

LEMMA EndRewriteFields ==
  ASSUME NEW c \in ChainRecord
  PROVE  LET n == EndRewrite(c) IN
         /\ n \in ChainRecord
         /\ n.marker = c.marker /\ n.lastWritten = c.lastWritten /\ n.pending = c.pending
         /\ n.status = c.status /\ n.rewrite = NoRewrite
BY NoRewriteType DEF EndRewrite, ChainRecord

LEMMA StartRetryFields ==
  ASSUME NEW c \in ChainRecord,
         NEW progress \in [next : 0..MaxDay, to : 0..MaxDay, retry : BOOLEAN]
  PROVE  LET n == StartRetry(c, progress) IN
         /\ n \in ChainRecord
         /\ n.marker = c.marker /\ n.lastWritten = c.lastWritten /\ n.pending = c.pending
         /\ n.status = c.status /\ n.rewrite = progress
BY DEF StartRetry, ChainRecord

-----------------------------------------------------------------------------
(* Parts of a step that change nothing *)

LEMMA Typed ==
  ASSUME StateOK
  PROVE  /\ today \in Date /\ amber \in [Day -> Answer] /\ store \in StoreRecord
         /\ chain \in ChainRecord /\ run \in RunRecord
         /\ chain.marker \in Day \cup {NoDay} /\ chain.lastWritten \in Day \cup {NoDay}
         /\ chain.pending \in Day \cup {NoDay} /\ chain.status \in [Day -> ChainStatus]
         /\ chain.rewrite \in [next : 0..MaxDay, to : 0..MaxDay, retry : BOOLEAN]
         /\ run.cache \in [Day -> Answer \cup {Unfetched}]
BY DEF StateOK, ChainRecord, RunRecord

\* Usage data has an amount; an answer without usage has none.
LEMMA Amounts ==
  ASSUME NEW a \in Answer \cup {Unfetched}
  PROVE  /\ a.amount \in Amount \cup {0} /\ a.amount \in Nat
         /\ a # Unfetched /\ ~Empty(a) => a.amount \in Amount /\ a.amount > 0
         /\ Empty(a) <=> a = Nothing
         /\ a = Unfetched => ~Empty(a)
<1>1. CASE a \in {Nothing, Unfetched}
  BY <1>1 DEF Nothing, Unfetched, Empty
<1>2. CASE a \in [quality : {"estimated", "actual"}, amount : Amount]
  <2>1. a.amount \in Amount /\ a.quality \in {"estimated", "actual"}
    BY <1>2
  <2>2. Nothing.quality = "none" /\ Unfetched.quality = "unfetched"
    BY DEF Nothing, Unfetched
  <2>3. a # Nothing /\ a # Unfetched /\ ~Empty(a)
    BY <2>1, <2>2 DEF Empty
  <2>4. a.amount \in Nat /\ a.amount # 0
    BY <2>1, AmountAssumption
  <2> HIDE <1>2
  <2> QED
    BY <2>1, <2>3, <2>4
<1> QED
  BY <1>1, <1>2 DEF Answer

LEMMA IdleFields ==
  /\ Idle \in RunRecord /\ Idle.pc = "idle" /\ \A d \in Day : Idle.cache[d] = Unfetched
  /\ Idle.rewriting = FALSE
BY MaxDayAssumption DEF Idle, RunRecord, PCs, NoDay

LEMMA BoundaryType ==
  ASSUME StateOK
  PROVE  /\ Boundary \in Date /\ today - Retention <= Boundary /\ Boundary >= 1
         /\ today = MaxDay + 1 \/ today \in Day
         /\ Boundary = 1 \/ Boundary <= today - 1
BY Typed, Constants DEF Boundary, Later, Date, Day

LEMMA RecordsSame ==
  ASSUME Records, rows' = rows, chain'.marker = chain.marker,
         chain'.lastWritten = chain.lastWritten,
         \A d \in Day : chain'.status[d] = chain.status[d]
  PROVE  Records' /\ (Agrees' <=> Agrees) /\ (Interrupted' <=> Interrupted)
BY SameRows DEF Records, HasRow, Agrees, Interrupted

LEMMA LastingSame ==
  ASSUME Lasting, rows' = rows, amber' = amber, today' = today,
         site'.since = site.since, site'.upgraded = site.upgraded \/ site'.upgraded = TRUE,
         \A d \in Day : Given(d)' => Given(d) \/ ~Empty(amber[d]),
         \A d \in Day : InRevisionSet(store', d) => InRevisionSet(store, d) \/ ~Empty(amber[d])
  PROVE  Lasting'
<1>1. \A d \in Day : HasRow(d)' <=> HasRow(d)
  BY SameRows
<1>2. \A d \in Day : SensorData(d) => SensorData(d)'
  BY DEF SensorData
<1>3. \A d \in Day : Empty(amber'[d]) <=> Empty(amber[d])
  OBVIOUS
<1> QED
  BY <1>1, <1>2, <1>3 DEF Lasting, HasRow

\* A run that goes on with the days it has.
LEMMA FetchesSame ==
  ASSUME Fetches, rows' = rows, amber' = amber, today' = today,
         run'.cache = run.cache, run'.yesterday = run.yesterday, run.pc # "idle", run'.pc # "idle",
         \A d \in Day : Given(d)' => Given(d) \/ ~Empty(run.cache[d]),
         ~(run'.pc \in {"revisions", "checked", "usage"} /\ Interrupted')
  PROVE  Fetches'
<1>1. \A d \in Day : HasRow(d)' <=> HasRow(d)
  BY SameRows
<1>2. Boundary' = Boundary
  BY DEF Boundary
<1> QED
  BY <1>1, <1>2 DEF Fetches, At

\* A run that is over.
LEMMA RunOver ==
  ASSUME StateOK, run' = Idle,
         chain'.marker = NoDay \/ LastRow' = chain'.lastWritten \/ Explained'
  PROVE  run' \in RunRecord /\ Fetches' /\ Control'
<1>1. run' \in RunRecord /\ run'.pc = "idle" /\ \A d \in Day : run'.cache[d] = Unfetched
  BY IdleFields
<1>2. Fetches'
  BY <1>1 DEF Fetches, At, Empty, Unfetched
<1>3. Control'
  BY <1>1 DEF Control, BeforeGuard, AfterGuard, Walks, Rewrites, Rewriting, Agrees, At
<1> QED
  BY <1>1, <1>2, <1>3

\* Whether a revision waits, and whether a pending day explains the rows.
LEMMA ExplainedSame ==
  ASSUME Explained, rows' = rows, amber' = amber, today' = today,
         chain'.pending = chain.pending, chain'.marker = chain.marker,
         chain'.rewrite = chain.rewrite, store'.revisions = store.revisions
  PROVE  Explained'
BY SameRows DEF Explained, RevisionWaits, RevisionDaysOf, InRevisionSet, Boundary

\* The chain stays as it is and the run ends.
LEMMA EndsAlike ==
  ASSUME ChainInv, EndRun, UNCHANGED <<today, amber, site, chain, rows>>,
         store' \in StoreRecord, store'.revisions = store.revisions,
         chain.marker = NoDay \/ Agrees \/ Explained
  PROVE  /\ run' \in RunRecord /\ Records' /\ Progress' /\ Lasting' /\ Fetches' /\ Control'
<1>1. Records' /\ (Agrees' <=> Agrees)
  BY RecordsSame DEF ChainInv
<1>2. Progress'
  BY DEF ChainInv, Progress
<1>3. Lasting'
  BY LastingSame DEF ChainInv, Given, InRevisionSet
<1>4. chain'.marker = NoDay \/ LastRow' = chain'.lastWritten \/ Explained'
  BY <1>1, ExplainedSame DEF Agrees
<1>5. run' \in RunRecord /\ Fetches' /\ Control'
  BY <1>4, RunOver DEF EndRun, ChainInv
<1> QED
  BY <1>1, <1>2, <1>3, <1>5

-----------------------------------------------------------------------------
(* The initial states, the environment and the user *)

LEMMA ChainInit ==
  ASSUME Init
  PROVE  ChainInv
<1>1. StateOK
  <2>1. today \in Date /\ amber \in [Day -> Answer] /\ written \in [Day -> Amount \cup {0}]
    BY MaxDayAssumption DEF Init, Date, Answer
  <2>2. store \in StoreRecord /\ chain \in ChainRecord /\ run \in RunRecord
    BY EmptyStoreType, NewChainFields, IdleFields DEF Init
  <2>3. rows \in [Day -> [state : Nat, sum : Nat]]
    BY DEF Init, NoRow
  <2>4. /\ site \in [mapped : BOOLEAN, since : SensorFrom, flows : BOOLEAN, upgraded : BOOLEAN,
                    mode : Modes]
        /\ left \in [{"crash", "revise", "remove", "toggle"} -> Nat]
    BY SecondaryChainAssumption DEF Init
  <2> QED
    BY <2>1, <2>2, <2>3, <2>4 DEF StateOK
<1>2. \A d \in Day : ~HasRow(d) /\ Empty(amber[d]) /\ chain.status[d] = "none"
  BY NewChainFields DEF Init, HasRow, Empty, Nothing
<1>3. chain.marker = NoDay /\ chain.lastWritten = NoDay /\ chain.rewrite = NoRewrite
  BY NewChainFields DEF Init
<1>4. Records /\ Progress
  BY <1>2, <1>3, Constants DEF Records, Progress
<1>5. \A d \in Day : ~InRevisionSet(store, d)
  BY DEF Init, EmptyStore, InRevisionSet
<1>6. Lasting
  BY <1>2, <1>5 DEF Lasting, Given
<1>7. run.pc = "idle" /\ run = Idle /\ \A d \in Day : run.cache[d] = Unfetched
  BY IdleFields DEF Init
<1>8. Fetches
  BY <1>7 DEF Fetches, At, Empty, Unfetched
<1>9. Control
  BY <1>3, <1>7 DEF Control, BeforeGuard, AfterGuard, Walks, Rewrites, Rewriting, At
<1> QED
  BY <1>1, <1>4, <1>6, <1>8, <1>9 DEF ChainInv

LEMMA Numbers ==
  ASSUME ChainInv
  PROVE  /\ LastRow \in Nat /\ chain.marker \in Nat /\ chain.lastWritten \in Nat /\ NoDay = 0
         /\ today \in Nat /\ today > 0 /\ Boundary \in Nat /\ Boundary > 0
         /\ chain.lastWritten <= chain.marker /\ chain.lastWritten <= LastRow
         /\ LastRow > 0 => LastRow \in Day /\ HasRow(LastRow)
<1>1. /\ LastRow \in Nat /\ chain.marker \in Nat /\ chain.lastWritten \in Nat /\ NoDay = 0
      /\ today \in Nat /\ today > 0
  <2>1. StateOK
    BY DEF ChainInv
  <2>2. LastRow \in Nat /\ chain.marker \in Nat /\ chain.lastWritten \in Nat /\ NoDay = 0
    <3>1. Day \cup {NoDay} \subseteq Nat /\ NoDay = 0
      BY Constants
    <3>2. /\ LastRow \in Day \cup {NoDay} /\ chain.marker \in Day \cup {NoDay}
          /\ chain.lastWritten \in Day \cup {NoDay}
      BY <2>1, LastRowIsLast, Typed
    <3> QED
      BY <3>1, <3>2
  <2>3. today \in Date
    BY <2>1, Typed
  <2> QED
    BY <2>2, <2>3, Constants DEF Date
<1>2. Boundary \in Nat /\ Boundary > 0
  BY BoundaryType, Constants DEF ChainInv, Date
<1>3. chain.lastWritten <= LastRow
  <2>1. chain.lastWritten \in Day => HasRow(chain.lastWritten)
    BY Constants DEF ChainInv, Records
  <2>2. chain.lastWritten \in Day => chain.lastWritten <= LastRow
    BY <2>1, LastRowIsLast
  <2>3. chain.lastWritten \in Day \cup {NoDay}
    BY Typed DEF ChainInv
  <2> QED
    BY <1>1, <2>2, <2>3
<1>4. chain.lastWritten <= chain.marker
  BY DEF ChainInv, Records
<1>5. LastRow > 0 => LastRow \in Day /\ HasRow(LastRow)
  BY <1>1, LastRowIsLast
<1> QED
  BY <1>1, <1>2, <1>3, <1>4, <1>5

\* An append that the run did not record leaves the marker's next day as the last row.
LEMMA ExplainedIsInterrupted ==
  ASSUME ChainInv, chain.marker # NoDay, Explained
  PROVE  Interrupted
BY Numbers DEF Explained, Interrupted

LEMMA TickKeeps ==
  ASSUME ChainInv, Tick, RecoveryKept'
  PROVE  ChainInv'
<1>1. today \in Date /\ today' = today + 1 /\ today' \in Date
  BY Typed, Constants DEF Tick, ChainInv, Date
<1>2. StateOK'
  BY <1>1 DEF Tick, ChainInv, StateOK, usage
<1>3. UNCHANGED <<amber, site, store, written, chain, rows, run, left>> /\ run.pc = "idle"
  BY DEF Tick, usage, At
<1>4. Records' /\ Progress' /\ (Agrees' <=> Agrees)
  BY <1>3, RecordsSame DEF ChainInv, Progress
<1>5. Lasting'
  BY <1>1, <1>3, Constants DEF ChainInv, Lasting, Given, HasRow, SensorData, InRevisionSet
<1>6. run = Idle
  BY <1>3 DEF ChainInv, Fetches, At
<1>7. chain'.marker = NoDay \/ LastRow' = chain'.lastWritten \/ Explained'
  <2>1. chain.marker = NoDay \/ Agrees \/ Explained
    BY <1>3 DEF ChainInv, Control, BeforeGuard
  <2>2. ASSUME chain.marker # NoDay, Explained
        PROVE  Explained'
    <3>0. Interrupted
      BY <2>2, ExplainedIsInterrupted
    <3>1. LastRow > today - Retention /\ LastRow \in Nat /\ LastRow >= Boundary /\ Boundary >= 1
      <4>1. ~(LastRow <= today - Retention)
        BY <3>0 DEF Tick, Lapse, RecoveryKept
      <4> QED
        BY <2>2, <4>1, Numbers, Constants DEF Explained
    <3>2. LastRow' = LastRow
      BY <1>3, SameRows
    <3>3. LastRow' >= Boundary'
      BY <1>1, <3>1, <3>2, Constants DEF Boundary, Later
    <3> QED
      BY <1>3, <2>2, <3>2, <3>3
         DEF Explained, RevisionWaits, RevisionDaysOf, InRevisionSet
  <2> QED
    BY <1>3, <1>4, <2>1, <2>2 DEF Agrees
<1>8. Fetches' /\ Control'
  BY <1>2, <1>3, <1>6, <1>7, RunOver DEF ChainInv
<1> QED
  BY <1>2, <1>4, <1>5, <1>8 DEF ChainInv

LEMMA CrashKeeps ==
  ASSUME ChainInv, Crash, RecoveryKept'
  PROVE  ChainInv'
<1>1. /\ UNCHANGED <<today, amber, site, store, written, chain, rows>>
      /\ EndRun /\ ~PendingAtRisk
  BY DEF Crash, Lapse, RecoveryKept, usage
<1>2. left' \in [{"crash", "revise", "remove", "toggle"} -> Nat]
  BY DEF Crash, Spend, ChainInv, StateOK
<1>3. chain.marker = NoDay \/ Agrees \/ Explained
  <2>1. CASE ~Interrupted
    <3>1. chain.marker = NoDay \/ LastRow <= chain.lastWritten
      BY <2>1, Numbers DEF Interrupted
    <3> QED
      BY <3>1, Numbers DEF Agrees
  <2>2. CASE Interrupted
    <3>0. /\ ~run.rewriting /\ ~RevisionWaits /\ ~Agrees /\ chain.marker # NoDay
          /\ At("walk") => chain.pending = chain.marker + 1
      BY <1>1, <2>2, Numbers DEF PendingAtRisk, Interrupted, Agrees
    <3>1. /\ ~run.rewriting /\ ~RevisionWaits /\ ~Agrees /\ chain.marker # NoDay
          /\ run.pc \in {"walk", "rows", "mark"} => chain.pending = chain.marker + 1
      BY <3>0 DEF ChainInv, Control, Walks, NextDay, At
    <3>2. run.pc \in {"walk", "rows", "mark"} =>
            chain.rewrite = NoRewrite /\ run.day >= Boundary /\ run.day = chain.marker + 1
            /\ LastRow = run.day
      BY <3>1 DEF ChainInv, Control, Walks, NextDay, At
    <3>3. run.pc \in {"walk", "rows", "mark"} => Explained
      BY <3>1, <3>2 DEF Explained
    <3>4. run.pc # "track" /\ run.pc # "rewrite" /\ run.pc # "revised"
      BY <3>1 DEF ChainInv, Control, Walks, Rewrites, Rewriting, BeforeGuard, At
    <3>5. run.pc \in PCs
      BY Typed DEF ChainInv, RunRecord
    <3> QED
      BY <3>1, <3>3, <3>4, <3>5 DEF ChainInv, Control, BeforeGuard, AfterGuard, PCs
  <2> QED
    BY <2>1, <2>2
<1>4. run' \in RunRecord /\ Records' /\ Progress' /\ Lasting' /\ Fetches' /\ Control'
  BY <1>1, <1>3, EndsAlike, Typed DEF ChainInv
<1>5. StateOK'
  BY <1>1, <1>2, <1>4 DEF ChainInv, StateOK
<1> QED
  BY <1>4, <1>5 DEF ChainInv

LEMMA PublishKeeps ==
  ASSUME ChainInv, NEW day \in Day, Publish(day), RecoveryKept'
  PROVE  ChainInv'
<1>1. PICK a \in Answer \ {Nothing, amber[day]} :
        /\ amber' = [amber EXCEPT ![day] = a]
        /\ UNCHANGED left \/ Spend("revise")
        /\ ~Empty(amber[day]) /\ a.amount # amber[day].amount => ~Interrupted
  BY DEF Publish, Revised, Lapse, RecoveryKept
<1>2. /\ run.pc \in {"idle", "guard"} /\ day < today
      /\ UNCHANGED <<today, site, store, written, chain, rows, run>>
  BY DEF Publish, usage
<1>3. amber \in [Day -> Answer] /\ ~Empty(a)
  BY Amounts, Typed DEF ChainInv
<1>4. \A d \in Day : amber'[d] = IF d = day THEN a ELSE amber[d]
  BY <1>1, <1>3
<1>5. StateOK'
  <2>1. left' \in [{"crash", "revise", "remove", "toggle"} -> Nat]
    BY <1>1 DEF Spend, ChainInv, StateOK
  <2>2. amber' \in [Day -> Answer]
    BY <1>1, <1>3
  <2> QED
    BY <1>2, <2>1, <2>2 DEF ChainInv, StateOK
<1>6. Records' /\ Progress' /\ (Agrees' <=> Agrees)
  BY <1>2, RecordsSame DEF ChainInv, Progress
<1>7. \A d \in Day : ~Empty(amber[d]) => ~Empty(amber'[d])
  BY <1>3, <1>4
<1>8. Lasting'
  <2>1. \A d \in Day : ~Empty(amber'[d]) => d < today
    BY <1>2, <1>4 DEF ChainInv, Lasting
  <2> QED
    BY <1>2, <1>7, <2>1 DEF ChainInv, Lasting, Given, HasRow, SensorData, InRevisionSet
<1>9. Fetches'
  <2>1. /\ \A d \in Day : run.cache[d] # Unfetched /\ ~Empty(run.cache[d]) => ~Empty(amber'[d])
        /\ Boundary' = Boundary
    BY <1>2, <1>7 DEF ChainInv, Fetches, Boundary
  <2> QED
    BY <1>2, <2>1 DEF ChainInv, Fetches, Given, HasRow, At
<1>10. ASSUME chain.marker # NoDay, Explained
       PROVE  Explained'
  <2>1. Interrupted
    BY <1>10, ExplainedIsInterrupted
  <2>2. \A d \in Day : InRevisionSet(store, d) => amber'[d].amount = amber[d].amount
    BY <1>1, <1>4, <2>1 DEF ChainInv, Lasting
  <2> QED
    BY <1>2, <1>10, <2>2, SameRows
       DEF Explained, RevisionWaits, RevisionDaysOf, InRevisionSet, Boundary
<1>11. Control'
  <2>1. chain'.marker = NoDay \/ Agrees' \/ Explained'
    BY <1>2, <1>6, <1>10 DEF ChainInv, Control, BeforeGuard
  <2> QED
    BY <1>2, <2>1 DEF Control, BeforeGuard, AfterGuard, Walks, Rewrites, Rewriting, At
<1> QED
  BY <1>5, <1>6, <1>8, <1>9, <1>11 DEF ChainInv

LEMMA RemoveKeeps ==
  ASSUME ChainInv, RemoveMapping
  PROVE  ChainInv'
<1>1. /\ UNCHANGED <<today, amber, store, written, rows, run>> /\ run.pc = "idle"
      /\ chain' = NewChain /\ site' = [site EXCEPT !.mapped = FALSE] /\ Spend("remove")
  BY DEF RemoveMapping, usage, At
<1>2. run' = Idle
  BY <1>1 DEF ChainInv, Fetches, At
<1>3. /\ chain' \in ChainRecord
      /\ chain'.marker = NoDay /\ chain'.lastWritten = NoDay /\ chain'.rewrite = NoRewrite
      /\ \A d \in Day : chain'.status[d] = "none"
  BY <1>1, NewChainFields
<1>4. StateOK'
  <2>1. left' \in [{"crash", "revise", "remove", "toggle"} -> Nat]
    BY <1>1 DEF Spend, ChainInv, StateOK
  <2>2. site' \in [mapped : BOOLEAN, since : SensorFrom, flows : BOOLEAN, upgraded : BOOLEAN,
                   mode : Modes]
    BY <1>1 DEF ChainInv, StateOK
  <2> QED
    BY <1>1, <1>3, <2>1, <2>2 DEF ChainInv, StateOK
<1>5. Records' /\ Progress'
  <2>1. chain'.lastWritten <= chain'.marker
    BY <1>3, Constants
  <2> QED
    BY <1>3, <2>1 DEF Records, Progress
<1>6. Lasting'
  <2>1. site'.since = site.since /\ site'.upgraded = site.upgraded
    BY <1>1 DEF ChainInv, StateOK
  <2> QED
    BY <1>1, <1>3, <2>1, LastingSame DEF ChainInv, Given
<1>7. Fetches' /\ Control'
  BY <1>2, <1>3, RunOver DEF ChainInv
<1> QED
  BY <1>4, <1>5, <1>6, <1>7 DEF ChainInv

\* The other things the user does change the setup only.
LEMMA SetupKeeps ==
  ASSUME ChainInv, AddMapping \/ ToggleFlows \/ Upgrade
  PROVE  ChainInv'
<1>1. /\ UNCHANGED <<today, amber, store, written, chain, rows, run>> /\ run.pc = "idle"
  BY DEF AddMapping, ToggleFlows, Upgrade, usage, At
<1>2. run' = Idle
  BY <1>1 DEF ChainInv, Fetches, At
<1>3. /\ site' \in [mapped : BOOLEAN, since : SensorFrom, flows : BOOLEAN, upgraded : BOOLEAN,
                    mode : Modes]
      /\ site'.since = site.since /\ (site'.upgraded = site.upgraded \/ site'.upgraded = TRUE)
  BY DEF AddMapping, ToggleFlows, Upgrade, ChainInv, StateOK
<1>4. left' \in [{"crash", "revise", "remove", "toggle"} -> Nat]
  BY DEF AddMapping, ToggleFlows, Upgrade, Spend, ChainInv, StateOK
<1>5. StateOK'
  BY <1>1, <1>3, <1>4 DEF ChainInv, StateOK
<1>6. Records' /\ Progress' /\ (Agrees' <=> Agrees)
  BY <1>1, RecordsSame DEF ChainInv, Progress
<1>7. Lasting'
  BY <1>1, <1>3, LastingSame DEF ChainInv, Given
<1>8. chain'.marker = NoDay \/ LastRow' = chain'.lastWritten \/ Explained'
  BY <1>1, <1>6, ExplainedSame DEF ChainInv, Control, BeforeGuard, Agrees
<1>9. Fetches' /\ Control'
  BY <1>2, <1>8, RunOver DEF ChainInv
<1> QED
  BY <1>5, <1>6, <1>7, <1>9 DEF ChainInv

-----------------------------------------------------------------------------
(* The steps of a run before the chain's guard *)

LEMMA YesterdayType ==
  ASSUME StateOK
  PROVE  today - 1 \in 0..MaxDay
BY Typed, Constants DEF Date

LEMMA StartKeeps ==
  ASSUME ChainInv, StartRun
  PROVE  ChainInv'
<1> DEFINE pc == IF store.checked = today THEN "usage" ELSE "revisions"
<1>1. /\ UNCHANGED <<today, amber, site, store, written, chain, rows, left>> /\ run.pc = "idle"
      /\ run' = [Idle EXCEPT !.pc = pc, !.yesterday = today - 1]
  BY DEF StartRun, setup, usage, At
<1>2. pc \in {"usage", "revisions"}
  OBVIOUS
<1> HIDE DEF pc
<1>3. /\ run' \in RunRecord /\ run'.pc = pc /\ run'.yesterday = today - 1
      /\ \A d \in Day : run'.cache[d] = Unfetched
  BY <1>1, <1>2, IdleFields, YesterdayType DEF ChainInv, RunRecord, PCs
<1>4. StateOK'
  BY <1>1, <1>3 DEF ChainInv, StateOK
<1>5. Records' /\ Progress' /\ (Agrees' <=> Agrees)
  BY <1>1, RecordsSame DEF ChainInv, Progress
<1>6. Lasting'
  BY <1>1, LastingSame DEF ChainInv, Given
<1>7. Fetches'
  BY <1>1, <1>2, <1>3 DEF Fetches, At, Empty, Unfetched
<1>8. Control'
  <2>1. chain'.marker = NoDay \/ Agrees' \/ Explained'
    BY <1>1, <1>5, ExplainedSame DEF ChainInv, Control, BeforeGuard
  <2> QED
    BY <1>2, <1>3, <2>1 DEF Control, BeforeGuard, AfterGuard, Walks, Rewrites, Rewriting, At
<1> QED
  BY <1>4, <1>5, <1>6, <1>7, <1>8 DEF ChainInv

LEMMA MinOfIsLeast ==
  ASSUME NEW S \in SUBSET Day, NEW d \in S
  PROVE  MinOf(S) \in S /\ MinOf(S) <= d
<1>1. S # {} /\ S \in SUBSET Nat
  BY Constants
<1>2. \E x \in S : \A e \in S : x <= e
  BY <1>1, LeastNatural
<1> QED
  BY <1>1, <1>2 DEF MinOf

LEMMA UsageIs ==
  ASSUME StateOK, NEW d \in Day
  PROVE  /\ Usage(d) \in Answer /\ Usage(d) # Unfetched
         /\ ~Empty(Usage(d)) => Usage(d) = amber[d]
         /\ Boundary <= d => Usage(d) = amber[d]
<1>1. amber[d] \in Answer
  BY Typed
<1>2. \A a \in Answer : a # Unfetched
  BY DEF Answer, Nothing, Unfetched
<1>3. Boundary \in Date
  BY BoundaryType
<1>4. d \in Int /\ Boundary \in Int
  BY <1>3, Constants
<1> QED
  BY <1>1, <1>2, <1>4 DEF Usage, Answer, Empty, Nothing

LEMMA FetchIs ==
  ASSUME StateOK, NEW first, NEW last
  PROVE  /\ Fetch(first, last) \in [Day -> Answer \cup {Unfetched}]
         /\ \A d \in Day : Fetch(first, last)[d] \in {run.cache[d], Usage(d)}
         /\ \A d \in Day : d \in first..last => Fetch(first, last)[d] = Usage(d)
BY UsageIs, Typed DEF Fetch

LEMMA CacheWithIs ==
  ASSUME StateOK, NEW day \in Day, NEW last \in 0..MaxDay
  PROVE  LET c == CacheWith(day, last) IN
         /\ c \in [Day -> Answer \cup {Unfetched}]
         /\ \A d \in Day : c[d] \in {run.cache[d], Usage(d)}
         /\ c[day] # Unfetched /\ c[day] \in Answer
<1>1. day \in day..Later(day, last)
  BY Constants DEF Later
<1> QED
  BY <1>1, FetchIs, UsageIs, Typed DEF CacheWith

\* Days fetched now or before do not hide what the chain and its rows were made from.
LEMMA FetchedDays ==
  ASSUME StateOK, Lasting, Fetches, NEW d \in Day, NEW a \in {run.cache[d], Usage(d)}
  PROVE  /\ a # Unfetched /\ ~Empty(a) => ~Empty(amber[d])
         /\ Boundary <= d /\ Empty(a) => ~Given(d) /\ ~HasRow(d)
BY UsageIs DEF Lasting, Fetches

\* Tracking a day touches its entry alone, and enters a day with usage only.
LEMMA TrackIs ==
  ASSUME NEW st \in StoreRecord, NEW day \in Day, NEW a \in Answer \cup {Unfetched}, StateOK
  PROVE  LET n == Track(st, day, a) IN
         /\ n \in StoreRecord /\ n.status = st.status /\ n.emptySeen = st.emptySeen
         /\ \A d \in Day : d # day => n.revisions[d] = st.revisions[d]
         /\ n.revisions[day] = NoRevision
            \/ (a # Unfetched /\ ~Empty(a) /\ n.revisions[day].hash = a.amount)
<1>1. a.amount \in Amount \cup {0}
  BY Amounts
<1>2. CASE a.quality = "estimated"
  <2>1. a # Unfetched /\ ~Empty(a)
    BY <1>2 DEF Unfetched, Empty
  <2>2. Track(st, day, a) = SetRevision(st, day, today, a.amount)
    BY <1>2 DEF Track
  <2>3. SetRevision(st, day, today, a.amount) \in StoreRecord
    BY <1>1, SetRevisionType, Typed
  <2> QED
    BY <2>1, <2>2, <2>3 DEF SetRevision, StoreRecord
<1>3. CASE a.quality # "estimated"
  <2>1. Track(st, day, a) = DropRevisions(st, {day})
    BY <1>3 DEF Track
  <2> DEFINE n == DropRevisions(st, {day})
  <2>2. n \in StoreRecord
    BY DropRevisionsType
  <2>3. n.status = st.status /\ n.emptySeen = st.emptySeen
    BY DEF DropRevisions, StoreRecord
  <2>4. n.revisions = [d \in Day |-> IF d \in {day} THEN NoRevision ELSE st.revisions[d]]
    BY DEF DropRevisions, StoreRecord
  <2>5. n.revisions[day] = NoRevision /\ \A d \in Day : d # day => n.revisions[d] = st.revisions[d]
    BY <2>4
  <2> HIDE DEF n
  <2> QED
    BY <2>1, <2>2, <2>3, <2>5 DEF n
<1> QED
  BY <1>2, <1>3

LEMMA ExplainedStays ==
  ASSUME Explained, rows' = rows, amber' = amber, today' = today, chain' = chain,
         \A d \in Day : \/ store'.revisions[d] \in {store.revisions[d], NoRevision}
                        \/ store'.revisions[d].hash = amber[d].amount
  PROVE  Explained'
BY SameRows DEF Explained, RevisionWaits, RevisionDaysOf, InRevisionSet, Boundary

\* A step between the start of a run and the guard: it may fetch days, drop revision
\* entries and make entries of what was fetched.
LEMMA EarlyStep ==
  ASSUME ChainInv, UNCHANGED <<today, amber, site, chain, rows, left>>,
         run.pc \in {"revisions", "checked", "usage"},
         run' \in RunRecord, run'.pc \in {"checked", "usage", "guard"},
         run'.yesterday = run.yesterday,
         \A d \in Day : run'.cache[d] \in {run.cache[d], Usage(d)},
         store' \in StoreRecord, written' \in [Day -> Amount \cup {0}],
         \A d \in Day : \/ store'.revisions[d] \in {store.revisions[d], NoRevision}
                        \/ /\ run'.cache[d] # Unfetched /\ ~Empty(run'.cache[d])
                           /\ store'.revisions[d].hash = run'.cache[d].amount
  PROVE  ChainInv'
<1>1. StateOK'
  BY DEF ChainInv, StateOK
<1>2. Records' /\ Progress' /\ (Agrees' <=> Agrees) /\ (Interrupted' <=> Interrupted)
  BY RecordsSame DEF ChainInv, Progress
<1>3. \A d \in Day : /\ run'.cache[d] # Unfetched /\ ~Empty(run'.cache[d]) => ~Empty(amber[d])
                     /\ Boundary <= d /\ Empty(run'.cache[d]) => ~Given(d) /\ ~HasRow(d)
  BY FetchedDays DEF ChainInv
<1>4. Lasting'
  <2>1. \A d \in Day : InRevisionSet(store', d) => InRevisionSet(store, d) \/ ~Empty(amber[d])
    BY <1>3 DEF InRevisionSet
  <2> QED
    BY <2>1, LastingSame DEF ChainInv, Given
<1>5. Interrupted => \A d \in Day : run'.cache[d] \in {Unfetched, Usage(d)}
  BY DEF ChainInv, Fetches
<1>6. Fetches'
  <2>1. run.yesterday = today - 1 /\ run.pc # "idle" /\ run'.pc # "idle"
    BY DEF ChainInv, Fetches, At
  <2>2. \A d \in Day : Usage(d)' = Usage(d)
    BY DEF Usage, Boundary
  <2> QED
    BY <1>2, <1>3, <1>5, <2>1, <2>2 DEF Fetches, At, Given, HasRow, Boundary
<1>7. Control'
  <2>1. ASSUME chain.marker # NoDay, Explained
        PROVE  Explained'
    <3>1. Interrupted
      BY <2>1, ExplainedIsInterrupted
    <3>2. \A d \in Day : ~Empty(run'.cache[d]) /\ run'.cache[d] # Unfetched =>
                           run'.cache[d] = amber[d]
      BY <1>5, <3>1, UsageIs DEF ChainInv
    <3> QED
      BY <2>1, <3>2, ExplainedStays
  <2>2. chain'.marker = NoDay \/ Agrees' \/ Explained'
    BY <1>2, <2>1 DEF ChainInv, Control, BeforeGuard
  <2> QED
    BY <2>2 DEF Control, BeforeGuard, AfterGuard, Walks, Rewrites, Rewriting, At
<1> QED
  BY <1>1, <1>2, <1>4, <1>6, <1>7 DEF ChainInv

\* A run that goes on, with the days it has and days fetched now.
LEMMA FetchesMore ==
  ASSUME StateOK, Lasting, Fetches, rows' = rows, amber' = amber, today' = today,
         run'.yesterday = run.yesterday, run.pc # "idle", run'.pc # "idle",
         \A d \in Day : run'.cache[d] \in {run.cache[d], Usage(d)},
         \A d \in Day : Given(d)' => Given(d) \/ ~Empty(run'.cache[d]),
         ~(run'.pc \in {"revisions", "checked", "usage"} /\ Interrupted')
  PROVE  Fetches'
<1>1. \A d \in Day : HasRow(d)' <=> HasRow(d)
  BY SameRows
<1>2. Boundary' = Boundary
  BY DEF Boundary
<1>3. \A d \in Day : /\ run'.cache[d] # Unfetched /\ ~Empty(run'.cache[d]) => ~Empty(amber[d])
                     /\ Boundary <= d /\ Empty(run'.cache[d]) => ~Given(d) /\ ~HasRow(d)
  BY FetchedDays
<1>4. run.yesterday = today - 1
  BY DEF Fetches, At
<1> QED
  BY <1>1, <1>2, <1>3, <1>4 DEF Fetches, At

LEMMA CheckRevisionsKeeps ==
  ASSUME ChainInv, CheckRevisions
  PROVE  ChainInv'
<1> DEFINE days    == RevisionDaysOf(store)
           cache   == IF days = {} THEN run.cache ELSE Fetch(MinOf(days), run.yesterday)
           changed == {d \in days : Changed(cache, d)}
           final   == {d \in days : Final(cache, d)}
           pc      == IF changed = {} THEN "checked" ELSE "revised"
<1>1. /\ run.pc = "revisions" /\ UNCHANGED <<today, amber, site, written, chain, rows, left>>
      /\ store' = DropRevisions(store, final)
      /\ run' = [run EXCEPT !.cache = cache, !.day = MinOf(changed), !.pc = pc]
  BY DEF CheckRevisions, setup, At
<1>2. /\ days \in SUBSET Day /\ changed \in SUBSET days
      /\ \A d \in Day : d \in days <=> InRevisionSet(store, d)
  BY DEF RevisionDaysOf
<1>3. /\ cache \in [Day -> Answer \cup {Unfetched}]
      /\ \A d \in Day : cache[d] \in {run.cache[d], Usage(d)}
  BY FetchIs, Typed DEF ChainInv
<1>4. \A d \in days : cache[d] = Usage(d)
  <2> SUFFICES ASSUME NEW d \in days
               PROVE  cache[d] = Usage(d)
    OBVIOUS
  <2>1. MinOf(days) \in days /\ MinOf(days) <= d
    BY <1>2, MinOfIsLeast
  <2>2. d < today /\ run.yesterday = today - 1
    BY <1>1, <1>2 DEF ChainInv, Lasting, Fetches, At
  <2>3. d \in Nat /\ today \in Nat /\ MinOf(days) \in Nat
    BY <1>2, <2>1, Numbers, Constants
  <2>4. d \in MinOf(days)..run.yesterday
    BY <2>1, <2>2, <2>3
  <2>5. days # {} /\ d \in Day
    BY <1>2
  <2> QED
    BY <2>4, <2>5, FetchIs DEF ChainInv
<1>5. changed # {} => chain.marker = NoDay \/ Agrees
  <2> SUFFICES ASSUME NEW d \in changed, chain.marker # NoDay, ~Agrees
               PROVE  FALSE
    OBVIOUS
  <2>1. Explained
    BY <1>1 DEF ChainInv, Control, BeforeGuard
  <2>2. d \in days /\ cache[d] = Usage(d) /\ ~Empty(cache[d]) /\ d \in Day
        /\ cache[d].amount # store.revisions[d].hash
    BY <1>2, <1>4 DEF Changed
  <2>3. cache[d] = amber[d]
    BY <2>2, UsageIs DEF ChainInv
  <2> QED
    BY <2>1, <2>2, <2>3 DEF Explained, RevisionWaits
<1>6. changed # {} => MinOf(changed) \in Day
  BY <1>2, MinOfDays
<1>7. MinOf(changed) \in 0..(MaxDay + 1)
  <2>1. MinOf(changed) \in Day \cup {NoDay}
    BY <1>2, MinOfDays
  <2> HIDE DEF changed
  <2> QED
    BY <2>1, Constants DEF Day
<1> HIDE DEF cache, pc, changed, final
<1>8. pc \in {"checked", "revised"} /\ (pc = "revised" <=> changed # {})
  BY DEF pc
<1>9. /\ run' \in RunRecord /\ run'.pc = pc /\ run'.day = MinOf(changed) /\ run'.cache = cache
      /\ run'.yesterday = run.yesterday
  BY <1>1, <1>3, <1>7, <1>8, Typed DEF ChainInv, RunRecord, PCs
<1>10. /\ store' \in StoreRecord
       /\ \A d \in Day : store'.revisions[d] \in {store.revisions[d], NoRevision}
  <2>1. store \in StoreRecord
    BY Typed DEF ChainInv
  <2>2. store'.revisions = [d \in Day |-> IF d \in final THEN NoRevision ELSE store.revisions[d]]
    BY <1>1, <2>1 DEF DropRevisions, StoreRecord
  <2> QED
    BY <1>1, <2>1, <2>2, DropRevisionsType
<1>11. CASE changed = {}
  <2>1. written' \in [Day -> Amount \cup {0}]
    BY <1>1 DEF ChainInv, StateOK
  <2>2. /\ run'.pc \in {"checked", "usage", "guard"}
        /\ \A d \in Day : run'.cache[d] \in {run.cache[d], Usage(d)}
    BY <1>3, <1>8, <1>9, <1>11
  <2> QED
    BY <1>1, <1>9, <1>10, <2>1, <2>2, EarlyStep
<1>12. CASE changed # {}
  <2>1. StateOK'
    BY <1>1, <1>9, <1>10 DEF ChainInv, StateOK
  <2>2. Records' /\ Progress' /\ (Agrees' <=> Agrees)
    BY <1>1, RecordsSame DEF ChainInv, Progress
  <2>3. Lasting'
    BY <1>1, <1>10, LastingSame DEF ChainInv, Given, InRevisionSet
  <2>4. Fetches'
    BY <1>1, <1>3, <1>8, <1>9, <1>12, FetchesMore DEF ChainInv, Given
  <2>5. Control'
    <3>1. run'.pc = "revised" /\ run'.day \in Day /\ (chain'.marker = NoDay \/ Agrees')
      BY <1>1, <1>5, <1>6, <1>8, <1>9, <1>12, <2>2
    <3> QED
      BY <3>1 DEF Control, BeforeGuard, AfterGuard, Walks, Rewrites, Rewriting, At
  <2> QED
    BY <2>1, <2>2, <2>3, <2>4, <2>5 DEF ChainInv
<1> QED
  BY <1>11, <1>12

\* The revision entries the usage chain's rewrite leaves.
LEMMA UsageRewrittenIs ==
  ASSUME StateOK
  PROVE  /\ UsageRewritten \in StoreRecord
         /\ \A d \in Day :
              \/ UsageRewritten.revisions[d] \in {store.revisions[d], NoRevision}
              \/ run.cache[d] # Unfetched /\ ~Empty(run.cache[d])
<1> DEFINE tail == {d \in Day : d >= run.day /\ store.status[d] = "imported"}
           new  == [d \in Day |-> IF d \in tail THEN Track(store, d, run.cache[d]).revisions[d]
                                  ELSE store.revisions[d]]
<1>0. store \in StoreRecord /\ run.cache \in [Day -> Answer \cup {Unfetched}]
  BY Typed
<1>1. \A d \in Day :
        /\ Track(store, d, run.cache[d]).revisions[d] \in Revision
        /\ \/ Track(store, d, run.cache[d]).revisions[d] = NoRevision
           \/ run.cache[d] # Unfetched /\ ~Empty(run.cache[d])
  <2> TAKE d \in Day
  <2>1. run.cache[d] \in Answer \cup {Unfetched}
    BY <1>0
  <2> DEFINE n == Track(store, d, run.cache[d])
  <2>2. n \in StoreRecord /\ (n.revisions[d] = NoRevision
          \/ (run.cache[d] # Unfetched /\ ~Empty(run.cache[d])))
    BY <1>0, <2>1, TrackIs
  <2> HIDE DEF n
  <2>3. n.revisions[d] \in Revision
    BY <2>2 DEF StoreRecord
  <2> QED
    BY <2>2, <2>3 DEF n
<1>2. \A d \in Day : store.revisions[d] \in Revision
  BY <1>0 DEF StoreRecord
<1>3. new \in [Day -> Revision]
  BY <1>1, <1>2
<1>4. UsageRewritten = [store EXCEPT !.revisions = new]
  BY <1>0 DEF UsageRewritten, StoreRecord
<1>5. \A d \in Day : \/ new[d] \in {store.revisions[d], NoRevision}
                     \/ run.cache[d] # Unfetched /\ ~Empty(run.cache[d])
  BY <1>1
<1> HIDE DEF new
<1> QED
  BY <1>0, <1>3, <1>4, <1>5 DEF StoreRecord

LEMMA RewriteAfterRevisionKeeps ==
  ASSUME ChainInv, RewriteAfterRevision
  PROVE  ChainInv'
<1>1. run.pc = "revised" /\ UNCHANGED <<today, amber, site, chain, rows, left>>
  BY DEF RewriteAfterRevision, setup, At
<1>2. run.day \in Day /\ (chain.marker = NoDay \/ Agrees) /\ ~Interrupted
  <2>1. run.day \in Day /\ (chain.marker = NoDay \/ Agrees)
    BY <1>1 DEF ChainInv, Control, BeforeGuard, At
  <2> QED
    BY <2>1, Numbers DEF Interrupted, Agrees
<1>3. /\ store' \in StoreRecord /\ written' \in [Day -> Amount \cup {0}]
      /\ \A d \in Day : \/ store'.revisions[d] \in {store.revisions[d], NoRevision}
                        \/ run.cache[d] # Unfetched /\ ~Empty(run.cache[d])
  <2>1. CASE site.mode = "full"
    <3>1. \A d \in Day : run.cache[d].amount \in Amount \cup {0}
      BY Amounts, Typed DEF ChainInv
    <3>2. written' = [d \in Day |-> IF d >= run.day /\ store.status[d] = "imported"
                                    THEN run.cache[d].amount ELSE written[d]]
          /\ store' = UsageRewritten
      BY <2>1 DEF RewriteAfterRevision
    <3>3. written' \in [Day -> Amount \cup {0}]
      BY <3>1, <3>2 DEF ChainInv, StateOK
    <3> QED
      BY <3>2, <3>3, UsageRewrittenIs DEF ChainInv
  <2>2. CASE site.mode # "full"
    BY <2>2 DEF RewriteAfterRevision, usage, ChainInv, StateOK
  <2> QED
    BY <2>1, <2>2
<1>4. Records' /\ Progress' /\ (Agrees' <=> Agrees) /\ (Interrupted' <=> Interrupted)
  BY <1>1, RecordsSame DEF ChainInv, Progress
<1>5. Lasting'
  <2>1. \A d \in Day : InRevisionSet(store', d) => InRevisionSet(store, d) \/ ~Empty(amber[d])
    BY <1>3 DEF InRevisionSet, ChainInv, Fetches
  <2> QED
    BY <1>1, <2>1, LastingSame DEF ChainInv, Given
<1>6. CASE site.mapped /\ ChainRewriteDue
  <2>1. RewriteLast \in 0..MaxDay /\ RewriteLast <= chain.marker
    <3>1. chain.lastWritten \in 0..MaxDay /\ chain.lastWritten <= chain.marker
      BY Typed, Numbers, Constants DEF ChainInv, Day
    <3>2. chain.rewrite # NoRewrite =>
            chain.rewrite.to \in 0..MaxDay /\ chain.rewrite.to <= chain.marker
      BY Typed DEF ChainInv, Progress
    <3> QED
      BY <3>1, <3>2 DEF RewriteLast
  <2>2. run' = [run EXCEPT !.pc = "rewrite", !.day = run.day, !.last = RewriteLast,
                           !.rewriting = TRUE, !.after = "checked"]
    BY <1>6 DEF RewriteAfterRevision, BeginRewrite
  <2>3. /\ run' \in RunRecord /\ run'.pc = "rewrite"
        /\ run'.day = run.day /\ run'.last = RewriteLast
        /\ run'.rewriting /\ run'.after = "checked" /\ run'.cache = run.cache
        /\ run'.yesterday = run.yesterday
    BY <2>1, <2>2, Typed DEF ChainInv, RunRecord, PCs
  <2>4. chain.marker # NoDay /\ Agrees
    BY <1>2, <1>6, Numbers DEF ChainRewriteDue
  <2>5. StateOK'
    BY <1>1, <1>3, <2>3 DEF ChainInv, StateOK
  <2>6. Fetches'
    BY <1>1, <2>3, FetchesSame DEF ChainInv, Given
  <2>7. run'.day > 0
    BY <1>2, <2>3, Constants DEF Day
  <2>8. Control'
    <3>1. run'.last <= chain'.marker /\ chain'.marker # NoDay /\ Agrees'
      BY <1>1, <1>4, <2>1, <2>3, <2>4
    <3> QED
      BY <2>3, <2>7, <3>1 DEF Control, BeforeGuard, AfterGuard, Walks, Rewrites, Rewriting, At
  <2> QED
    BY <1>4, <1>5, <2>5, <2>6, <2>8 DEF ChainInv
<1>7. CASE ~(site.mapped /\ ChainRewriteDue)
  <2>1. run' = [run EXCEPT !.pc = "checked"]
    BY <1>7 DEF RewriteAfterRevision, Goto
  <2>2. /\ run' \in RunRecord /\ run'.pc = "checked" /\ run'.cache = run.cache
        /\ run'.yesterday = run.yesterday
    BY <2>1, Typed DEF ChainInv, RunRecord, PCs
  <2>3. StateOK'
    BY <1>1, <1>3, <2>2 DEF ChainInv, StateOK
  <2>4. Fetches'
    BY <1>1, <1>2, <1>4, <2>2, FetchesSame DEF ChainInv, Given
  <2>5. Control'
    BY <1>1, <1>2, <1>4, <2>2
       DEF Control, BeforeGuard, AfterGuard, Walks, Rewrites, Rewriting, At
  <2> QED
    BY <1>4, <1>5, <2>3, <2>4, <2>5 DEF ChainInv
<1> QED
  BY <1>6, <1>7

LEMMA RevisionsCheckedKeeps ==
  ASSUME ChainInv, RevisionsChecked
  PROVE  ChainInv'
<1>1. /\ run.pc = "checked" /\ UNCHANGED <<today, amber, site, written, chain, rows, left>>
      /\ store' = SetChecked(store, today) /\ run' = [run EXCEPT !.pc = "usage"]
  BY DEF RevisionsChecked, setup, At, Goto
<1>2. /\ run' \in RunRecord /\ run'.pc = "usage" /\ run'.cache = run.cache
      /\ run'.yesterday = run.yesterday
  BY <1>1, Typed DEF ChainInv, RunRecord, PCs
<1>3. store' \in StoreRecord /\ store'.revisions = store.revisions
  BY <1>1, Typed, SetCheckedType DEF ChainInv, SetChecked, StoreRecord
<1>4. written' \in [Day -> Amount \cup {0}]
  BY <1>1 DEF ChainInv, StateOK
<1> QED
  BY <1>1, <1>2, <1>3, <1>4, EarlyStep

\* The usage chain's next day is one that has passed.
LEMMA NextUsageDayIs ==
  ASSUME StateOK, UsageBehind, run.yesterday = today - 1
  PROVE  NextUsageDay \in Day /\ NextUsageDay <= run.yesterday /\ run.yesterday \in 0..MaxDay
<1>1. today - 1 \in 0..MaxDay
  BY YesterdayType, Typed
<1>2. store.marker \in Day \cup {NoDay}
  BY Typed DEF StoreRecord
<1>3. NextUsageDay <= run.yesterday
  BY DEF UsageBehind
<1>4. NextUsageDay \in Nat /\ NextUsageDay >= 1
  <2>1. Boundary \in Nat /\ Boundary >= 1
    BY BoundaryType, Constants
  <2> QED
    BY <1>2, <2>1, Constants DEF NextUsageDay, Day
<1> QED
  BY <1>1, <1>3, <1>4, Constants DEF Day

\* Resolving a day of the usage chain enters no revision and forgets those of skipped days.
LEMMA ResolvedIs ==
  ASSUME NEW st \in StoreRecord, NEW day \in Day
  PROVE  /\ MarkImported(st, day).revisions = st.revisions
         /\ \A on \in Date : NoteEmpty(st, day, on).revisions = st.revisions
         /\ \A first, last, how : \A d \in Day :
              MarkSkipped(st, first, last, how).revisions[d] \in {st.revisions[d], NoRevision}
BY DEF MarkImported, NoteEmpty, MarkDay, MarkSkipped, StoreRecord

LEMMA ImportUsageDayKeeps ==
  ASSUME ChainInv, ImportUsageDay
  PROVE  ChainInv'
<1> DEFINE day   == NextUsageDay
           cache == CacheWith(day, run.yesterday)
           noted == NoteEmpty(store, day, today)
<1>1. /\ run.pc = "usage" /\ UsageBehind
      /\ UNCHANGED <<today, amber, site, chain, rows, left>>
  BY DEF ImportUsageDay, setup, At
<1>2. day \in Day /\ run.yesterday \in 0..MaxDay
  BY <1>1, NextUsageDayIs DEF ChainInv, Fetches, At
<1>3. /\ cache \in [Day -> Answer \cup {Unfetched}] /\ cache[day] # Unfetched
      /\ cache[day] \in Answer
      /\ \A d \in Day : cache[d] \in {run.cache[d], Usage(d)}
  BY <1>2, CacheWithIs DEF ChainInv
<1>4. store \in StoreRecord /\ today \in Date /\ written \in [Day -> Amount \cup {0}]
  BY Typed DEF ChainInv, StateOK
<1>5. noted \in StoreRecord /\ noted.revisions = store.revisions
  BY <1>2, <1>4, NoteEmptyType, ResolvedIs
<1>6. CASE ~Empty(cache[day])
  <2> DEFINE st == MarkImported(store, day)
             n  == Track(st, day, cache[day])
  <2>1. store' = n /\ written' = [written EXCEPT ![day] = cache[day].amount]
        /\ run' = [run EXCEPT !.cache = cache]
    BY <1>6 DEF ImportUsageDay
  <2>2. st \in StoreRecord /\ st.revisions = store.revisions
    BY <1>2, <1>4, MarkImportedType, ResolvedIs
  <2> HIDE DEF st
  <2>3. /\ n \in StoreRecord /\ \A d \in Day : d # day => n.revisions[d] = st.revisions[d]
        /\ n.revisions[day] = NoRevision \/ n.revisions[day].hash = cache[day].amount
    BY <1>2, <1>3, <2>2, TrackIs DEF ChainInv
  <2> HIDE DEF n
  <2>4. cache[day].amount \in Amount \cup {0}
    BY <1>3, Amounts
  <2> HIDE DEF cache, day
  <2>5. written' \in [Day -> Amount \cup {0}]
    BY <1>2, <1>4, <2>1, <2>4
  <2>6. /\ run' \in RunRecord /\ run'.pc = "usage" /\ run'.cache = cache
        /\ run'.yesterday = run.yesterday
    BY <1>1, <1>3, <2>1, Typed DEF ChainInv, RunRecord, PCs
  <2>7. \A d \in Day : \/ store'.revisions[d] \in {store.revisions[d], NoRevision}
                       \/ /\ run'.cache[d] # Unfetched /\ ~Empty(run'.cache[d])
                          /\ store'.revisions[d].hash = run'.cache[d].amount
    BY <1>3, <1>6, <2>1, <2>2, <2>3, <2>6
  <2> QED
    BY <1>1, <1>3, <2>1, <2>3, <2>5, <2>6, <2>7, EarlyStep
<1>7. CASE Empty(cache[day])
  <2>1. /\ written' = written
        /\ \/ store' = MarkSkipped(noted, day, day, "gap") /\ run' = [run EXCEPT !.cache = cache]
           \/ store' = noted /\ run' = [run EXCEPT !.cache = cache, !.pc = "guard"]
    BY <1>7 DEF ImportUsageDay
  <2> HIDE DEF noted, cache
  <2>2. /\ store' \in StoreRecord
        /\ \A d \in Day : store'.revisions[d] \in {store.revisions[d], NoRevision}
    BY <1>2, <1>5, <2>1, MarkSkippedType, ResolvedIs DEF Skipped
  <2>3. /\ run' \in RunRecord /\ run'.pc \in {"usage", "guard"} /\ run'.cache = cache
        /\ run'.yesterday = run.yesterday
    BY <1>1, <1>3, <2>1, Typed DEF ChainInv, RunRecord, PCs
  <2>4. /\ written' \in [Day -> Amount \cup {0}] /\ run'.pc \in {"checked", "usage", "guard"}
        /\ run.pc \in {"revisions", "checked", "usage"}
    BY <1>1, <1>4, <2>1, <2>3
  <2> QED
    BY <1>1, <1>3, <2>2, <2>3, <2>4, EarlyStep
<1> QED
  BY <1>6, <1>7

LEMMA SkipUnavailableUsageKeeps ==
  ASSUME ChainInv, SkipUnavailableUsage
  PROVE  ChainInv'
<1> DEFINE last == Earlier(Boundary - 1, run.yesterday)
<1>1. /\ run.pc = "usage" /\ UsageBehind
      /\ UNCHANGED <<today, amber, site, chain, rows, left>> /\ run' = run /\ written' = written
      /\ store' = MarkSkipped(store, NextUsageDay, last, "unavailable")
  BY DEF SkipUnavailableUsage, setup, At
<1>2. last \in Day \cup {NoDay}
  <2>1. run.yesterday \in 0..MaxDay /\ Boundary \in Nat /\ Boundary > 0
    BY <1>1, NextUsageDayIs, Numbers DEF ChainInv, Fetches, At
  <2> QED
    BY <2>1, Constants DEF Earlier, Day
<1>3. store \in StoreRecord /\ written \in [Day -> Amount \cup {0}] /\ run \in RunRecord
  BY Typed DEF ChainInv, StateOK
<1>4. store' \in StoreRecord
  BY <1>1, <1>2, <1>3, MarkSkippedType DEF Skipped
<1>5. \A d \in Day : store'.revisions[d] \in {store.revisions[d], NoRevision}
  BY <1>1, <1>3, NextUsageDayIs, ResolvedIs DEF ChainInv, Fetches, At
<1> QED
  BY <1>1, <1>3, <1>4, <1>5, EarlyStep

LEMMA UsageDoneKeeps ==
  ASSUME ChainInv, UsageDone
  PROVE  ChainInv'
<1>1. run.pc = "usage" /\ UNCHANGED <<today, amber, site, store, written, chain, rows, left>>
  BY DEF UsageDone, setup, usage, At
<1>2. store \in StoreRecord /\ written \in [Day -> Amount \cup {0}]
  BY Typed DEF ChainInv, StateOK
<1>3. CASE site.mapped
  <2>1. run' = [run EXCEPT !.pc = "guard"]
    BY <1>3 DEF UsageDone, Goto
  <2>2. /\ run' \in RunRecord /\ run'.pc = "guard" /\ run'.cache = run.cache
        /\ run'.yesterday = run.yesterday
    BY <2>1, Typed DEF ChainInv, RunRecord, PCs
  <2> QED
    BY <1>1, <1>2, <2>2, EarlyStep
<1>4. CASE ~site.mapped
  <2>1. EndRun /\ (chain.marker = NoDay \/ Agrees \/ Explained)
    BY <1>1, <1>4 DEF UsageDone, ChainInv, Control, BeforeGuard
  <2>2. run' \in RunRecord /\ Records' /\ Progress' /\ Lasting' /\ Fetches' /\ Control'
    BY <1>1, <1>2, <2>1, EndsAlike
  <2>3. StateOK'
    BY <1>1, <2>2 DEF ChainInv, StateOK
  <2> QED
    BY <2>2, <2>3 DEF ChainInv
<1> QED
  BY <1>3, <1>4

-----------------------------------------------------------------------------
(* The chain's guard *)

LEMMA GuardAdoptsKeeps ==
  ASSUME ChainInv, GuardAdopts
  PROVE  ChainInv'
<1>1. /\ run.pc = "guard" /\ UNCHANGED <<today, amber, site, store, written, rows, left>>
      /\ chain' = Adopt(chain, LastRow)
      /\ run' = [run EXCEPT !.pc = "resume", !.recovery = NoDay]
      /\ chain.marker = NoDay /\ LastRow # NoDay
  BY DEF GuardAdopts, Adoptable, setup, usage, At
<1>2. LastRow \in Day /\ HasRow(LastRow)
  BY <1>1, LastRowIsLast
<1>3. /\ chain' \in ChainRecord /\ chain'.marker = LastRow /\ chain'.lastWritten = LastRow
      /\ chain'.status = chain.status /\ chain'.rewrite = chain.rewrite
  BY <1>1, <1>2, AdoptFields, Typed DEF ChainInv
<1>4. \A d \in Day : chain.status[d] = "none"
  <2>1. \A d \in Day : ~(d <= chain.marker)
    BY <1>1, Constants DEF Day
  <2> QED
    BY <2>1 DEF ChainInv, Records
<1>5. chain.rewrite = NoRewrite
  <2>1. chain.rewrite # NoRewrite =>
          \E d \in Day : d <= chain.rewrite.to /\ chain.rewrite.to <= NoDay
    BY <1>1 DEF ChainInv, Progress
  <2>2. chain.rewrite.to \in 0..MaxDay
    BY Typed DEF ChainInv
  <2> QED
    BY <2>1, <2>2, Constants DEF Day
<1>6. /\ run' \in RunRecord /\ run'.pc = "resume" /\ run'.recovery = NoDay
      /\ run'.cache = run.cache /\ run'.yesterday = run.yesterday
  BY <1>1, Typed DEF ChainInv, RunRecord, PCs
<1>7. StateOK'
  BY <1>1, <1>3, <1>6 DEF ChainInv, StateOK
<1>8. LastRow' = LastRow /\ \A d \in Day : HasRow(d)' <=> HasRow(d)
  BY <1>1, SameRows
<1>9. Records' /\ Progress'
  <2>0. LastRow \in Nat /\ Day \subseteq Nat
    BY <1>2, Constants
  <2>1. chain'.lastWritten <= chain'.marker /\ HasRow(chain.lastWritten)'
    BY <1>1, <1>2, <1>3, <2>0 DEF HasRow
  <2>2. \A d \in Day : ~(chain'.lastWritten < d /\ d <= chain'.marker)
    <3> TAKE d \in Day
    <3>1. d \in Nat
      BY <2>0
    <3> QED
      BY <1>3, <2>0, <3>1
  <2> QED
    BY <1>3, <1>4, <1>5, <2>1, <2>2 DEF Records, Progress, HasRow
<1>10. Lasting' /\ Fetches'
  BY <1>1, <1>3, <1>6, LastingSame, FetchesSame DEF ChainInv, Given
<1>11. Control'
  BY <1>3, <1>6, <1>8
     DEF Control, BeforeGuard, AfterGuard, Walks, Rewrites, Rewriting, At, Agrees
<1> QED
  BY <1>7, <1>9, <1>10, <1>11 DEF ChainInv

LEMMA GuardAcceptsKeeps ==
  ASSUME ChainInv, GuardAccepts
  PROVE  ChainInv'
<1>1. /\ run.pc = "guard" /\ UNCHANGED <<today, amber, site, store, written, rows, left>>
      /\ chain' = IF Agrees THEN ChainSetPending(chain, NoDay) ELSE chain
      /\ run' = [run EXCEPT !.pc = "resume", !.recovery = IF Agrees THEN NoDay ELSE chain.pending]
      /\ ~Adoptable
  BY DEF GuardAccepts, setup, usage, At, ChainAgrees, Agrees
<1>2. /\ chain' \in ChainRecord
      /\ chain'.marker = chain.marker /\ chain'.lastWritten = chain.lastWritten
      /\ chain'.status = chain.status /\ chain'.rewrite = chain.rewrite
  BY <1>1, SetPendingFields, Typed DEF ChainInv
<1>3. /\ run' \in RunRecord /\ run'.pc = "resume" /\ run'.cache = run.cache
      /\ run'.yesterday = run.yesterday
      /\ run'.recovery = IF Agrees THEN NoDay ELSE chain.pending
  <2> DEFINE r == IF Agrees THEN NoDay ELSE chain.pending
  <2>1. r \in Day \cup {NoDay}
    BY Typed DEF ChainInv
  <2>2. run' = [run EXCEPT !.pc = "resume", !.recovery = r]
    BY <1>1
  <2> HIDE DEF r
  <2>3. /\ run' \in RunRecord /\ run'.pc = "resume" /\ run'.cache = run.cache
        /\ run'.yesterday = run.yesterday /\ run'.recovery = r
    BY <2>1, <2>2, Typed DEF ChainInv, RunRecord, PCs
  <2> QED
    BY <2>3 DEF r
<1>4. StateOK'
  BY <1>1, <1>2, <1>3 DEF ChainInv, StateOK
<1>5. Records' /\ Progress' /\ (Agrees' <=> Agrees)
  BY <1>1, <1>2, RecordsSame DEF ChainInv, Progress
<1>6. Lasting' /\ Fetches'
  BY <1>1, <1>2, <1>3, LastingSame, FetchesSame DEF ChainInv, Given
<1>7. ASSUME ~Agrees
      PROVE  /\ chain'.marker # NoDay /\ Explained'
             /\ run'.recovery = chain'.marker + 1 /\ run'.recovery # NoDay
  <2>1. chain.marker # NoDay
    BY <1>1, <1>7, Numbers DEF Adoptable, Agrees
  <2>2. Explained
    BY <1>1, <1>7, <2>1 DEF ChainInv, Control, BeforeGuard
  <2>3. Explained'
    BY <1>1, <1>7, <2>2, ExplainedSame
  <2> QED
    BY <1>1, <1>2, <1>3, <1>7, <2>1, <2>2, <2>3, Numbers DEF Explained
<1>8. Control'
  BY <1>3, <1>5, <1>7 DEF Control, BeforeGuard, AfterGuard, Walks, Rewrites, Rewriting, At
<1> QED
  BY <1>4, <1>5, <1>6, <1>8 DEF ChainInv

\* A run that stops and leaves everything as it is.
LEMMA StopKeeps ==
  ASSUME ChainInv, EndRun, UNCHANGED <<today, amber, site, store, written, chain, rows, left>>,
         chain.marker = NoDay \/ Agrees \/ Explained
  PROVE  ChainInv'
<1>1. store \in StoreRecord
  BY Typed DEF ChainInv
<1>2. run' \in RunRecord /\ Records' /\ Progress' /\ Lasting' /\ Fetches' /\ Control'
  BY <1>1, EndsAlike
<1>3. StateOK'
  BY <1>2 DEF ChainInv, StateOK
<1> QED
  BY <1>2, <1>3 DEF ChainInv

LEMMA GuardEndsKeeps ==
  ASSUME ChainInv, GuardEnds
  PROVE  ChainInv'
<1>1. /\ EndRun /\ UNCHANGED <<today, amber, site, store, written, chain, rows, left>>
      /\ run.pc = "guard"
  BY DEF GuardEnds, setup, usage, At
<1>2. chain.marker = NoDay \/ Agrees \/ Explained
  BY <1>1 DEF ChainInv, Control, BeforeGuard
<1> QED
  BY <1>1, <1>2, StopKeeps

-----------------------------------------------------------------------------
(* What comes before the chain's walk *)

\* A run after the guard goes on with the chain, its rows and its fetched days as they are.
LEMMA GoesOn ==
  ASSUME ChainInv, UNCHANGED <<today, amber, site, store, written, rows, left>>,
         chain' \in ChainRecord, chain'.marker = chain.marker,
         chain'.lastWritten = chain.lastWritten, chain'.status = chain.status,
         run.pc # "idle", run' \in RunRecord,
         run'.pc \notin {"idle", "revisions", "checked", "usage"},
         run'.cache = run.cache, run'.yesterday = run.yesterday
  PROVE  StateOK' /\ Records' /\ (Agrees' <=> Agrees) /\ Lasting' /\ Fetches'
<1>1. StateOK'
  BY DEF ChainInv, StateOK
<1>2. Records' /\ (Agrees' <=> Agrees)
  BY RecordsSame DEF ChainInv
<1>3. Lasting' /\ Fetches'
  BY LastingSame, FetchesSame DEF ChainInv, Given
<1> QED
  BY <1>1, <1>2, <1>3

LEMMA ResumeRewriteKeeps ==
  ASSUME ChainInv, ResumeRewrite
  PROVE  ChainInv'
<1>1. /\ run.pc = "resume"
      /\ UNCHANGED <<today, amber, site, store, written, chain, rows, left>>
  BY DEF ResumeRewrite, setup, usage, At
<1>2. chain' \in ChainRecord
  BY <1>1, Typed DEF ChainInv
<1>3. Progress'
  BY <1>1 DEF ChainInv, Progress
<1>4. CASE chain.rewrite # NoRewrite /\ Flows
  <2>1. run' = [run EXCEPT !.pc = "rewrite", !.day = chain.rewrite.next,
                           !.last = chain.rewrite.to, !.rewriting = TRUE, !.after = "start"]
    BY <1>4 DEF ResumeRewrite, BeginRewrite
  <2>2. /\ chain.rewrite.next \in Day /\ chain.rewrite.to \in 0..MaxDay
        /\ chain.rewrite.next <= chain.rewrite.to /\ chain.rewrite.to <= chain.marker
    BY <1>4, Typed DEF ChainInv, Progress
  <2>3. chain.rewrite.next \in 0..(MaxDay + 1) /\ chain.rewrite.next > 0 /\ chain.marker # NoDay
    BY <2>2, Numbers, Constants DEF Day
  <2>4. /\ run' \in RunRecord /\ run'.pc = "rewrite" /\ run'.day = chain.rewrite.next
        /\ run'.last = chain.rewrite.to /\ run'.rewriting /\ run'.after = "start"
        /\ run'.recovery = run.recovery /\ run'.cache = run.cache
        /\ run'.yesterday = run.yesterday
    BY <2>1, <2>2, <2>3, Typed DEF ChainInv, RunRecord, PCs
  <2>5. StateOK' /\ Records' /\ (Agrees' <=> Agrees) /\ Lasting' /\ Fetches'
    BY <1>1, <1>2, <2>4, GoesOn
  <2>6. run.recovery = NoDay /\ Agrees
    BY <1>1, <1>4 DEF ChainInv, Control, AfterGuard, Explained
  <2>7. Control'
    <3>1. /\ run'.day > 0 /\ run'.last <= chain'.marker /\ chain'.marker # NoDay
          /\ Agrees' /\ run'.recovery = NoDay
      BY <1>1, <2>2, <2>3, <2>4, <2>5, <2>6
    <3> QED
      BY <2>4, <3>1 DEF Control, BeforeGuard, AfterGuard, Walks, Rewrites, Rewriting, At
  <2> QED
    BY <1>3, <2>5, <2>7 DEF ChainInv
<1>5. CASE ~(chain.rewrite # NoRewrite /\ Flows)
  <2>1. run' = [run EXCEPT !.pc = "start"]
    BY <1>5 DEF ResumeRewrite, Goto
  <2>2. /\ run' \in RunRecord /\ run'.pc = "start" /\ run'.recovery = run.recovery
        /\ run'.cache = run.cache /\ run'.yesterday = run.yesterday
    BY <2>1, Typed DEF ChainInv, RunRecord, PCs
  <2>3. StateOK' /\ Records' /\ (Agrees' <=> Agrees) /\ Lasting' /\ Fetches'
    BY <1>1, <1>2, <2>2, GoesOn
  <2>4. Control'
    <3>1. IF run.recovery = NoDay THEN Agrees
          ELSE run.recovery = chain.marker + 1 /\ chain.marker # NoDay /\ Explained
      BY <1>1 DEF ChainInv, Control, AfterGuard
    <3>2. chain'.rewrite = NoRewrite \/ ~Flows'
      BY <1>1, <1>5 DEF Flows
    <3>3. IF run'.recovery = NoDay THEN Agrees'
          ELSE run'.recovery = chain'.marker + 1 /\ chain'.marker # NoDay /\ Explained'
      BY <1>1, <2>2, <2>3, <3>1, ExplainedSame
    <3> QED
      BY <2>2, <3>2, <3>3 DEF Control, BeforeGuard, AfterGuard, Walks, Rewrites, Rewriting, At
  <2> QED
    BY <1>3, <2>3, <2>4 DEF ChainInv
<1> QED
  BY <1>4, <1>5

\* Skipping the days after the marker, or the first days of all.
LEMMA SkipKeepsRecords ==
  ASSUME ChainInv, NEW first \in Day, NEW last \in Day, first <= last,
         NEW how \in ChainSkipped, chain.marker = NoDay \/ first = chain.marker + 1,
         chain' = ChainMarkSkipped(chain, first, last, how), rows' = rows
  PROVE  /\ Records' /\ Progress' /\ (Agrees' <=> Agrees) /\ chain' \in ChainRecord
         /\ chain'.marker = last /\ chain'.lastWritten = chain.lastWritten
         /\ chain'.rewrite = chain.rewrite /\ chain'.pending = chain.pending
         /\ \A d \in Day : Given(d)' => Given(d) \/ (how = "sensor" /\ first <= d /\ d <= last)
         /\ first = last => \A d \in Day : Given(d)' => Given(d) \/ (how = "sensor" /\ d = last)
         /\ \A d \in Day : chain'.status[d] =
                             IF d \in first..last THEN how ELSE chain.status[d]
<1>1. chain.marker < first /\ chain.marker <= last
  BY Numbers, Constants DEF Day
<1>2. \A d \in Day : d \in first..last => chain.status[d] = "none" /\ d > chain.marker
  BY <1>1, Numbers, Constants DEF ChainInv, Records
<1>3. /\ chain' \in ChainRecord /\ chain'.marker = Later(chain.marker, last)
      /\ chain'.lastWritten = chain.lastWritten
      /\ chain'.rewrite = chain.rewrite /\ chain'.pending = chain.pending
      /\ \A d \in Day : chain'.status[d] = IF d \in first..last /\ chain.status[d] # "imported"
                                           THEN how ELSE chain.status[d]
  <2> DEFINE n == ChainMarkSkipped(chain, first, last, how)
  <2>1. chain \in ChainRecord /\ last \in Day \cup {NoDay}
    BY Typed DEF ChainInv
  <2>2. /\ n \in ChainRecord
        /\ n.marker = Later(chain.marker, last) /\ n.lastWritten = chain.lastWritten
        /\ n.pending = chain.pending /\ n.rewrite = chain.rewrite
        /\ \A d \in Day : n.status[d] = IF d \in first..last /\ chain.status[d] # "imported"
                                         THEN how ELSE chain.status[d]
    BY <2>1, MarkSkippedFields
  <2>3. chain' = n
    OBVIOUS
  <2> HIDE DEF n
  <2> QED
    BY <2>2, <2>3
<1>4. chain'.marker = last
  BY <1>1, <1>3, Numbers, Constants DEF Later
<1>5. \A d \in Day : chain'.status[d] = IF d \in first..last THEN how ELSE chain.status[d]
  BY <1>2, <1>3
<1>6. LastRow' = LastRow /\ \A d \in Day : HasRow(d)' <=> HasRow(d)
  BY SameRows
<1>7. how \notin {"none", "imported"}
  BY DEF ChainSkipped
<1>8. Records'
  <2>1. chain'.lastWritten <= chain'.marker
    <3>1. last \in Nat /\ chain.lastWritten <= chain.marker
      BY Numbers, Constants
    <3> QED
      BY <1>1, <1>3, <1>4, <3>1, Numbers
  <2>2. chain'.lastWritten # NoDay => HasRow(chain.lastWritten)'
    BY <1>3 DEF ChainInv, Records, HasRow
  <2>3. \A d \in Day : chain'.status[d] # "none" => d <= chain'.marker
    <3> TAKE d \in Day
    <3>1. d \in Nat /\ last \in Nat
      BY Constants
    <3>2. d \in first..last => d <= last
      BY <3>1
    <3>3. chain.status[d] # "none" => d <= last
      BY <3>1, <1>1, Numbers DEF ChainInv, Records
    <3> QED
      BY <1>4, <1>5, <3>2, <3>3
  <2>4. \A d \in Day : chain'.status[d] = "imported" => d <= chain'.lastWritten /\ HasRow(d)'
    BY <1>3, <1>5, <1>6, <1>7 DEF ChainInv, Records
  <2>5. \A d, e \in Day :
          d <= e /\ e <= chain'.marker /\ chain'.status[d] # "none" => chain'.status[e] # "none"
    <3> SUFFICES ASSUME NEW d \in Day, NEW e \in Day, d <= e, e <= last, chain'.status[d] # "none"
                 PROVE  chain'.status[e] # "none"
      BY <1>4
    <3>1. CASE first <= e
      <4>1. e \in first..last
        BY <3>1, Constants
      <4> QED
        BY <4>1, <1>5, <1>7
    <3>2. CASE ~(first <= e)
      <4>1. d \notin first..last /\ e \notin first..last /\ chain.status[d] # "none"
        <5>1. d \notin first..last /\ e \notin first..last
          BY <3>2, Constants
        <5> QED
          BY <5>1, <1>5
      <4>2. e <= chain.marker
        <5>1. d <= chain.marker /\ chain.marker # NoDay
          BY <4>1, Numbers, Constants DEF ChainInv, Records, Day
        <5>2. first = chain.marker + 1
          BY <5>1
        <5> QED
          BY <3>2, <5>2, Numbers, Constants
      <4>3. chain.status[e] # "none"
        BY <4>1, <4>2 DEF ChainInv, Records
      <4> QED
        BY <4>1, <4>3, <1>5
    <3> QED
      BY <3>1, <3>2
  <2>6. \A d \in Day : chain'.lastWritten # NoDay /\ chain'.lastWritten < d /\ d <= chain'.marker
          => chain'.status[d] # "none"
    <3> SUFFICES ASSUME NEW d \in Day, chain.lastWritten # NoDay, chain.lastWritten < d, d <= last
                 PROVE  chain'.status[d] # "none"
      BY <1>3, <1>4
    <3>1. CASE first <= d
      <4>1. d \in first..last
        BY <3>1, Constants
      <4> QED
        BY <4>1, <1>5, <1>7
    <3>2. CASE ~(first <= d)
      <4>1. d \notin first..last
        BY <3>2, Constants
      <4>2. d <= chain.marker
        BY <3>2, Numbers, Constants
      <4> QED
        BY <4>1, <4>2, <1>5 DEF ChainInv, Records
    <3> QED
      BY <3>1, <3>2
  <2> QED
    BY <1>3, <2>1, <2>2, <2>3, <2>4, <2>5, <2>6 DEF Records, HasRow
<1>9. Progress'
  <2>1. ASSUME chain.rewrite # NoRewrite
        PROVE  chain.rewrite.to <= last
    <3>1. chain.rewrite.to <= chain.marker /\ chain.rewrite.to \in 0..MaxDay
      BY <2>1, Typed DEF ChainInv, Progress
    <3> QED
      BY <1>1, <3>1, Numbers, Constants
  <2> QED
    BY <1>3, <1>4, <2>1 DEF ChainInv, Progress
<1>10. \A d \in Day : Given(d)' => Given(d) \/ (how = "sensor" /\ first <= d /\ d <= last)
  <2>1. \A d \in Day : d \in first..last => first <= d /\ d <= last
    BY Constants
  <2> QED
    BY <1>5, <1>7, <2>1 DEF Given
<1>11. first = last => \A d \in Day : Given(d)' => Given(d) \/ (how = "sensor" /\ d = last)
  <2>1. \A d \in Day : last <= d /\ d <= last => d = last
    BY Constants
  <2> QED
    BY <1>10, <2>1
<1> QED
  BY <1>3, <1>4, <1>5, <1>6, <1>8, <1>9, <1>10, <1>11 DEF Agrees

\* Where a run stands between the guard and the chain's walk.
LEMMA AfterTheGuard ==
  ASSUME ChainInv, run.pc \in {"start", "ready"}
  PROVE  /\ IF run.recovery = NoDay THEN Agrees
            ELSE run.recovery = chain.marker + 1 /\ chain.marker # NoDay /\ Explained
         /\ chain.rewrite = NoRewrite \/ ~Flows
         /\ chain.marker = NoDay \/ Agrees \/ Explained
BY DEF ChainInv, Control, AfterGuard

LEMMA ChainFirstDayKeeps ==
  ASSUME ChainInv, ChainFirstDay
  PROVE  ChainInv'
<1> DEFINE last == Earlier(Boundary - 1, run.yesterday)
<1>1. run.pc = "start" /\ UNCHANGED <<today, amber, site, store, written, rows, left>>
  BY DEF ChainFirstDay, setup, usage, At
<1>2. /\ IF run.recovery = NoDay THEN Agrees
         ELSE run.recovery = chain.marker + 1 /\ chain.marker # NoDay /\ Explained
      /\ chain.rewrite = NoRewrite \/ ~Flows
      /\ chain.marker = NoDay \/ Agrees \/ Explained
  BY <1>1, AfterTheGuard
<1>3. CASE FirstDay = NoDay
  BY <1>1, <1>2, <1>3, StopKeeps DEF ChainFirstDay
<1>4. CASE FirstDay # NoDay /\ FirstDay < Boundary
  <2>1. /\ chain' = ChainMarkSkipped(chain, FirstDay, last, "unavailable")
        /\ run' = [run EXCEPT !.pc = "ready", !.day = last + 1]
    BY <1>4 DEF ChainFirstDay
  <2>2. run.recovery = NoDay
    BY <1>2, <1>4, Numbers DEF FirstDay, Explained
  <2>3. chain.marker # NoDay /\ FirstDay = chain.marker + 1
    <3>1. ChainStart = NoDay \/ ChainStart >= Boundary
      <4>1. Boundary \in Nat /\ (site.since = Absent \/ site.since \in Nat)
        BY Numbers, SecondaryChainAssumption, Constants DEF ChainInv, StateOK
      <4> QED
        BY <4>1 DEF ChainStart, Later
    <3>2. FirstDay < Boundary /\ FirstDay # NoDay
      BY <1>4
    <3>3. chain.marker # NoDay
      <4>1. ASSUME chain.marker = NoDay
            PROVE  FirstDay = ChainStart
        BY <2>2, <4>1 DEF FirstDay
      <4>2. chain.marker = NoDay =>
              (ChainStart \in Nat /\ ChainStart < Boundary /\ ChainStart # NoDay)
        <5>1. ChainStart \in Nat
          <6>1. Boundary \in Nat /\ (site.since = Absent \/ site.since \in Nat)
            BY Numbers, SecondaryChainAssumption, Constants DEF ChainInv, StateOK
          <6> QED
            BY <6>1, Numbers DEF ChainStart, Later
        <5> QED
          BY <3>2, <4>1, <5>1
      <4> QED
        BY <3>1, <4>2, Numbers
    <3> QED
      BY <2>2, <3>3 DEF FirstDay
  <2>4. /\ last = Boundary - 1 /\ FirstDay \in Day /\ last \in Day /\ FirstDay <= last
    <3>1. Boundary <= today - 1 /\ today - 1 <= MaxDay /\ run.yesterday = today - 1
      <4>1. Boundary = 1 \/ Boundary <= today - 1
        BY BoundaryType DEF ChainInv
      <4>2. Boundary # 1
        BY <1>4, <2>3, Numbers
      <4>3. today - 1 \in 0..MaxDay
        BY YesterdayType DEF ChainInv
      <4> QED
        BY <1>1, <4>1, <4>2, <4>3 DEF ChainInv, Fetches, At
    <3>2. last = Boundary - 1
      BY <3>1, Numbers DEF Earlier
    <3> HIDE DEF last
    <3> QED
      BY <1>4, <2>3, <3>1, <3>2, Numbers, Constants DEF Day
  <2> HIDE DEF last
  <2>5. /\ Records' /\ Progress' /\ (Agrees' <=> Agrees) /\ chain' \in ChainRecord
        /\ chain'.marker = last /\ chain'.rewrite = chain.rewrite
        /\ \A d \in Day : Given(d)' => Given(d)
    BY <1>1, <2>1, <2>3, <2>4, SkipKeepsRecords DEF ChainSkipped
  <2>6. last + 1 \in 0..(MaxDay + 1) /\ last + 1 = Boundary
    BY <2>4, Numbers, Constants DEF Day
  <2>7. /\ run' \in RunRecord /\ run'.pc = "ready" /\ run'.day = last + 1
        /\ run'.recovery = run.recovery
        /\ run'.cache = run.cache /\ run'.yesterday = run.yesterday
    BY <2>1, <2>6, Typed DEF ChainInv, RunRecord, PCs
  <2>8. StateOK'
    BY <1>1, <2>5, <2>7 DEF ChainInv, StateOK
  <2>9. Lasting' /\ Fetches'
    BY <1>1, <2>5, <2>7, LastingSame, FetchesSame DEF ChainInv
  <2>10. Control'
    <3>1. Boundary' = Boundary /\ (Flows' <=> Flows)
      BY <1>1 DEF Boundary, Flows
    <3>2. /\ run'.recovery = NoDay /\ Agrees' /\ (chain'.rewrite = NoRewrite \/ ~Flows')
          /\ run'.day >= Boundary' /\ run'.day = chain'.marker + 1
      BY <1>2, <2>2, <2>5, <2>6, <2>7, <3>1, Numbers
    <3> QED
      BY <2>7, <3>2
         DEF Control, BeforeGuard, AfterGuard, NextDay, Walks, Rewrites, Rewriting, At
  <2> QED
    BY <2>5, <2>8, <2>9, <2>10 DEF ChainInv
<1>5. CASE FirstDay # NoDay /\ ~(FirstDay < Boundary)
  <2>1. run' = [run EXCEPT !.pc = "ready", !.day = FirstDay] /\ chain' = chain
    BY <1>5 DEF ChainFirstDay
  <2>2. /\ FirstDay \in 0..(MaxDay + 1) /\ FirstDay >= Boundary
        /\ chain.marker = NoDay \/ FirstDay = chain.marker + 1
    <3>1. chain.marker \in Day \cup {NoDay} /\ run.recovery \in Day \cup {NoDay}
      BY Typed DEF ChainInv, RunRecord
    <3>2. ChainStart \in 0..(MaxDay + 1) \/ ChainStart = NoDay
      <4>1. Boundary \in Date /\ site.since \in Day \cup {Absent}
        BY BoundaryType, SecondaryChainAssumption DEF ChainInv, StateOK
      <4> QED
        BY <4>1, Constants DEF ChainStart, Later, Date, Day
    <3>3. FirstDay \in 0..(MaxDay + 1)
      BY <1>5, <3>1, <3>2, Constants DEF FirstDay, Day
    <3>4. FirstDay >= Boundary
      BY <1>5, <3>3, Numbers
    <3> QED
      BY <1>2, <3>3, <3>4 DEF FirstDay
  <2>3. /\ run' \in RunRecord /\ run'.pc = "ready" /\ run'.day = FirstDay
        /\ run'.recovery = run.recovery
        /\ run'.cache = run.cache /\ run'.yesterday = run.yesterday
    BY <2>1, <2>2, Typed DEF ChainInv, RunRecord, PCs
  <2>4. Progress' /\ chain' \in ChainRecord
    BY <2>1, Typed DEF ChainInv, Progress
  <2>5. StateOK' /\ Records' /\ (Agrees' <=> Agrees) /\ Lasting' /\ Fetches'
    BY <1>1, <2>1, <2>3, <2>4, GoesOn
  <2>6. Control'
    <3>1. Boundary' = Boundary /\ (Flows' <=> Flows)
      BY <1>1 DEF Boundary, Flows
    <3>2. IF run'.recovery = NoDay THEN Agrees'
          ELSE run'.recovery = chain'.marker + 1 /\ chain'.marker # NoDay /\ Explained'
      BY <1>1, <1>2, <2>1, <2>3, <2>5, ExplainedSame
    <3>3. /\ chain'.rewrite = NoRewrite \/ ~Flows'
          /\ run'.day >= Boundary' /\ (chain'.marker = NoDay \/ run'.day = chain'.marker + 1)
      BY <1>2, <2>1, <2>2, <2>3, <3>1
    <3> QED
      BY <2>3, <3>2, <3>3
         DEF Control, BeforeGuard, AfterGuard, NextDay, Walks, Rewrites, Rewriting, At
  <2> QED
    BY <2>1, <2>4, <2>5, <2>6 DEF ChainInv
<1> QED
  BY <1>3, <1>4, <1>5

LEMMA ChainReadyKeeps ==
  ASSUME ChainInv, ChainReady
  PROVE  ChainInv'
<1> DEFINE skips == SensorSkips(Boundary)
<1>1. run.pc = "ready" /\ UNCHANGED <<today, amber, site, store, written, rows, left>>
  BY DEF ChainReady, setup, usage, At
<1>2. /\ IF run.recovery = NoDay THEN Agrees
         ELSE run.recovery = chain.marker + 1 /\ chain.marker # NoDay /\ Explained
      /\ chain.rewrite = NoRewrite \/ ~Flows
      /\ chain.marker = NoDay \/ Agrees \/ Explained
      /\ run.day >= Boundary /\ NextDay
  BY <1>1, AfterTheGuard DEF ChainInv, Control, AfterGuard, At
<1>3. Agrees \/ LastRow = run.day
  BY <1>2 DEF Explained, NextDay
<1>4. Boundary' = Boundary /\ (Flows' <=> Flows)
  BY <1>1 DEF Boundary, Flows
<1>5. LastRow' = LastRow
  BY <1>1, SameRows
<1>6. CASE ~Flows
  BY <1>1, <1>2, <1>6, StopKeeps DEF ChainReady
<1>7. CASE Flows /\ (~RetryDue \/ skips = {})
  <2>1. run' = [run EXCEPT !.pc = "walk"] /\ chain' \in {chain, StartRetry(chain, chain.rewrite)}
    BY <1>7 DEF ChainReady, Goto
  <2>2. /\ chain' \in ChainRecord /\ chain'.marker = chain.marker
        /\ chain'.lastWritten = chain.lastWritten /\ chain'.status = chain.status
        /\ chain'.rewrite = chain.rewrite
    BY <2>1, StartRetryFields, Typed DEF ChainInv
  <2>3. /\ run' \in RunRecord /\ run'.pc = "walk" /\ run'.day = run.day
        /\ run'.cache = run.cache /\ run'.yesterday = run.yesterday
    BY <2>1, Typed DEF ChainInv, RunRecord, PCs
  <2>4. StateOK' /\ Records' /\ (Agrees' <=> Agrees) /\ Lasting' /\ Fetches'
    BY <1>1, <2>2, <2>3, GoesOn
  <2>5. Progress'
    BY <1>1, <2>2 DEF ChainInv, Progress
  <2>6. Control'
    <3>1. /\ chain'.rewrite = NoRewrite /\ run'.day >= Boundary'
          /\ chain'.marker = NoDay \/ run'.day = chain'.marker + 1
          /\ Agrees' \/ LastRow' = run'.day
      BY <1>2, <1>3, <1>4, <1>5, <1>7, <2>2, <2>3, <2>4 DEF NextDay
    <3> QED
      BY <2>3, <3>1
         DEF Control, BeforeGuard, AfterGuard, NextDay, Walks, Rewrites, Rewriting, At
  <2> QED
    BY <2>4, <2>5, <2>6 DEF ChainInv
<1>8. CASE Flows /\ RetryDue /\ skips # {}
  <2> DEFINE first    == MinOf(skips)
             progress == [next |-> first, to |-> chain.marker, retry |-> TRUE]
  <2>1. /\ chain' = StartRetry(chain, progress)
        /\ run' = [run EXCEPT !.pc = "rewrite", !.last = chain.marker, !.rewriting = TRUE,
                              !.after = "walk", !.start = run.day, !.day = first]
    BY <1>8 DEF ChainReady
  <2>2. first \in Day /\ first >= Boundary /\ chain.status[first] = "sensor"
    <3>1. skips \in SUBSET Day
      BY DEF SensorSkips
    <3>2. first \in skips
      BY <1>8, <3>1, MinOfDays
    <3> QED
      BY <3>2 DEF SensorSkips
  <2> HIDE DEF first
  <2>3. first <= chain.marker /\ chain.marker # NoDay /\ first > 0
    <3>1. first <= chain.marker
      BY <2>2 DEF ChainInv, Records
    <3> QED
      BY <2>2, <3>1, Numbers, Constants DEF Day
  <2>4. chain.marker \in 0..MaxDay /\ first \in 0..MaxDay /\ first \in 0..(MaxDay + 1)
    BY <2>2, Typed, Constants DEF ChainInv, Day
  <2>5. /\ chain' \in ChainRecord /\ chain'.marker = chain.marker
        /\ chain'.lastWritten = chain.lastWritten /\ chain'.status = chain.status
        /\ chain'.rewrite = progress
    <3>1. progress \in [next : 0..MaxDay, to : 0..MaxDay, retry : BOOLEAN]
      BY <2>4
    <3> HIDE DEF progress
    <3> QED
      BY <2>1, <3>1, StartRetryFields, Typed DEF ChainInv
  <2>6. /\ run' \in RunRecord /\ run'.pc = "rewrite" /\ run'.day = first
        /\ run'.last = chain.marker /\ run'.rewriting /\ run'.after = "walk"
        /\ run'.start = run.day /\ run'.cache = run.cache /\ run'.yesterday = run.yesterday
    <3> HIDE DEF skips, progress
    <3>1. run.day \in 0..(MaxDay + 1) /\ run \in RunRecord
      BY Typed DEF ChainInv, RunRecord
    <3> DEFINE m == chain.marker
    <3>2. /\ run' = [run EXCEPT !.pc = "rewrite", !.last = m, !.rewriting = TRUE,
                                !.after = "walk", !.start = run.day, !.day = first]
          /\ m \in 0..MaxDay
      BY <2>1, <2>4
    <3> HIDE DEF m
    <3>3. run' \in RunRecord
      BY <2>4, <3>1, <3>2 DEF RunRecord, PCs
    <3>4. /\ run'.pc = "rewrite" /\ run'.day = first /\ run'.last = m /\ run'.rewriting
          /\ run'.after = "walk" /\ run'.start = run.day /\ run'.cache = run.cache
          /\ run'.yesterday = run.yesterday
      BY <3>1, <3>2 DEF RunRecord
    <3> QED
      BY <3>3, <3>4 DEF m
  <2>7. StateOK' /\ Records' /\ (Agrees' <=> Agrees) /\ Lasting' /\ Fetches'
    BY <1>1, <2>5, <2>6, GoesOn
  <2>8. Progress'
    <3>1. /\ chain'.rewrite.next = first /\ chain'.rewrite.to = chain.marker
          /\ chain'.marker = chain.marker
      BY <2>5
    <3>2. chain'.rewrite.next \in Day /\ chain'.rewrite.next <= chain'.rewrite.to
          /\ chain'.rewrite.to <= chain'.marker
      BY <2>2, <2>3, <3>1, Numbers
    <3> QED
      BY <3>2 DEF Progress
  <2>9. Control'
    <3>1. /\ run'.rewriting /\ run'.day > 0 /\ run'.last <= chain'.marker
          /\ chain'.marker # NoDay /\ run'.after = "walk"
          /\ Agrees' \/ LastRow' = run'.start
          /\ run'.start = chain'.marker + 1 /\ run'.start >= Boundary'
          /\ Flows' /\ run'.day >= Boundary'
      BY <1>2, <1>3, <1>4, <1>5, <1>8, <2>2, <2>3, <2>5, <2>6, <2>7, Numbers DEF NextDay
    <3> QED
      BY <2>6, <3>1 DEF Control, BeforeGuard, AfterGuard, Walks, Rewrites, Rewriting, At
  <2> QED
    BY <2>7, <2>8, <2>9 DEF ChainInv
<1> QED
  BY <1>6, <1>7, <1>8

-----------------------------------------------------------------------------
(* The chain's walk *)

LEMMA AtTheWalk ==
  ASSUME ChainInv, run.pc = "walk"
  PROVE  /\ chain.rewrite = NoRewrite /\ run.day >= Boundary /\ NextDay
         /\ Agrees \/ (LastRow = run.day /\ run.day \in Day /\ HasRow(run.day))
         /\ run.day \in Nat /\ run.day > 0 /\ run.day > chain.lastWritten
         /\ run.yesterday = today - 1 /\ run.yesterday \in 0..MaxDay
         /\ run.day <= run.yesterday => run.day \in Day
<1>1. chain.rewrite = NoRewrite /\ run.day >= Boundary /\ NextDay /\ (Agrees \/ LastRow = run.day)
  BY DEF ChainInv, Control, Walks, At
<1>2. run.day \in Nat
  BY Typed, Constants DEF ChainInv, RunRecord
<1>3. run.day > 0 /\ run.day > chain.lastWritten
  BY <1>1, <1>2, Numbers DEF NextDay
<1>4. run.yesterday = today - 1 /\ run.yesterday \in 0..MaxDay
  BY YesterdayType DEF ChainInv, Fetches, At
<1>5. run.day <= run.yesterday => run.day \in Day
  BY <1>2, <1>3, <1>4, Constants DEF Day
<1>6. LastRow = run.day => run.day \in Day /\ HasRow(run.day)
  BY <1>3, Numbers
<1> QED
  BY <1>1, <1>2, <1>3, <1>4, <1>5, <1>6

\* A day the walk skips has no row, and is the one after the marker.
LEMMA WalkSkips ==
  ASSUME ChainInv, run.pc = "walk", run.day <= run.yesterday, NEW how \in ChainSkipped,
         ~HasRow(run.day), how = "sensor" => ~Empty(CacheWith(run.day, run.yesterday)[run.day]),
         chain' = ChainMarkSkipped(chain, run.day, run.day, how),
         run' = [run EXCEPT !.cache = CacheWith(run.day, run.yesterday), !.day = run.day + 1],
         store' \in StoreRecord, store'.revisions = store.revisions,
         UNCHANGED <<today, amber, site, written, rows, left>>
  PROVE  ChainInv'
<1> DEFINE day   == run.day
           cache == CacheWith(day, run.yesterday)
<1>1. /\ chain.rewrite = NoRewrite /\ day >= Boundary /\ NextDay
      /\ Agrees /\ day \in Day /\ run.yesterday \in 0..MaxDay
  BY AtTheWalk
<1>2. /\ cache \in [Day -> Answer \cup {Unfetched}] /\ cache[day] # Unfetched
      /\ \A d \in Day : cache[d] \in {run.cache[d], Usage(d)}
  BY <1>1, CacheWithIs DEF ChainInv
<1> HIDE DEF cache
<1>3. /\ Records' /\ Progress' /\ (Agrees' <=> Agrees) /\ chain' \in ChainRecord
      /\ chain'.marker = day /\ chain'.rewrite = chain.rewrite
      /\ \A d \in Day : Given(d)' => Given(d) \/ (how = "sensor" /\ d = day)
  <2>1. day <= day /\ (chain.marker = NoDay \/ day = chain.marker + 1)
        /\ chain' = ChainMarkSkipped(chain, day, day, how) /\ rows' = rows
    BY <1>1, Constants DEF NextDay
  <2> HIDE DEF day
  <2> QED
    BY <1>1, <2>1, SkipKeepsRecords
<1>4. \A d \in Day : Given(d)' => Given(d) \/ (d = day /\ ~Empty(cache[d]))
  <2>1. how = "sensor" => ~Empty(cache[day])
    BY DEF cache
  <2> QED
    BY <1>3, <2>1
<1>5. /\ run' \in RunRecord /\ run'.pc = "walk" /\ run'.day = day + 1
      /\ run'.cache = cache /\ run'.yesterday = run.yesterday
  <2>1. run' = [run EXCEPT !.cache = cache, !.day = day + 1]
    BY DEF cache
  <2>2. day + 1 \in 0..(MaxDay + 1)
    BY <1>1, Constants DEF Day
  <2> QED
    BY <1>2, <2>1, <2>2, Typed DEF ChainInv, RunRecord
<1>6. StateOK'
  BY <1>3, <1>5 DEF ChainInv, StateOK
<1>7. \A d \in Day : cache[d] # Unfetched /\ ~Empty(cache[d]) => ~Empty(amber[d])
  BY <1>2, FetchedDays DEF ChainInv
<1>8. Lasting'
  BY <1>2, <1>4, <1>7, LastingSame DEF ChainInv, InRevisionSet
<1>9. Fetches'
  BY <1>2, <1>4, <1>5, FetchesMore DEF ChainInv
<1>10. Control'
  <2>1. /\ chain'.rewrite = NoRewrite /\ run'.day >= Boundary' /\ run'.day = chain'.marker + 1
        /\ Agrees'
    <3>1. Boundary' = Boundary
      BY DEF Boundary
    <3> QED
      BY <1>1, <1>3, <1>5, <3>1, Numbers, Constants
  <2> QED
    BY <1>5, <2>1
       DEF Control, BeforeGuard, AfterGuard, NextDay, Walks, Rewrites, Rewriting, At
<1> QED
  BY <1>3, <1>6, <1>8, <1>9, <1>10 DEF ChainInv

LEMMA WalkEmptyKeeps ==
  ASSUME ChainInv, WalkEmpty
  PROVE  ChainInv'
<1> DEFINE day   == run.day
           cache == CacheWith(day, run.yesterday)
           noted == NoteEmpty(store, day, today)
<1>1. /\ run.pc = "walk" /\ day <= run.yesterday
      /\ UNCHANGED <<today, amber, site, written, rows, left>>
      /\ Empty(cache[day]) /\ ChainEmptyDay(cache)
  BY DEF WalkEmpty, setup, At
<1>2. /\ day >= Boundary /\ day \in Day /\ run.yesterday \in 0..MaxDay
      /\ Agrees \/ HasRow(day)
  BY <1>1, AtTheWalk
<1>3. cache[day] \in {run.cache[day], Usage(day)}
  BY <1>2, CacheWithIs DEF ChainInv
<1>4. ~HasRow(day)
  BY <1>1, <1>2, <1>3, FetchedDays DEF ChainInv
<1>5. noted \in StoreRecord /\ noted.revisions = store.revisions
  BY <1>2, NoteEmptyType, ResolvedIs, Typed DEF ChainInv
<1>6. store \in StoreRecord
  BY Typed DEF ChainInv
<1>7. \/ /\ store' \in {store, noted}
         /\ \E how \in {"gap", "unavailable"} : chain' = ChainMarkSkipped(chain, day, day, how)
         /\ run' = [run EXCEPT !.cache = cache, !.day = day + 1]
      \/ store' = noted /\ EndRun /\ chain' = chain
  BY <1>1 DEF ChainEmptyDay
<1>8. CASE /\ store' \in {store, noted}
           /\ \E how \in {"gap", "unavailable"} : chain' = ChainMarkSkipped(chain, day, day, how)
           /\ run' = [run EXCEPT !.cache = cache, !.day = day + 1]
  <2>1. PICK how \in {"gap", "unavailable"} : chain' = ChainMarkSkipped(chain, day, day, how)
    BY <1>8
  <2>2. how \in ChainSkipped /\ how # "sensor"
    BY DEF ChainSkipped
  <2> HIDE DEF noted
  <2>3. store' \in StoreRecord /\ store'.revisions = store.revisions
    BY <1>5, <1>6, <1>8
  <2> QED
    BY <1>1, <1>4, <1>8, <2>1, <2>2, <2>3, WalkSkips
<1>9. CASE store' = noted /\ EndRun /\ chain' = chain
  <2> HIDE DEF noted
  <2>1. run' \in RunRecord /\ Records' /\ Progress' /\ Lasting' /\ Fetches' /\ Control'
    BY <1>1, <1>2, <1>4, <1>5, <1>9, EndsAlike
  <2>2. StateOK'
    BY <1>1, <1>5, <1>9, <2>1 DEF ChainInv, StateOK
  <2> QED
    BY <1>9, <2>1, <2>2 DEF ChainInv
<1> QED
  BY <1>7, <1>8, <1>9

LEMMA WalkDayKeeps ==
  ASSUME ChainInv, WalkDay
  PROVE  ChainInv'
<1> DEFINE day   == run.day
           cache == CacheWith(day, run.yesterday)
<1>1. /\ run.pc = "walk" /\ day <= run.yesterday
      /\ UNCHANGED <<today, amber, site, store, written, rows, left>>
      /\ ~Empty(cache[day])
  BY DEF WalkDay, setup, usage, At
<1>2. /\ chain.rewrite = NoRewrite /\ day >= Boundary /\ NextDay /\ day > chain.lastWritten
      /\ day \in Day /\ run.yesterday \in 0..MaxDay /\ (Agrees \/ LastRow = day)
  BY <1>1, AtTheWalk
<1>3. /\ cache \in [Day -> Answer \cup {Unfetched}] /\ cache[day] # Unfetched
      /\ \A d \in Day : cache[d] \in {run.cache[d], Usage(d)}
  BY <1>2, CacheWithIs DEF ChainInv
<1>4. store \in StoreRecord
  BY Typed DEF ChainInv
<1>5. CASE ~SensorData(day)
  <2>1. ~HasRow(day)
    BY <1>2, <1>5 DEF ChainInv, Lasting
  <2>2. /\ chain' = ChainMarkSkipped(chain, day, day, "sensor")
        /\ run' = [run EXCEPT !.cache = cache, !.day = day + 1]
    BY <1>5 DEF WalkDay
  <2>3. "sensor" \in ChainSkipped
    BY DEF ChainSkipped
  <2> QED
    BY <1>1, <1>4, <2>1, <2>2, <2>3, WalkSkips
<1>6. CASE SensorData(day)
  <2>1. /\ chain' = ChainSetPending(chain, day)
        /\ run' = [run EXCEPT !.cache = cache, !.pc = "rows", !.rewriting = FALSE]
    BY <1>2, <1>6 DEF WalkDay, Appending
  <2> HIDE DEF cache
  <2>2. /\ chain' \in ChainRecord /\ chain'.pending = day /\ chain'.marker = chain.marker
        /\ chain'.lastWritten = chain.lastWritten /\ chain'.status = chain.status
        /\ chain'.rewrite = chain.rewrite
    BY <1>2, <2>1, SetPendingFields, Typed DEF ChainInv
  <2>3. /\ run' \in RunRecord /\ run'.pc = "rows" /\ ~run'.rewriting /\ run'.day = day
        /\ run'.cache = cache /\ run'.yesterday = run.yesterday
    BY <1>3, <2>1, Typed DEF ChainInv, RunRecord, PCs
  <2>4. StateOK'
    BY <1>1, <2>2, <2>3 DEF ChainInv, StateOK
  <2>5. Records' /\ Progress' /\ (Agrees' <=> Agrees)
    BY <1>1, <2>2, RecordsSame DEF ChainInv, Progress
  <2>6. Lasting'
    BY <1>1, <2>2, LastingSame DEF ChainInv, Given
  <2>7. Fetches'
    BY <1>1, <1>3, <2>2, <2>3, FetchesMore DEF ChainInv, Given
  <2>8. Control'
    <3>1. Boundary' = Boundary /\ LastRow' = LastRow
      BY <1>1, SameRows DEF Boundary
    <3>2. Readable'
      <4>1. run'.day \in Day /\ SensorData(run'.day)
        BY <1>2, <1>6, <2>3
      <4>2. site'.since = site.since /\ site'.upgraded = site.upgraded
        BY <1>1
      <4>3. run'.cache[run'.day] # Unfetched /\ ~Empty(run'.cache[run'.day])
        BY <1>1, <1>3, <2>3 DEF cache
      <4> QED
        BY <4>1, <4>2, <4>3 DEF Readable, SensorData
    <3>3. /\ chain'.rewrite = NoRewrite /\ run'.day >= Boundary'
          /\ chain'.marker = NoDay \/ run'.day = chain'.marker + 1
          /\ chain'.pending = run'.day /\ (Agrees' \/ LastRow' = run'.day)
      BY <1>2, <2>2, <2>3, <2>5, <3>1 DEF NextDay
    <3> QED
      BY <2>3, <3>2, <3>3
         DEF Control, BeforeGuard, AfterGuard, NextDay, Walks, Rewrites, Rewriting, At
  <2> QED
    BY <2>2, <2>4, <2>5, <2>6, <2>7, <2>8 DEF ChainInv
<1> QED
  BY <1>5, <1>6

LEMMA WalkDoneKeeps ==
  ASSUME ChainInv, WalkDone
  PROVE  ChainInv'
<1>1. /\ run.pc = "walk" /\ run.day > run.yesterday /\ EndRun
      /\ UNCHANGED <<today, amber, site, store, written, chain, rows, left>>
  BY DEF WalkDone, setup, usage, At
<1>2. Agrees
  <2>1. /\ Agrees \/ (LastRow = run.day /\ run.day \in Day /\ HasRow(run.day))
        /\ run.yesterday = today - 1 /\ run.day \in Nat
    BY <1>1, AtTheWalk
  <2>2. run.day \in Day /\ HasRow(run.day) => run.day < today
    BY DEF ChainInv, Lasting
  <2> QED
    BY <1>1, <2>1, <2>2, Numbers
<1> QED
  BY <1>1, <1>2, StopKeeps

-----------------------------------------------------------------------------
(* Writing a day *)

\* The day a chain is writing, in its walk ...
LEMMA AtTheWalksDay ==
  ASSUME ChainInv, run.pc \in {"rows", "mark"}, ~run.rewriting
  PROVE  /\ Readable /\ chain.rewrite = NoRewrite /\ run.day >= Boundary /\ NextDay
         /\ chain.pending = run.day
         /\ IF At("mark") THEN LastRow = run.day ELSE Agrees \/ LastRow = run.day
         /\ chain.marker < run.day
<1>1. /\ Readable /\ chain.rewrite = NoRewrite /\ run.day >= Boundary /\ NextDay
      /\ chain.pending = run.day
      /\ IF At("mark") THEN LastRow = run.day ELSE Agrees \/ LastRow = run.day
  BY DEF ChainInv, Control, Walks
<1>2. run.day \in Nat
  BY <1>1, Constants DEF Readable
<1> QED
  BY <1>1, <1>2, Numbers DEF NextDay

\* ... and in a rewrite.
LEMMA AtTheRewritesDay ==
  ASSUME ChainInv, run.pc \in {"rows", "mark", "track"}, run.rewriting
  PROVE  /\ Rewrites /\ Rewriting /\ Readable /\ Given(run.day)
         /\ run.day <= run.last /\ run.last <= chain.marker /\ run.day <= chain.marker
         /\ chain.marker # NoDay
<1>1. /\ Rewrites /\ Rewriting /\ Readable /\ Given(run.day)
      /\ run.day <= run.last /\ run.last <= chain.marker /\ chain.marker # NoDay
  BY DEF ChainInv, Control, Rewrites, Rewriting, At
<1>2. run.day \in Nat /\ run.last \in Nat
  BY <1>1, Typed, Constants DEF ChainInv, RunRecord, Readable
<1> QED
  BY <1>1, <1>2, Numbers

LEMMA PrevHasRow ==
  ASSUME ChainInv, NEW day \in Day
  PROVE  /\ Prev(day) # NoDay => Prev(day) \in Day /\ HasRow(Prev(day))
         /\ Baseline(day) \in Nat
<1> DEFINE S == {d \in Day : d < day /\ chain.status[d] = "imported"}
<1>1. S \in SUBSET Day /\ ChainLastImportedBefore(day) = MaxOf(S)
  BY DEF ChainLastImportedBefore
<1>2. MaxOf(S) \in S \cup {NoDay}
  BY <1>1, MaxOfDays
<1>3. ChainLastImportedBefore(day) # NoDay =>
        ChainLastImportedBefore(day) \in Day /\ HasRow(ChainLastImportedBefore(day))
  BY <1>1, <1>2 DEF ChainInv, Records
<1>4. chain.lastWritten # NoDay => chain.lastWritten \in Day /\ HasRow(chain.lastWritten)
  BY Typed DEF ChainInv, Records
<1>5. Prev(day) # NoDay => Prev(day) \in Day /\ HasRow(Prev(day))
  BY <1>3, <1>4 DEF Prev
<1>6. \A d \in Day : rows[d].sum \in Nat
  BY DEF ChainInv, StateOK
<1> QED
  BY <1>5, <1>6 DEF Baseline

LEMMA WriteRowsKeeps ==
  ASSUME ChainInv, WriteRows
  PROVE  ChainInv'
<1> DEFINE day    == run.day
           amount == run.cache[day].amount
           r      == [state |-> amount, sum |-> Baseline(day) + amount]
<1>1. run.pc = "rows" /\ UNCHANGED <<today, amber, site, store, written, chain, left>>
  BY DEF WriteRows, setup, usage, At
<1>2. Readable /\ day \in Day
  <2>1. run.rewriting => Readable
    BY <1>1, AtTheRewritesDay
  <2>2. ~run.rewriting => Readable
    BY <1>1, AtTheWalksDay
  <2> QED
    BY <2>1, <2>2 DEF Readable
<1>3. amount \in Nat /\ amount > 0
  <2>1. run.cache[day] \in Answer \cup {Unfetched}
    BY <1>2, Typed DEF ChainInv
  <2> QED
    BY <1>2, <2>1, Amounts, AmountAssumption DEF Readable
<1>4. rows' = [rows EXCEPT ![day] = r] /\ run' = [run EXCEPT !.pc = "mark"]
  BY <1>2, PrevHasRow DEF WriteRows, Goto
<1>5. r \in [state : Nat, sum : Nat] /\ r # NoRow
  <2>1. Baseline(day) \in Nat
    BY <1>2, PrevHasRow
  <2> HIDE DEF amount
  <2>2. r.state = amount /\ NoRow.state = 0
    BY DEF NoRow
  <2> QED
    BY <1>3, <2>1, <2>2
<1> HIDE DEF r, amount
<1>6. /\ run' \in RunRecord /\ run'.pc = "mark" /\ run'.day = day /\ run'.rewriting = run.rewriting
      /\ run'.cache = run.cache /\ run'.yesterday = run.yesterday /\ run'.last = run.last
      /\ run'.after = run.after /\ run'.start = run.start /\ run'.recovery = run.recovery
  BY <1>4, Typed DEF ChainInv, RunRecord, PCs
<1>7. StateOK'
  <2>1. rows' \in [Day -> [state : Nat, sum : Nat]]
    BY <1>2, <1>4, <1>5 DEF ChainInv, StateOK
  <2> QED
    BY <1>1, <1>6, <2>1 DEF ChainInv, StateOK
<1>8. /\ \A d \in Day : HasRow(d)' <=> HasRow(d) \/ d = day
      /\ LastRow' = Later(LastRow, day)
  BY <1>2, <1>4, <1>5, RowWritten DEF ChainInv
<1>9. Records' /\ Progress'
  <2>1. chain.lastWritten # NoDay => HasRow(chain.lastWritten)'
    <3>1. chain.lastWritten # NoDay => HasRow(chain.lastWritten) /\ chain.lastWritten \in Day
      BY Typed DEF ChainInv, Records
    <3> DEFINE last == chain.lastWritten
               S == {d \in Day : rows'[d] # NoRow}
    <3>2. \A d \in Day : HasRow(d) => d \in S
      BY <1>8 DEF HasRow
    <3>3. last # NoDay => last \in S
      BY <3>1, <3>2
    <3> QED
      BY <1>1, <3>3 DEF HasRow
  <2>2. Records'
    BY <1>1, <1>8, <2>1 DEF ChainInv, Records, HasRow
  <2>3. Progress'
    BY <1>1 DEF ChainInv, Progress
  <2> QED
    BY <2>2, <2>3
<1>10. Lasting'
  <2>1. ~Empty(amber[day]) /\ SensorData(day)
    BY <1>2 DEF Readable, ChainInv, Fetches
  <2>2. \A d \in Day : HasRow(d)' => SensorData(d) /\ ~Empty(amber[d])
    BY <1>8, <2>1 DEF ChainInv, Lasting
  <2>3. \A d \in Day : HasRow(d)' => SensorData(d)' /\ ~Empty(amber'[d])
    BY <1>1, <2>2 DEF SensorData
  <2> QED
    BY <1>1, <2>3 DEF ChainInv, Lasting, Given
<1>11. Fetches'
  <2>1. \A d \in Day : Boundary <= d /\ Empty(run.cache[d]) => ~HasRow(d)'
    BY <1>2, <1>8 DEF Readable, ChainInv, Fetches
  <2>2. Boundary' = Boundary
    BY <1>1 DEF Boundary
  <2>3. run.yesterday = today - 1
    BY <1>1 DEF ChainInv, Fetches, At
  <2> QED
    BY <1>1, <1>6, <2>1, <2>2, <2>3 DEF ChainInv, Fetches, At, Given
<1>12. Control'
  <2>0. Boundary' = Boundary /\ (Flows' <=> Flows) /\ day \in Nat
    BY <1>1, <1>2, Constants DEF Boundary, Flows
  <2>1. Readable'
    BY <1>1, <1>2, <1>6 DEF Readable, SensorData
  <2>2. CASE ~run.rewriting
    <3>1. /\ chain.rewrite = NoRewrite /\ day >= Boundary /\ NextDay
          /\ chain.pending = day /\ (Agrees \/ LastRow = day) /\ chain.marker < day
      BY <1>1, <2>2, AtTheWalksDay DEF At
    <3>2. LastRow' = day
      BY <1>8, <2>0, <3>1, Numbers DEF Later, Agrees
    <3>3. /\ chain'.rewrite = NoRewrite /\ run'.day >= Boundary'
          /\ chain'.marker = NoDay \/ run'.day = chain'.marker + 1
          /\ chain'.pending = run'.day /\ LastRow' = run'.day
      BY <1>1, <1>6, <2>0, <3>1, <3>2 DEF NextDay
    <3> QED
      BY <1>6, <2>1, <2>2, <3>3
         DEF Control, BeforeGuard, AfterGuard, NextDay, Walks, Rewrites, Rewriting, At
  <2>3. CASE run.rewriting
    <3>1. Rewrites /\ Rewriting /\ Given(day) /\ day <= run.last /\ day <= chain.marker
      BY <1>1, <2>3, AtTheRewritesDay
    <3>2. /\ run.day > 0 /\ run.last <= chain.marker /\ chain.marker # NoDay
          /\ chain.status[day] = "sensor" => chain.rewrite.retry
          /\ Agrees \/ (run.after = "walk" /\ LastRow = run.start)
          /\ run.after = "start" => run.recovery = NoDay
          /\ run.after = "walk" =>
               /\ run.start = chain.marker + 1 /\ run.start >= Boundary
               /\ Flows /\ run.day >= Boundary
      BY <1>1, <3>1 DEF Rewrites, At
    <3>3. \/ LastRow' = Later(chain.lastWritten, day)
          \/ run.after = "walk" /\ LastRow' = run.start
      <4>1. run.after = "walk" /\ LastRow = run.start => LastRow' = run.start
        BY <1>8, <2>0, <3>1, <3>2, Numbers DEF Later
      <4> QED
        BY <1>8, <3>2, <4>1 DEF Agrees
    <3>4. rows'[day] # NoRow
      BY <1>2, <1>8 DEF HasRow
    <3>5. Rewrites'
      <4>1. /\ run'.rewriting /\ run'.day > 0 /\ run'.last <= chain'.marker /\ chain'.marker # NoDay
            /\ run'.day <= run'.last /\ Readable' /\ Given(day)
            /\ chain'.status[run'.day] = "sensor" => chain'.rewrite.retry
            /\ rows'[run'.day] # NoRow
        BY <1>1, <1>6, <2>1, <2>3, <3>1, <3>2, <3>4
      <4>2. /\ \/ LastRow' = Later(chain'.lastWritten, run'.day)
               \/ run'.after = "walk" /\ LastRow' = run'.start
            /\ run'.after = "start" => run'.recovery = NoDay
            /\ run'.after = "walk" =>
                 /\ run'.start = chain'.marker + 1 /\ run'.start >= Boundary'
                 /\ Flows' /\ run'.day >= Boundary'
        BY <1>1, <1>6, <2>0, <3>2, <3>3
      <4>3. run'.pc = "mark" /\ chain'.status[run'.day] \in {"imported", "sensor"}
        BY <1>1, <1>6, <3>1 DEF Given
      <4> QED
        BY <4>1, <4>2, <4>3 DEF Rewrites, Rewriting, At, HasRow, Given
    <3> QED
      BY <1>6, <2>3, <3>5 DEF Control, BeforeGuard, AfterGuard, Walks, At
  <2> QED
    BY <2>2, <2>3
<1> QED
  BY <1>7, <1>9, <1>10, <1>11, <1>12 DEF ChainInv

\* Recording a written day: the one after the marker, or one the chain has resolved.
LEMMA MarkKeepsRecords ==
  ASSUME ChainInv, NEW day \in Day, HasRow(day), chain' = MarkWritten(chain, day), rows' = rows,
         (NextDay /\ run.day = day /\ chain.marker < day) \/ (day <= chain.marker /\ Given(day))
  PROVE  /\ Records' /\ chain' \in ChainRecord
         /\ chain'.marker = Later(chain.marker, day)
         /\ chain'.lastWritten = Later(chain.lastWritten, day)
         /\ chain'.pending = NoDay /\ chain'.rewrite = chain.rewrite
         /\ \A d \in Day : chain'.status[d] = IF d = day THEN "imported" ELSE chain.status[d]
<1>1. /\ chain' \in ChainRecord
      /\ chain'.marker = Later(chain.marker, day)
      /\ chain'.lastWritten = Later(chain.lastWritten, day)
      /\ chain'.pending = NoDay /\ chain'.rewrite = chain.rewrite
      /\ \A d \in Day : chain'.status[d] = IF d = day THEN "imported" ELSE chain.status[d]
  <2> DEFINE n == MarkWritten(chain, day)
  <2>1. chain \in ChainRecord
    BY Typed DEF ChainInv
  <2>2. /\ n \in ChainRecord
        /\ n.marker = Later(chain.marker, day) /\ n.lastWritten = Later(chain.lastWritten, day)
        /\ n.pending = NoDay /\ n.rewrite = chain.rewrite
        /\ \A d \in Day : n.status[d] = IF d = day THEN "imported" ELSE chain.status[d]
    BY <2>1, MarkWrittenFields
  <2>3. chain' = n
    OBVIOUS
  <2> HIDE DEF n
  <2> QED
    BY <2>2, <2>3
<1>2. /\ day \in Nat /\ chain.lastWritten \in Nat /\ chain.marker \in Nat
      /\ chain.lastWritten <= chain.marker /\ Day \subseteq Nat
  BY Numbers, Constants
<1>3. /\ chain'.marker \in Nat /\ chain'.lastWritten \in Nat
      /\ chain'.marker >= chain.marker /\ chain'.marker >= day
      /\ chain'.lastWritten >= chain.lastWritten /\ chain'.lastWritten >= day
      /\ chain'.marker \in {chain.marker, day} /\ chain'.lastWritten \in {chain.lastWritten, day}
      /\ chain'.lastWritten <= chain'.marker
  BY <1>1, <1>2 DEF Later
<1>4. \A d \in Day : rows'[d] # NoRow <=> rows[d] # NoRow
  OBVIOUS
<1>5. chain'.lastWritten # NoDay => rows'[chain'.lastWritten] # NoRow
  BY <1>3 DEF ChainInv, Records, HasRow
<1>6. \A d \in Day : chain'.status[d] # "none" => d <= chain'.marker
  <2>1. \A d \in Day : chain.status[d] # "none" => d <= chain'.marker
    <3> TAKE d \in Day
    <3>1. d \in Nat
      BY <1>2
    <3>2. chain.status[d] # "none" => d <= chain.marker
      BY DEF ChainInv, Records
    <3> QED
      BY <1>2, <1>3, <3>1, <3>2
  <2> QED
    BY <1>1, <1>3, <2>1
<1>7. \A d \in Day : chain'.status[d] = "imported" => d <= chain'.lastWritten /\ rows'[d] # NoRow
  <2> SUFFICES ASSUME NEW d \in Day, chain'.status[d] = "imported"
               PROVE  d <= chain'.lastWritten /\ rows'[d] # NoRow
    OBVIOUS
  <2>1. CASE d = day
    BY <1>3, <2>1 DEF HasRow
  <2>2. CASE d # day
    <3>1. d <= chain.lastWritten /\ HasRow(d) /\ d \in Nat
      BY <1>1, <1>2, <2>2 DEF ChainInv, Records
    <3> QED
      BY <1>2, <1>3, <3>1 DEF HasRow
  <2> QED
    BY <2>1, <2>2
<1>8. \A d, e \in Day :
        d <= e /\ e <= chain'.marker /\ chain'.status[d] # "none" => chain'.status[e] # "none"
  <2> SUFFICES ASSUME NEW d \in Day, NEW e \in Day, d <= e, e <= chain'.marker,
                      chain'.status[d] # "none", e # day
               PROVE  chain.status[e] # "none"
    BY <1>1
  <2>1. d \in Nat /\ e \in Nat
    BY <1>2
  <2>2. e <= chain.marker
    <3>1. CASE day <= chain.marker
      BY <1>2, <1>3, <2>1, <3>1
    <3>2. CASE NextDay /\ run.day = day /\ chain.marker < day
      <4>1. e < day /\ d # day
        BY <1>2, <1>3, <2>1, <3>2
      <4>2. d <= chain.marker
        BY <1>1, <4>1 DEF ChainInv, Records
      <4>3. chain.marker # NoDay
        BY <2>1, <4>2, Constants DEF Day
      <4> QED
        BY <1>2, <2>1, <3>2, <4>1, <4>3 DEF NextDay
    <3> QED
      BY <3>1, <3>2
  <2>3. CASE d = day
    <3>1. Given(day)
      BY <1>2, <2>1, <2>2, <2>3
    <3> QED
      BY <2>2, <2>3, <3>1 DEF ChainInv, Records, Given
  <2>4. CASE d # day
    BY <1>1, <2>2, <2>4 DEF ChainInv, Records
  <2> QED
    BY <2>3, <2>4
<1>9. \A d \in Day : chain'.lastWritten # NoDay /\ chain'.lastWritten < d /\ d <= chain'.marker
        => chain'.status[d] # "none"
  <2> SUFFICES ASSUME NEW d \in Day, chain'.lastWritten < d, d <= chain'.marker
               PROVE  chain.status[d] # "none"
    BY <1>1
  <2>1. d \in Nat /\ day < d /\ chain.lastWritten < d
    BY <1>2, <1>3
  <2>2. d <= chain.marker /\ Given(day) /\ day <= chain.marker
    BY <1>2, <1>3, <2>1
  <2> QED
    BY <2>1, <2>2, <1>2 DEF ChainInv, Records, Given
<1>10. Records'
  BY <1>3, <1>5, <1>6, <1>7, <1>8, <1>9 DEF Records, HasRow
<1> QED
  BY <1>1, <1>10

LEMMA MarkDayWrittenKeeps ==
  ASSUME ChainInv, MarkDayWritten
  PROVE  ChainInv'
<1> DEFINE day == run.day
<1>1. /\ run.pc = "mark" /\ UNCHANGED <<today, amber, site, store, written, rows, left>>
      /\ chain' = MarkWritten(chain, day) /\ run' = [run EXCEPT !.pc = "track"]
  BY DEF MarkDayWritten, setup, usage, At, Goto
<1>2. Readable /\ day \in Day /\ HasRow(day)
  <2>1. run.rewriting => Readable /\ HasRow(day)
    BY <1>1, AtTheRewritesDay DEF Rewrites, At
  <2>2. ~run.rewriting => Readable /\ LastRow = day
    BY <1>1, AtTheWalksDay DEF At
  <2>3. day \in Day
    BY <2>1, <2>2 DEF Readable
  <2>4. LastRow = day => HasRow(day)
    BY <2>3, LastRowIsLast, Constants
  <2> QED
    BY <2>1, <2>2, <2>3, <2>4
<1>3. (NextDay /\ run.day = day /\ chain.marker < day) \/ (day <= chain.marker /\ Given(day))
  BY <1>1, AtTheRewritesDay, AtTheWalksDay
<1>4. /\ Records' /\ chain' \in ChainRecord
      /\ chain'.marker = Later(chain.marker, day)
      /\ chain'.lastWritten = Later(chain.lastWritten, day)
      /\ chain'.rewrite = chain.rewrite
      /\ \A d \in Day : chain'.status[d] = IF d = day THEN "imported" ELSE chain.status[d]
  BY <1>1, <1>2, <1>3, MarkKeepsRecords
<1>5. /\ run' \in RunRecord /\ run'.pc = "track" /\ run'.day = day /\ run'.rewriting = run.rewriting
      /\ run'.cache = run.cache /\ run'.yesterday = run.yesterday /\ run'.last = run.last
      /\ run'.after = run.after /\ run'.start = run.start /\ run'.recovery = run.recovery
  BY <1>1, Typed DEF ChainInv, RunRecord, PCs
<1>6. StateOK'
  BY <1>1, <1>4, <1>5 DEF ChainInv, StateOK
<1>7. \A d \in Day : Given(d)' => Given(d) \/ (d = day /\ ~Empty(run.cache[d]) /\ ~Empty(amber[d]))
  <2>1. ~Empty(run.cache[day]) /\ ~Empty(amber[day])
    BY <1>2 DEF Readable, ChainInv, Fetches
  <2> QED
    BY <1>4, <2>1 DEF Given
<1>8. Lasting' /\ Fetches'
  BY <1>1, <1>5, <1>7, LastingSame, FetchesSame DEF ChainInv
<1>9. /\ day \in Nat /\ chain.lastWritten <= chain.marker /\ LastRow' = LastRow
      /\ Boundary' = Boundary /\ (Flows' <=> Flows)
  BY <1>1, <1>2, Constants, Numbers, SameRows DEF Boundary, Flows
<1>10. Readable'
  BY <1>1, <1>2, <1>5 DEF Readable, SensorData
<1>11. CASE ~run.rewriting
  <2>1. /\ chain.rewrite = NoRewrite /\ day >= Boundary /\ LastRow = day /\ chain.marker < day
    BY <1>1, <1>11, AtTheWalksDay DEF At
  <2>2. chain'.marker = day /\ chain'.lastWritten = day
    BY <1>4, <1>9, <2>1, Numbers DEF Later
  <2>3. /\ chain'.rewrite = NoRewrite /\ run'.day >= Boundary' /\ chain'.marker = run'.day
        /\ Agrees'
    BY <1>4, <1>5, <1>9, <2>1, <2>2 DEF Agrees
  <2>4. Control'
    BY <1>5, <1>10, <1>11, <2>3
       DEF Control, BeforeGuard, AfterGuard, Walks, Rewrites, Rewriting, At
  <2>5. Progress'
    BY <2>3 DEF Progress
  <2> QED
    BY <1>4, <1>6, <1>8, <2>4, <2>5 DEF ChainInv
<1>12. CASE run.rewriting
  <2>1. /\ Rewrites /\ Rewriting /\ Given(day) /\ day <= run.last /\ day <= chain.marker
        /\ run.last <= chain.marker /\ chain.marker # NoDay
    BY <1>1, <1>12, AtTheRewritesDay
  <2>2. chain'.marker = chain.marker
    BY <1>4, <1>9, <2>1, Numbers DEF Later
  <2>3. /\ run.day > 0
        /\ \/ LastRow = Later(chain.lastWritten, day)
           \/ Agrees
           \/ run.after = "walk" /\ LastRow = run.start
        /\ run.after = "start" => run.recovery = NoDay
        /\ run.after = "walk" =>
             /\ run.start = chain.marker + 1 /\ run.start >= Boundary
             /\ Flows /\ run.day >= Boundary
    BY <2>1 DEF Rewrites
  <2>4. Agrees => LastRow = Later(chain.lastWritten, day)
    <3>1. day <= LastRow
      BY <1>2, LastRowIsLast
    <3> QED
      BY <1>9, <3>1, Numbers DEF Later, Agrees
  <2>5. /\ LastRow' = chain'.lastWritten \/ (run'.after = "walk" /\ LastRow' = run'.start)
        /\ run'.day > 0 /\ run'.last <= chain'.marker /\ chain'.marker # NoDay
        /\ run'.day <= run'.last /\ chain'.status[run'.day] = "imported" /\ run'.rewriting
    BY <1>2, <1>4, <1>5, <1>9, <1>12, <2>1, <2>2, <2>3, <2>4
  <2>6. /\ run'.after = "start" => run'.recovery = NoDay
        /\ run'.after = "walk" =>
             /\ run'.start = chain'.marker + 1 /\ run'.start >= Boundary'
             /\ Flows' /\ run'.day >= Boundary'
    BY <1>5, <1>9, <2>2, <2>3
  <2>7. Rewrites'
    BY <1>5, <1>10, <2>5, <2>6 DEF Rewrites, Rewriting, At, Agrees, Given
  <2>8. Control'
    BY <1>5, <1>12, <2>7 DEF Control, BeforeGuard, AfterGuard, Walks, At
  <2>9. Progress'
    BY <1>4, <2>2 DEF ChainInv, Progress
  <2> QED
    BY <1>4, <1>6, <1>8, <2>8, <2>9 DEF ChainInv
<1> QED
  BY <1>11, <1>12

LEMMA TrackDayKeeps ==
  ASSUME ChainInv, TrackDay
  PROVE  ChainInv'
<1> DEFINE day == run.day
           pc  == IF run.rewriting THEN "rewrite" ELSE "walk"
<1>1. /\ run.pc = "track" /\ UNCHANGED <<today, amber, site, written, chain, rows, left>>
      /\ store' = Track(store, day, run.cache[day])
      /\ run' = [run EXCEPT !.pc = pc, !.day = day + 1]
  BY DEF TrackDay, setup, At
<1>2. Readable /\ day \in Day /\ day \in Nat /\ day > 0
  <2>1. run.rewriting => Readable
    BY <1>1, AtTheRewritesDay
  <2>2. ~run.rewriting => Readable
    BY <1>1 DEF ChainInv, Control, Walks, At
  <2> QED
    BY <2>1, <2>2, Constants DEF Readable, Day
<1>3. /\ store' \in StoreRecord
      /\ \A d \in Day : InRevisionSet(store', d) => InRevisionSet(store, d) \/ ~Empty(amber[d])
  <2>1. run.cache[day] \in Answer \cup {Unfetched} /\ store \in StoreRecord
    BY <1>2, Typed DEF ChainInv
  <2>2. ~Empty(amber[day])
    BY <1>2 DEF Readable, ChainInv, Fetches
  <2>3. store' \in StoreRecord /\ \A d \in Day : d # day => store'.revisions[d] = store.revisions[d]
    BY <1>1, <1>2, <2>1, TrackIs DEF ChainInv
  <2> QED
    BY <2>2, <2>3 DEF InRevisionSet
<1> HIDE DEF pc
<1>4. pc \in {"rewrite", "walk"} /\ (pc = "rewrite" <=> run.rewriting)
  BY DEF pc
<1>5. /\ run' \in RunRecord /\ run'.pc = pc /\ run'.day = day + 1 /\ run'.rewriting = run.rewriting
      /\ run'.cache = run.cache /\ run'.yesterday = run.yesterday /\ run'.last = run.last
      /\ run'.after = run.after /\ run'.start = run.start /\ run'.recovery = run.recovery
  <2>1. day + 1 \in 0..(MaxDay + 1)
    BY <1>2, Constants DEF Day
  <2> QED
    BY <1>1, <1>4, <2>1, Typed DEF ChainInv, RunRecord, PCs
<1>6. StateOK'
  BY <1>1, <1>3, <1>5 DEF ChainInv, StateOK
<1>7. Records' /\ Progress' /\ (Agrees' <=> Agrees)
  BY <1>1, RecordsSame DEF ChainInv, Progress
<1>8. Lasting' /\ Fetches'
  BY <1>1, <1>3, <1>4, <1>5, LastingSame, FetchesSame DEF ChainInv, Given
<1>9. LastRow' = LastRow /\ Boundary' = Boundary /\ (Flows' <=> Flows) /\ Boundary \in Nat
  BY <1>1, SameRows, Numbers DEF Boundary, Flows
<1>10. CASE ~run.rewriting
  <2>1. chain.rewrite = NoRewrite /\ day >= Boundary /\ chain.marker = day /\ Agrees
    BY <1>1, <1>10 DEF ChainInv, Control, Walks, At
  <2>2. /\ chain'.rewrite = NoRewrite /\ run'.day >= Boundary' /\ run'.day = chain'.marker + 1
        /\ Agrees'
    BY <1>1, <1>2, <1>5, <1>7, <1>9, <2>1
  <2>3. Control'
    BY <1>4, <1>5, <1>10, <2>2
       DEF Control, BeforeGuard, AfterGuard, NextDay, Walks, Rewrites, Rewriting, At
  <2> QED
    BY <1>6, <1>7, <1>8, <2>3 DEF ChainInv
<1>11. CASE run.rewriting
  <2>1. /\ Rewrites /\ Rewriting /\ run.last <= chain.marker /\ chain.marker # NoDay
    BY <1>1, <1>11, AtTheRewritesDay
  <2>2. /\ Agrees \/ (run.after = "walk" /\ LastRow = run.start)
        /\ run.after = "start" => run.recovery = NoDay
        /\ run.after = "walk" =>
             /\ run.start = chain.marker + 1 /\ run.start >= Boundary
             /\ Flows /\ run.day >= Boundary
    BY <1>1, <2>1 DEF Rewrites, At
  <2>3. /\ Agrees' \/ (run'.after = "walk" /\ LastRow' = run'.start)
        /\ run'.after = "start" => run'.recovery = NoDay
        /\ run'.after = "walk" =>
             /\ run'.start = chain'.marker + 1 /\ run'.start >= Boundary'
             /\ Flows' /\ run'.day >= Boundary'
        /\ run'.rewriting /\ run'.day > 0 /\ run'.last <= chain'.marker /\ chain'.marker # NoDay
    BY <1>1, <1>2, <1>5, <1>7, <1>9, <1>11, <2>1, <2>2
  <2>4. Control'
    BY <1>4, <1>5, <1>11, <2>3
       DEF Control, BeforeGuard, AfterGuard, Walks, Rewrites, Rewriting, At
  <2> QED
    BY <1>6, <1>7, <1>8, <2>4 DEF ChainInv
<1> QED
  BY <1>10, <1>11

-----------------------------------------------------------------------------
(* A rewrite *)

LEMMA AtTheRewrite ==
  ASSUME ChainInv, run.pc = "rewrite"
  PROVE  /\ run.rewriting /\ run.day \in Nat /\ run.day > 0
         /\ run.last <= chain.marker /\ chain.marker # NoDay /\ run.last \in 0..MaxDay
         /\ Agrees \/ (run.after = "walk" /\ LastRow = run.start)
         /\ run.after = "start" => run.recovery = NoDay
         /\ run.after = "walk" =>
              /\ run.start = chain.marker + 1 /\ run.start >= Boundary
              /\ Flows /\ run.day >= Boundary
         /\ run.day <= run.last => run.day \in Day /\ run.day <= chain.marker
<1>1. Rewriting /\ Rewrites
  BY DEF ChainInv, Control, Rewriting, At
<1>2. run.day \in Nat /\ run.last \in 0..MaxDay
  BY Typed, Constants DEF ChainInv, RunRecord
<1>3. /\ run.rewriting /\ run.day > 0 /\ run.last <= chain.marker /\ chain.marker # NoDay
      /\ Agrees \/ (run.after = "walk" /\ LastRow = run.start)
      /\ run.after = "start" => run.recovery = NoDay
      /\ run.after = "walk" =>
           /\ run.start = chain.marker + 1 /\ run.start >= Boundary
           /\ Flows /\ run.day >= Boundary
  BY <1>1 DEF Rewrites, At
<1>4. run.day <= run.last => run.day \in Day /\ run.day <= chain.marker
  BY <1>2, <1>3, Numbers, Constants DEF Day
<1> QED
  BY <1>2, <1>3, <1>4

\* Skipping one day.
LEMMA OneDaySkipped ==
  ASSUME NEW c \in ChainRecord, NEW day \in Day, NEW how \in ChainSkipped
  PROVE  LET n == ChainMarkSkipped(c, day, day, how) IN
         /\ n \in ChainRecord /\ n.marker = Later(c.marker, day)
         /\ n.lastWritten = c.lastWritten /\ n.rewrite = c.rewrite
         /\ \A d \in Day : n.status[d] = IF d = day /\ c.status[d] # "imported"
                                         THEN how ELSE c.status[d]
<1> DEFINE n == ChainMarkSkipped(c, day, day, how)
<1>1. /\ n \in ChainRecord
      /\ n.marker = Later(c.marker, day) /\ n.lastWritten = c.lastWritten
      /\ n.pending = c.pending /\ n.rewrite = c.rewrite
      /\ \A d \in Day : n.status[d] = IF d \in day..day /\ c.status[d] # "imported"
                                      THEN how ELSE c.status[d]
  BY MarkSkippedFields
<1>2. \A d \in Day : d \in day..day <=> d = day
  BY Constants
<1> HIDE DEF n
<1>3. \A d \in Day : n.status[d] = IF d = day /\ c.status[d] # "imported"
                                  THEN how ELSE c.status[d]
  BY <1>1, <1>2
<1> QED
  BY <1>1, <1>3 DEF n

\* A step of a rewrite changes nothing of the chain but its progress.
LEMMA RewriteGoesOn ==
  ASSUME ChainInv, run.pc = "rewrite", run.day <= run.last,
         UNCHANGED <<today, amber, site, store, written, rows, left>>,
         chain' \in ChainRecord, chain'.marker = chain.marker,
         chain'.lastWritten = chain.lastWritten,
         \A d \in Day : chain'.status[d] = chain.status[d],
         chain'.rewrite.next = run.day, chain'.rewrite.to = run.last,
         run' \in RunRecord
  PROVE  StateOK' /\ Records' /\ Progress' /\ Lasting' /\ (Agrees' <=> Agrees)
<1>1. StateOK'
  BY DEF ChainInv, StateOK
<1>2. Records' /\ (Agrees' <=> Agrees)
  BY RecordsSame DEF ChainInv
<1>3. Progress'
  BY AtTheRewrite DEF Progress
<1>4. Lasting'
  BY LastingSame DEF ChainInv, Given
<1> QED
  BY <1>1, <1>2, <1>3, <1>4

LEMMA RewriteDayKeeps ==
  ASSUME ChainInv, RewriteDay
  PROVE  ChainInv'
<1> DEFINE day   == run.day
           saved == SetRewrite(chain, day, run.last)
           cache == CacheWith(day, run.last)
<1>1. /\ run.pc = "rewrite" /\ day <= run.last
      /\ UNCHANGED <<today, amber, site, store, written, rows, left>>
  BY DEF RewriteDay, setup, usage, At
<1>2. /\ run.rewriting /\ day \in Day /\ day \in Nat /\ day > 0 /\ day <= chain.marker
      /\ run.last <= chain.marker /\ chain.marker # NoDay /\ run.last \in 0..MaxDay
      /\ Agrees \/ (run.after = "walk" /\ LastRow = run.start)
      /\ run.after = "start" => run.recovery = NoDay
      /\ run.after = "walk" =>
           /\ run.start = chain.marker + 1 /\ run.start >= Boundary
           /\ Flows /\ run.day >= Boundary
  BY <1>1, AtTheRewrite
<1>3. /\ cache \in [Day -> Answer \cup {Unfetched}] /\ cache[day] # Unfetched
      /\ \A d \in Day : cache[d] \in {run.cache[d], Usage(d)}
  BY <1>2, CacheWithIs DEF ChainInv
<1>4. /\ saved \in ChainRecord
      /\ saved.marker = chain.marker /\ saved.lastWritten = chain.lastWritten
      /\ saved.status = chain.status
      /\ saved.rewrite.next = day /\ saved.rewrite.to = run.last
      /\ saved.rewrite.retry = chain.rewrite.retry
  <2>1. day \in 0..MaxDay /\ chain \in ChainRecord
    BY <1>2, Typed, Constants DEF ChainInv, Day
  <2> QED
    BY <1>2, <2>1, SetRewriteFields
<1>5. LastRow' = LastRow /\ Boundary' = Boundary /\ (Flows' <=> Flows) /\ Boundary \in Nat
  BY <1>1, SameRows, Numbers DEF Boundary, Flows
<1>6. CASE ~Rewritten(day)
  <2>1. chain' = saved /\ run' = [run EXCEPT !.day = day + 1]
    BY <1>6 DEF RewriteDay
  <2> HIDE DEF saved
  <2>2. /\ run' \in RunRecord /\ run'.pc = "rewrite" /\ run'.day = day + 1
        /\ run'.rewriting = run.rewriting
        /\ run'.cache = run.cache /\ run'.yesterday = run.yesterday /\ run'.last = run.last
        /\ run'.after = run.after /\ run'.start = run.start /\ run'.recovery = run.recovery
    <3>1. day + 1 \in 0..(MaxDay + 1)
      BY <1>2, Constants DEF Day
    <3> QED
      BY <1>1, <2>1, <3>1, Typed DEF ChainInv, RunRecord
  <2>3. StateOK' /\ Records' /\ Progress' /\ Lasting' /\ (Agrees' <=> Agrees)
    BY <1>1, <1>4, <2>1, <2>2, RewriteGoesOn
  <2>4. Fetches'
    BY <1>1, <1>4, <2>1, <2>2, FetchesSame DEF ChainInv, Given
  <2>5. /\ Agrees' \/ (run'.after = "walk" /\ LastRow' = run'.start)
        /\ run'.after = "start" => run'.recovery = NoDay
        /\ run'.after = "walk" =>
             /\ run'.start = chain'.marker + 1 /\ run'.start >= Boundary'
             /\ Flows' /\ run'.day >= Boundary'
        /\ run'.rewriting /\ run'.day > 0 /\ run'.last <= chain'.marker /\ chain'.marker # NoDay
    BY <1>2, <1>4, <1>5, <2>1, <2>2, <2>3
  <2>6. Control'
    BY <2>2, <2>5 DEF Control, BeforeGuard, AfterGuard, Walks, Rewrites, Rewriting, At
  <2> QED
    BY <2>3, <2>4, <2>6 DEF ChainInv
<1>7. Rewritten(day) => Given(day)
  BY DEF Rewritten, Given
<1>8. CASE Rewritten(day) /\ (Empty(cache[day]) \/ ~Flows)
  <2>1. chain' = saved /\ run' = Idle
    BY <1>8 DEF RewriteDay, EndRun
  <2>2. Agrees
    <3>1. Boundary <= day => ~Empty(cache[day])
      BY <1>2, <1>3, <1>7, <1>8, FetchedDays DEF ChainInv
    <3> QED
      BY <1>2, <1>5, <1>8, <3>1
  <2> HIDE DEF saved
  <2>3. run' \in RunRecord
    BY <2>1, IdleFields
  <2>4. StateOK' /\ Records' /\ Progress' /\ Lasting' /\ (Agrees' <=> Agrees)
    BY <1>1, <1>4, <2>1, <2>3, RewriteGoesOn
  <2>5. Fetches' /\ Control'
    BY <2>1, <2>2, <2>4, RunOver DEF ChainInv, Agrees
  <2> QED
    BY <2>4, <2>5 DEF ChainInv
<1>9. CASE Rewritten(day) /\ ~Empty(cache[day]) /\ Flows
  <2>1. \/ /\ SensorData(day) /\ chain' = saved
           /\ run' = [run EXCEPT !.cache = cache, !.pc = "rows"]
        \/ /\ chain' = ChainMarkSkipped(saved, day, day, "sensor")
           /\ run' = [run EXCEPT !.cache = cache, !.day = day + 1]
    BY <1>9 DEF RewriteDay
  <2> HIDE DEF cache
  <2>2. CASE SensorData(day) /\ chain' = saved /\ run' = [run EXCEPT !.cache = cache, !.pc = "rows"]
    <3> HIDE DEF saved
    <3>1. /\ run' \in RunRecord /\ run'.pc = "rows" /\ run'.day = day
          /\ run'.rewriting = run.rewriting
          /\ run'.cache = cache /\ run'.yesterday = run.yesterday /\ run'.last = run.last
          /\ run'.after = run.after /\ run'.start = run.start /\ run'.recovery = run.recovery
      BY <1>1, <1>3, <2>2, Typed DEF ChainInv, RunRecord, PCs
    <3>2. StateOK' /\ Records' /\ Progress' /\ Lasting' /\ (Agrees' <=> Agrees)
      BY <1>1, <1>4, <2>2, <3>1, RewriteGoesOn
    <3>3. Fetches'
      BY <1>1, <1>3, <1>4, <2>2, <3>1, FetchesMore DEF ChainInv, Given
    <3>4. Readable'
      <4>1. run'.day \in Day /\ SensorData(run'.day)
        BY <1>2, <2>2, <3>1
      <4>2. site'.since = site.since /\ site'.upgraded = site.upgraded
        BY <1>1
      <4>3. run'.cache[run'.day] # Unfetched /\ ~Empty(run'.cache[run'.day])
        BY <1>1, <1>3, <1>9, <3>1
      <4> QED
        BY <4>1, <4>2, <4>3 DEF Readable, SensorData
    <3>5. /\ Agrees' \/ (run'.after = "walk" /\ LastRow' = run'.start)
          /\ run'.after = "start" => run'.recovery = NoDay
          /\ run'.after = "walk" =>
               /\ run'.start = chain'.marker + 1 /\ run'.start >= Boundary'
               /\ Flows' /\ run'.day >= Boundary'
          /\ run'.rewriting /\ run'.day > 0 /\ run'.last <= chain'.marker
          /\ chain'.marker # NoDay /\ run'.day <= run'.last
      BY <1>1, <1>2, <1>4, <1>5, <2>2, <3>1, <3>2
    <3>6. /\ chain'.status[run'.day] \in {"imported", "sensor"}
          /\ chain'.status[run'.day] = "sensor" => chain'.rewrite.retry
      BY <1>4, <1>7, <1>9, <2>2, <3>1 DEF Rewritten, Given
    <3>7. Control'
      BY <3>1, <3>4, <3>5, <3>6
         DEF Control, BeforeGuard, AfterGuard, Walks, Rewrites, Rewriting, At, Given
    <3> QED
      BY <3>2, <3>3, <3>7 DEF ChainInv
  <2>3. CASE /\ chain' = ChainMarkSkipped(saved, day, day, "sensor")
             /\ run' = [run EXCEPT !.cache = cache, !.day = day + 1]
    <3> HIDE DEF saved
    <3> DEFINE n == ChainMarkSkipped(saved, day, day, "sensor")
    <3>1. /\ n \in ChainRecord /\ n.marker = Later(saved.marker, day)
          /\ n.lastWritten = saved.lastWritten /\ n.rewrite = saved.rewrite
          /\ \A d \in Day : n.status[d] = IF d = day /\ saved.status[d] # "imported"
                                          THEN "sensor" ELSE saved.status[d]
      <4> HIDE DEF day
      <4>1. saved \in ChainRecord /\ day \in Day /\ "sensor" \in ChainSkipped
        BY <1>2, <1>4 DEF ChainSkipped
      <4> QED
        BY <4>1, OneDaySkipped
    <3>2. n.marker = chain.marker
      BY <1>2, <1>4, <3>1, Numbers DEF Later
    <3>3. \A d \in Day : n.status[d] = chain.status[d]
      BY <1>4, <1>7, <1>9, <3>1 DEF Given
    <3>4. chain' = n
      BY <2>3
    <3> HIDE DEF n
    <3>5. /\ run' \in RunRecord /\ run'.pc = "rewrite" /\ run'.day = day + 1
          /\ run'.rewriting = run.rewriting
          /\ run'.cache = cache /\ run'.yesterday = run.yesterday /\ run'.last = run.last
          /\ run'.after = run.after /\ run'.start = run.start /\ run'.recovery = run.recovery
      <4>1. day + 1 \in 0..(MaxDay + 1)
        BY <1>2, Constants DEF Day
      <4> QED
        BY <1>1, <1>3, <2>3, <4>1, Typed DEF ChainInv, RunRecord
    <3>6. StateOK' /\ Records' /\ Progress' /\ Lasting' /\ (Agrees' <=> Agrees)
      BY <1>1, <1>4, <3>1, <3>2, <3>3, <3>4, <3>5, RewriteGoesOn
    <3>7. Fetches'
      BY <1>1, <1>3, <3>3, <3>4, <3>5, FetchesMore DEF ChainInv, Given
    <3>8. /\ Agrees' \/ (run'.after = "walk" /\ LastRow' = run'.start)
          /\ run'.after = "start" => run'.recovery = NoDay
          /\ run'.after = "walk" =>
               /\ run'.start = chain'.marker + 1 /\ run'.start >= Boundary'
               /\ Flows' /\ run'.day >= Boundary'
          /\ run'.rewriting /\ run'.day > 0 /\ run'.last <= chain'.marker
          /\ chain'.marker # NoDay
      BY <1>2, <1>5, <3>2, <3>4, <3>5, <3>6
    <3>9. Control'
      BY <3>5, <3>8 DEF Control, BeforeGuard, AfterGuard, Walks, Rewrites, Rewriting, At
    <3> QED
      BY <3>6, <3>7, <3>9 DEF ChainInv
  <2> QED
    BY <2>1, <2>2, <2>3
<1> QED
  BY <1>6, <1>8, <1>9

LEMMA RewriteDoneKeeps ==
  ASSUME ChainInv, RewriteDone
  PROVE  ChainInv'
<1> DEFINE day == IF run.after = "walk" THEN run.start ELSE run.day
<1>1. /\ run.pc = "rewrite" /\ UNCHANGED <<today, amber, site, store, written, rows, left>>
      /\ chain' = EndRewrite(chain)
      /\ run' = [run EXCEPT !.pc = run.after, !.rewriting = FALSE, !.day = day]
  BY DEF RewriteDone, setup, usage, At
<1>2. /\ chain.marker # NoDay
      /\ Agrees \/ (run.after = "walk" /\ LastRow = run.start)
      /\ run.after = "start" => run.recovery = NoDay
      /\ run.after = "walk" => run.start = chain.marker + 1 /\ run.start >= Boundary
  BY <1>1, AtTheRewrite
<1>3. /\ chain' \in ChainRecord /\ chain'.marker = chain.marker
      /\ chain'.lastWritten = chain.lastWritten /\ chain'.status = chain.status
      /\ chain'.rewrite = NoRewrite
  BY <1>1, EndRewriteFields, Typed DEF ChainInv
<1>4. run.after \in {"checked", "start", "walk"} /\ day \in 0..(MaxDay + 1)
  BY Typed DEF ChainInv, RunRecord
<1>5. run.after = "walk" => day = run.start
  OBVIOUS
<1> HIDE DEF day
<1>6. /\ run' \in RunRecord /\ run'.pc = run.after /\ run'.day = day /\ ~run'.rewriting
      /\ run'.cache = run.cache /\ run'.yesterday = run.yesterday
      /\ run'.recovery = run.recovery
  BY <1>1, <1>4, Typed DEF ChainInv, RunRecord, PCs
<1>7. StateOK'
  BY <1>1, <1>3, <1>6 DEF ChainInv, StateOK
<1>8. Records' /\ (Agrees' <=> Agrees) /\ (Interrupted' <=> Interrupted)
  BY <1>1, <1>3, RecordsSame DEF ChainInv
<1>9. Progress'
  BY <1>3 DEF Progress
<1>10. Lasting'
  BY <1>1, <1>3, LastingSame DEF ChainInv, Given
<1>11. Fetches'
  <2>1. Agrees => ~Interrupted
    BY Numbers DEF Agrees, Interrupted
  <2>2. ~(run'.pc \in {"revisions", "checked", "usage"} /\ Interrupted')
    BY <1>2, <1>4, <1>6, <1>8, <2>1
  <2>3. run'.pc # "idle"
    BY <1>4, <1>6
  <2> QED
    BY <1>1, <1>3, <1>6, <2>2, <2>3, FetchesSame DEF ChainInv, Given
<1>12. Control'
  <2>1. LastRow' = LastRow /\ Boundary' = Boundary
    BY <1>1, SameRows DEF Boundary
  <2>2. /\ run.after = "checked" => Agrees'
        /\ run.after = "start" => run'.recovery = NoDay /\ Agrees'
        /\ run.after = "walk" => /\ run'.day >= Boundary' /\ run'.day = chain'.marker + 1
                                 /\ Agrees' \/ LastRow' = run'.day
    BY <1>2, <1>3, <1>5, <1>6, <1>8, <2>1
  <2> QED
    BY <1>3, <1>4, <1>6, <2>2
       DEF Control, BeforeGuard, AfterGuard, NextDay, Walks, Rewrites, Rewriting, At
<1> QED
  BY <1>7, <1>8, <1>9, <1>10, <1>11, <1>12 DEF ChainInv

-----------------------------------------------------------------------------
(* Every step *)

LEMMA ReviseKeeps ==
  ASSUME ChainInv, Revise \/ UsageStep
  PROVE  ChainInv'
BY CheckRevisionsKeeps, RewriteAfterRevisionKeeps, RevisionsCheckedKeeps,
   ImportUsageDayKeeps, SkipUnavailableUsageKeeps, UsageDoneKeeps DEF Revise, UsageStep

LEMMA ChainStepKeeps ==
  ASSUME ChainInv, ChainStep
  PROVE  ChainInv'
<1>1. CASE GuardAdopts \/ GuardAccepts \/ GuardEnds
  BY <1>1, GuardAdoptsKeeps, GuardAcceptsKeeps, GuardEndsKeeps
<1>2. CASE ResumeRewrite \/ ChainFirstDay \/ ChainReady
  BY <1>2, ResumeRewriteKeeps, ChainFirstDayKeeps, ChainReadyKeeps
<1>3. CASE WalkEmpty \/ WalkDay \/ WalkDone
  BY <1>3, WalkEmptyKeeps, WalkDayKeeps, WalkDoneKeeps
<1>4. CASE WriteRows \/ MarkDayWritten \/ TrackDay
  BY <1>4, WriteRowsKeeps, MarkDayWrittenKeeps, TrackDayKeeps
<1>5. CASE RewriteDay \/ RewriteDone
  BY <1>5, RewriteDayKeeps, RewriteDoneKeeps
<1> QED
  BY <1>1, <1>2, <1>3, <1>4, <1>5 DEF ChainStep

LEMMA NextKeeps ==
  ASSUME ChainInv, Next, RecoveryKept'
  PROVE  ChainInv'
<1>1. CASE StartRun \/ RunStep
  BY <1>1, StartKeeps, ReviseKeeps, ChainStepKeeps DEF RunStep
<1>2. CASE Environment
  BY <1>2, TickKeeps, PublishKeeps, CrashKeeps DEF Environment
<1>3. CASE User
  BY <1>3, RemoveKeeps, SetupKeeps DEF User
<1> QED
  BY <1>1, <1>2, <1>3 DEF Next

LEMMA StutterKeeps ==
  ASSUME ChainInv, UNCHANGED vars
  PROVE  ChainInv'
<1>1. UNCHANGED <<today, amber, site, store, written, chain, rows, run, left>>
  BY DEF vars, setup, usage
<1>2. StateOK' /\ Progress' /\ Lasting' /\ Records'
  BY <1>1 DEF ChainInv, StateOK, Records, Progress, Lasting, HasRow, Given, SensorData,
              InRevisionSet
<1>3. /\ LastRow' = LastRow /\ Boundary' = Boundary /\ (RevisionWaits' <=> RevisionWaits)
      /\ (Flows' <=> Flows) /\ (Interrupted' <=> Interrupted)
      /\ \A d \in Day : Usage(d)' = Usage(d)
  BY <1>1, SameRows
     DEF Boundary, RevisionWaits, RevisionDaysOf, InRevisionSet, Flows, Interrupted, Usage
<1>4. Fetches'
  BY <1>1, <1>3 DEF ChainInv, Fetches, At, Given, HasRow
<1>5. Explained' <=> Explained
  BY <1>1, <1>3 DEF Explained
<1>6. BeforeGuard' /\ AfterGuard'
  BY <1>1, <1>3, <1>5 DEF ChainInv, Control, BeforeGuard, AfterGuard, Agrees, NextDay, At
<1>7. Readable' <=> Readable
  BY <1>1 DEF Readable, SensorData
<1>8. Walks'
  BY <1>1, <1>3, <1>7 DEF ChainInv, Control, Walks, Agrees, NextDay, At
<1>9. Rewrites'
  BY <1>1, <1>3, <1>7 DEF ChainInv, Control, Rewrites, Rewriting, Agrees, Given, HasRow, At
<1> QED
  BY <1>2, <1>4, <1>6, <1>8, <1>9 DEF ChainInv, Control

-----------------------------------------------------------------------------
(* What is proved *)

\* What is lost stays lost.
LEMMA LapsesGrow ==
  ASSUME [Next]_vars
  PROVE  lapses \subseteq lapses' /\ lapses' \subseteq lapses \cup {"recovery", "revision"}
<1>1. CASE UNCHANGED vars
  BY <1>1 DEF vars, setup
<1>2. CASE StartRun \/ RunStep
  <2>1. UNCHANGED setup
    BY <1>2 DEF StartRun, RunStep, Revise, UsageStep, ChainStep, CheckRevisions,
       RewriteAfterRevision, RevisionsChecked, ImportUsageDay, SkipUnavailableUsage, UsageDone,
       GuardAdopts, GuardAccepts, GuardEnds, ResumeRewrite, ChainFirstDay, ChainReady,
       WalkEmpty, WalkDay, WalkDone, WriteRows, MarkDayWritten, TrackDay, RewriteDay, RewriteDone
  <2> QED
    BY <2>1 DEF setup
<1>3. CASE Environment
  BY <1>3 DEF Environment, Tick, Publish, Crash, Lapse
<1>4. CASE User
  BY <1>4 DEF User, RemoveMapping, AddMapping, ToggleFlows, Upgrade
<1> QED
  BY <1>1, <1>2, <1>3, <1>4 DEF Next

\* In every behaviour the inductive invariant holds for as long as no recovery is lost.
LEMMA ChainAlways == Spec => [](RecoveryKept => ChainInv)
<1>1. Init => ChainInv
  BY ChainInit
<1>2. (RecoveryKept => ChainInv) /\ [Next]_vars => (RecoveryKept => ChainInv)'
  BY NextKeeps, StutterKeeps, LapsesGrow DEF RecoveryKept
<1> QED
  BY <1>1, <1>2, PTL DEF Spec

\* Amber, the calendar and the stops are free to do what they can; as long as none of them has
\* lost the recovery of an interrupted append, a chain's guard (_async_chain_guard of
\* manager.py) stops no run: the marker is not before the last written day, each day between
\* them was skipped, and the last row is the last written day's or that of the pending day.
THEOREM ChainIsNeverLockedOut == Spec => []ChainNeverLocksOut
<1>1. ASSUME ChainInv, run.pc = "guard", ~Adoptable
      PROVE  ~ChainGuardStops
  <2>1. ~ChainMarkerProblem
    <3>1. ~(chain.marker < chain.lastWritten)
      BY <1>1, Numbers
    <3>2. ASSUME NEW d \in (chain.lastWritten + 1)..chain.marker, chain.lastWritten # NoDay
          PROVE  chain.status[d] \in ChainSkipped
      <4>1. chain.lastWritten < d /\ d <= chain.marker /\ d \in Day
        <5>1. chain.marker \in 0..MaxDay /\ chain.lastWritten \in Nat
          BY <1>1, Typed, Numbers, Constants DEF ChainInv, Day
        <5> QED
          BY <3>2, <5>1, Constants DEF Day
      <4>2. chain.status[d] # "none"
        BY <1>1, <3>2, <4>1 DEF ChainInv, Records
      <4>3. chain.status[d] # "imported"
        <5>1. d \in Nat /\ chain.lastWritten \in Nat
          BY <1>1, <4>1, Numbers, Constants
        <5>2. chain.status[d] = "imported" => d <= chain.lastWritten
          BY <1>1, <4>1 DEF ChainInv, Records
        <5> QED
          BY <4>1, <5>1, <5>2
      <4>4. chain.status[d] \in ChainStatus
        BY <1>1, <4>1, Typed DEF ChainInv
      <4> QED
        BY <4>2, <4>3, <4>4 DEF ChainStatus
    <3> QED
      BY <3>1, <3>2 DEF ChainMarkerProblem
  <2>2. chain.marker = NoDay \/ Agrees \/ Explained
    BY <1>1 DEF ChainInv, Control, BeforeGuard
  <2>3. chain.marker = NoDay => Agrees
    BY <1>1, Numbers DEF Adoptable, Agrees
  <2>4. Explained => ChainPendingExplains
    BY <1>1, Numbers DEF Explained, ChainPendingExplains
  <2> QED
    BY <2>1, <2>2, <2>3, <2>4 DEF ChainGuardStops, ChainAgrees, Agrees
<1>2. (RecoveryKept => ChainInv) => ChainNeverLocksOut
  BY <1>1 DEF ChainNeverLocksOut, RecoveryKept, ChainGuardStops, At
<1> QED
  BY <1>2, ChainAlways, PTL

-----------------------------------------------------------------------------
(* The history of a chain, whatever was lost *)

\* The day a run means to recover is the one after the marker.
RecoversNext ==
  run.recovery = NoDay \/ chain.marker = NoDay \/ run.recovery = chain.marker + 1

\* A rewrite replaces days that are behind the marker and were imported, or are retried.
Replaces ==
  /\ run.rewriting /\ run.day > 0 /\ run.last <= chain.marker /\ chain.marker # NoDay
  /\ ~At("rewrite") => run.day <= run.last /\ Given(run.day)
  /\ run.pc \in {"rows", "mark"} /\ chain.status[run.day] = "sensor" => chain.rewrite.retry
  /\ run.after = "start" => RecoversNext
  /\ run.after = "walk" => run.start = chain.marker + 1

\* What a run does next: it resolves the day after the marker, or replaces days behind it.
Resolves ==
  /\ ~At("idle") => run.yesterday = today - 1
  /\ At("revised") => run.day \in Day
  /\ run.pc \in {"resume", "start"} => RecoversNext
  /\ run.pc \in {"ready", "walk"} \/ (run.pc \in {"rows", "mark"} /\ ~run.rewriting) =>
       run.day > 0 /\ NextDay
  /\ run.pc \in {"rows", "mark", "track"} => run.day \in Day
  /\ At("track") /\ ~run.rewriting => chain.marker = run.day
  /\ Rewriting => Replaces

Passed == \A d \in Day : chain.status[d] # "none" => d <= chain.marker

HistInv == StateOK /\ Progress /\ chain.lastWritten <= chain.marker /\ Passed /\ Resolves

\* What a step keeps of a chain's history.
HistoryKept ==
  /\ chain'.marker >= chain.marker
  /\ \A d \in Day :
       /\ d <= chain.marker /\ chain.status[d] = "none" => chain'.status[d] = "none"
       /\ chain.status[d] = "imported" => chain'.status[d] = "imported"
       /\ chain.status[d] # chain'.status[d] /\ chain.status[d] # "none" =>
            chain.status[d] = "sensor" /\ chain.rewrite.retry

LEMMA HistNumbers ==
  ASSUME StateOK
  PROVE  /\ chain.marker \in Nat /\ chain.marker \in 0..MaxDay /\ chain.lastWritten \in Nat
         /\ chain.lastWritten \in 0..MaxDay /\ NoDay = 0 /\ today \in Nat /\ today > 0
         /\ Boundary \in Nat /\ Boundary > 0 /\ run.day \in Nat /\ run.day \in 0..(MaxDay + 1)
         /\ run.last \in 0..MaxDay /\ run.start \in 0..(MaxDay + 1)
         /\ run.recovery \in 0..MaxDay
         /\ run.yesterday \in 0..MaxDay /\ today - 1 \in 0..MaxDay
         /\ chain.rewrite.next \in 0..MaxDay /\ chain.rewrite.to \in 0..MaxDay
<1>1. /\ chain.marker \in Day \cup {NoDay} /\ chain.lastWritten \in Day \cup {NoDay}
      /\ run \in RunRecord /\ chain.rewrite \in [next : 0..MaxDay, to : 0..MaxDay, retry : BOOLEAN]
      /\ today \in Date
  BY Typed
<1>2. \A d \in Day \cup {NoDay} : d \in 0..MaxDay
  BY Constants DEF Day
<1>3. /\ run.day \in 0..(MaxDay + 1) /\ run.last \in 0..MaxDay /\ run.start \in 0..(MaxDay + 1)
      /\ run.recovery \in Day \cup {NoDay} /\ run.yesterday \in 0..MaxDay
  BY <1>1 DEF RunRecord
<1>4. Boundary \in Nat /\ Boundary > 0 /\ today \in Nat /\ today > 0 /\ today - 1 \in 0..MaxDay
  BY <1>1, BoundaryType, YesterdayType, Constants DEF Date
<1>5. chain.marker \in 0..MaxDay /\ chain.lastWritten \in 0..MaxDay /\ run.recovery \in 0..MaxDay
  BY <1>1, <1>2, <1>3
<1>6. chain.rewrite.next \in 0..MaxDay /\ chain.rewrite.to \in 0..MaxDay
  BY <1>1
<1>7. chain.marker \in Nat /\ chain.lastWritten \in Nat /\ run.day \in Nat
  BY <1>3, <1>5, Constants
<1> QED
  BY <1>3, <1>4, <1>5, <1>6, <1>7, Constants

\* A step that leaves the chain's days as they are.
LEMMA HistAlike ==
  ASSUME HistInv, StateOK', chain'.marker = chain.marker,
         chain'.lastWritten = chain.lastWritten, chain'.rewrite = chain.rewrite,
         \A d \in Day : chain'.status[d] = chain.status[d], Resolves'
  PROVE  HistInv' /\ HistoryKept
<1>1. Progress' /\ Passed'
  BY DEF HistInv, Progress, Passed
<1>2. HistoryKept
  BY HistNumbers DEF HistInv, HistoryKept
<1> QED
  BY <1>1, <1>2 DEF HistInv

\* A step to a place where nothing is under way.
LEMMA HistQuiet ==
  ASSUME HistInv, StateOK', chain' = chain,
         run'.pc \in {"idle", "revisions", "checked", "usage", "guard"},
         run'.pc = "idle" \/ run'.yesterday = today' - 1
  PROVE  HistInv' /\ HistoryKept
<1>1. Resolves'
  BY DEF Resolves, Rewriting, At
<1> QED
  BY <1>1, HistAlike

\* A run that ends.
LEMMA HistEnds ==
  ASSUME HistInv, EndRun, UNCHANGED <<today, amber, site, written, chain, rows>>,
         store' \in StoreRecord, left' \in [{"crash", "revise", "remove", "toggle"} -> Nat]
  PROVE  HistInv' /\ HistoryKept
<1>1. run' \in RunRecord /\ run'.pc = "idle"
  BY IdleFields DEF EndRun
<1>2. StateOK'
  BY <1>1 DEF HistInv, StateOK
<1> QED
  BY <1>1, <1>2, HistQuiet

\* Amber, the calendar, the stops and the user.
LEMMA EnvironmentHist ==
  ASSUME HistInv, StartRun \/ Environment \/ AddMapping \/ ToggleFlows \/ Upgrade
  PROVE  HistInv' /\ HistoryKept
<1>0. /\ today \in Date /\ amber \in [Day -> Answer] /\ store \in StoreRecord /\ run \in RunRecord
      /\ left \in [{"crash", "revise", "remove", "toggle"} -> Nat]
      /\ site \in [mapped : BOOLEAN, since : SensorFrom, flows : BOOLEAN, upgraded : BOOLEAN,
                   mode : Modes]
      /\ \A event \in {"crash", "revise", "remove", "toggle"} : Spend(event) =>
           left' \in [{"crash", "revise", "remove", "toggle"} -> Nat]
  BY DEF HistInv, StateOK, Spend
<1>1. CASE StartRun
  <2> DEFINE pc == IF store.checked = today THEN "usage" ELSE "revisions"
  <2>1. /\ UNCHANGED <<today, amber, site, store, written, chain, rows, left>>
        /\ run' = [Idle EXCEPT !.pc = pc, !.yesterday = today - 1]
    BY <1>1 DEF StartRun, setup, usage
  <2>2. pc \in {"usage", "revisions"}
    OBVIOUS
  <2> HIDE DEF pc
  <2>3. run' \in RunRecord /\ run'.pc = pc /\ run'.yesterday = today - 1
    BY <2>1, <2>2, IdleFields, YesterdayType DEF HistInv, RunRecord, PCs
  <2>4. StateOK'
    BY <2>1, <2>3 DEF HistInv, StateOK
  <2> QED
    BY <2>1, <2>2, <2>3, <2>4, HistQuiet
<1>2. CASE Tick
  <2>1. /\ today' = today + 1 /\ today <= MaxDay /\ run.pc = "idle"
        /\ UNCHANGED <<amber, site, store, written, chain, rows, run, left>>
    BY <1>2 DEF Tick, usage, At
  <2>2. StateOK'
    BY <1>0, <2>1, Constants DEF HistInv, StateOK, Date
  <2> QED
    BY <2>1, <2>2, HistQuiet
<1>3. ASSUME NEW day \in Day, Publish(day)
      PROVE  HistInv' /\ HistoryKept
  <2>1. PICK a \in Answer : /\ amber' = [amber EXCEPT ![day] = a]
                            /\ UNCHANGED left \/ Spend("revise")
    BY <1>3 DEF Publish
  <2>2. /\ run.pc \in {"idle", "guard"}
        /\ UNCHANGED <<today, site, store, written, chain, rows, run>>
    BY <1>3 DEF Publish, usage
  <2>3. StateOK'
    BY <1>0, <2>1, <2>2 DEF HistInv, StateOK
  <2> QED
    BY <2>2, <2>3, HistQuiet DEF HistInv, Resolves, At
<1>4. CASE Crash
  BY <1>0, <1>4, HistEnds DEF Crash, usage
<1>5. CASE AddMapping \/ ToggleFlows \/ Upgrade
  <2>1. /\ run.pc = "idle" /\ UNCHANGED <<today, amber, store, written, chain, rows, run>>
        /\ UNCHANGED left \/ Spend("toggle")
    BY <1>5 DEF AddMapping, ToggleFlows, Upgrade, usage, At
  <2>2. site' \in [mapped : BOOLEAN, since : SensorFrom, flows : BOOLEAN, upgraded : BOOLEAN,
                   mode : Modes]
    BY <1>0, <1>5 DEF AddMapping, ToggleFlows, Upgrade
  <2>3. StateOK'
    BY <1>0, <2>1, <2>2 DEF HistInv, StateOK
  <2> QED
    BY <2>1, <2>3, HistQuiet
<1> QED
  BY <1>1, <1>2, <1>3, <1>4, <1>5 DEF Environment

\* Removing the mapping forgets the history.
LEMMA RemoveHist ==
  ASSUME HistInv, RemoveMapping
  PROVE  HistInv' /\ ~site'.mapped
<1>1. /\ UNCHANGED <<today, amber, store, written, rows, run>> /\ run.pc = "idle"
      /\ chain' = NewChain /\ site' = [site EXCEPT !.mapped = FALSE] /\ Spend("remove")
  BY DEF RemoveMapping, usage, At
<1>2. /\ chain' \in ChainRecord /\ chain'.rewrite = NoRewrite
      /\ chain'.marker = NoDay /\ chain'.lastWritten = NoDay
      /\ \A d \in Day : chain'.status[d] = "none"
  BY <1>1, NewChainFields
<1>3. /\ left' \in [{"crash", "revise", "remove", "toggle"} -> Nat] /\ ~site'.mapped
      /\ site' \in [mapped : BOOLEAN, since : SensorFrom, flows : BOOLEAN, upgraded : BOOLEAN,
                    mode : Modes]
  <2>1. /\ left \in [{"crash", "revise", "remove", "toggle"} -> Nat]
        /\ site \in [mapped : BOOLEAN, since : SensorFrom, flows : BOOLEAN, upgraded : BOOLEAN,
                     mode : Modes]
    BY DEF HistInv, StateOK
  <2>2. left' = [left EXCEPT !["remove"] = left["remove"] - 1] /\ left["remove"] > 0
    BY <1>1 DEF Spend
  <2>3. left' \in [{"crash", "revise", "remove", "toggle"} -> Nat]
    BY <2>1, <2>2
  <2> QED
    BY <1>1, <2>1, <2>3
<1>4. StateOK'
  BY <1>1, <1>2, <1>3 DEF HistInv, StateOK
<1>5. chain'.lastWritten <= chain'.marker
  BY <1>2, Constants
<1>6. Resolves'
  BY <1>1 DEF Resolves, Rewriting, At
<1> QED
  BY <1>2, <1>3, <1>4, <1>5, <1>6 DEF HistInv, Progress, Passed

\* The revision check.
LEMMA ReviseHist ==
  ASSUME HistInv, Revise
  PROVE  HistInv' /\ HistoryKept
<1>0. /\ today \in Date /\ store \in StoreRecord /\ run \in RunRecord /\ chain \in ChainRecord
      /\ run.cache \in [Day -> Answer \cup {Unfetched}] /\ written \in [Day -> Amount \cup {0}]
  BY Typed DEF HistInv, StateOK
<1>1. CASE CheckRevisions
  <2> DEFINE days    == RevisionDaysOf(store)
             cache   == IF days = {} THEN run.cache ELSE Fetch(MinOf(days), run.yesterday)
             changed == {d \in days : Changed(cache, d)}
             final   == {d \in days : Final(cache, d)}
             pc      == IF changed = {} THEN "checked" ELSE "revised"
  <2>1. /\ run.pc = "revisions" /\ UNCHANGED <<today, amber, site, written, chain, rows, left>>
        /\ store' = DropRevisions(store, final)
        /\ run' = [run EXCEPT !.cache = cache, !.day = MinOf(changed), !.pc = pc]
    BY <1>1 DEF CheckRevisions, setup, At
  <2>2. cache \in [Day -> Answer \cup {Unfetched}]
    BY <1>0, FetchIs DEF HistInv
  <2>3. changed \in SUBSET Day
    BY DEF RevisionDaysOf
  <2> HIDE DEF cache, changed, final
  <2>4. MinOf(changed) \in Day \cup {NoDay} /\ (changed # {} => MinOf(changed) \in Day)
    BY <2>3, MinOfDays
  <2>5. MinOf(changed) \in 0..(MaxDay + 1)
    BY <2>4, Constants DEF Day
  <2>6. pc \in {"checked", "revised"} /\ (pc = "revised" <=> changed # {})
    OBVIOUS
  <2> HIDE DEF pc
  <2>7. /\ run' \in RunRecord /\ run'.pc = pc /\ run'.day = MinOf(changed)
        /\ run'.yesterday = run.yesterday
    BY <1>0, <2>1, <2>2, <2>5, <2>6 DEF RunRecord, PCs
  <2>8. StateOK'
    BY <1>0, <2>1, <2>7, DropRevisionsType DEF HistInv, StateOK
  <2>9. Resolves'
    BY <2>1, <2>4, <2>6, <2>7 DEF HistInv, Resolves, Rewriting, At
  <2> QED
    BY <2>1, <2>8, <2>9, HistAlike
<1>2. CASE RevisionsChecked
  <2>1. /\ run.pc = "checked" /\ UNCHANGED <<today, amber, site, written, chain, rows, left>>
        /\ store' = SetChecked(store, today) /\ run' = [run EXCEPT !.pc = "usage"]
    BY <1>2 DEF RevisionsChecked, setup, At, Goto
  <2>2. run' \in RunRecord /\ run'.pc = "usage" /\ run'.yesterday = run.yesterday
    BY <1>0, <2>1 DEF RunRecord, PCs
  <2>3. StateOK'
    BY <1>0, <2>1, <2>2, SetCheckedType DEF HistInv, StateOK
  <2> QED
    BY <2>1, <2>2, <2>3, HistQuiet DEF HistInv, Resolves, At
<1>3. CASE RewriteAfterRevision
  <2>1. /\ run.pc = "revised" /\ UNCHANGED <<today, amber, site, chain, rows, left>>
        /\ run.day \in Day /\ run.yesterday = today - 1
    BY <1>3 DEF RewriteAfterRevision, setup, HistInv, Resolves, At
  <2>2. store' \in StoreRecord /\ written' \in [Day -> Amount \cup {0}]
    <3>1. CASE site.mode = "full"
      <4>1. \A d \in Day : run.cache[d].amount \in Amount \cup {0}
        BY <1>0, Amounts
      <4>2. written' = [d \in Day |-> IF d >= run.day /\ store.status[d] = "imported"
                                      THEN run.cache[d].amount ELSE written[d]]
            /\ store' = UsageRewritten
        BY <1>3, <3>1 DEF RewriteAfterRevision
      <4> QED
        BY <1>0, <4>1, <4>2, UsageRewrittenIs DEF HistInv
    <3>2. CASE site.mode # "full"
      BY <1>0, <1>3, <3>2 DEF RewriteAfterRevision, usage
    <3> QED
      BY <3>1, <3>2
  <2>3. CASE site.mapped /\ ChainRewriteDue
    <3>1. RewriteLast \in 0..MaxDay /\ RewriteLast <= chain.marker /\ chain.marker # NoDay
      BY <2>3, HistNumbers DEF HistInv, Progress, RewriteLast, ChainRewriteDue
    <3>2. run' = [run EXCEPT !.pc = "rewrite", !.day = run.day, !.last = RewriteLast,
                             !.rewriting = TRUE, !.after = "checked"]
      BY <1>3, <2>3 DEF RewriteAfterRevision, BeginRewrite
    <3>3. /\ run' \in RunRecord /\ run'.pc = "rewrite"
          /\ run'.day = run.day /\ run'.last = RewriteLast
          /\ run'.rewriting /\ run'.after = "checked" /\ run'.yesterday = run.yesterday
      BY <1>0, <3>1, <3>2 DEF RunRecord, PCs
    <3>4. StateOK'
      BY <2>1, <2>2, <3>3 DEF HistInv, StateOK
    <3>5. run'.day > 0
      BY <2>1, <3>3, Constants DEF Day
    <3>6. Resolves'
      BY <2>1, <3>1, <3>3, <3>5 DEF Resolves, Replaces, Rewriting, At
    <3> QED
      BY <2>1, <3>4, <3>6, HistAlike
  <2>4. CASE ~(site.mapped /\ ChainRewriteDue)
    <3>1. run' = [run EXCEPT !.pc = "checked"]
      BY <1>3, <2>4 DEF RewriteAfterRevision, Goto
    <3>2. run' \in RunRecord /\ run'.pc = "checked" /\ run'.yesterday = run.yesterday
      BY <1>0, <3>1 DEF RunRecord, PCs
    <3>3. StateOK'
      BY <2>1, <2>2, <3>2 DEF HistInv, StateOK
    <3> QED
      BY <2>1, <3>2, <3>3, HistQuiet
  <2> QED
    BY <2>3, <2>4
<1> QED
  BY <1>1, <1>2, <1>3 DEF Revise

\* The usage chain's days.
LEMMA UsageHist ==
  ASSUME HistInv, UsageStep
  PROVE  HistInv' /\ HistoryKept
<1>0. /\ today \in Date /\ store \in StoreRecord /\ run \in RunRecord /\ chain \in ChainRecord
      /\ written \in [Day -> Amount \cup {0}]
      /\ left \in [{"crash", "revise", "remove", "toggle"} -> Nat]
  BY Typed DEF HistInv, StateOK
<1>1. run.pc = "usage" /\ run.yesterday = today - 1 /\ UNCHANGED <<today, amber, site, chain, rows, left>>
  BY DEF UsageStep, ImportUsageDay, SkipUnavailableUsage, UsageDone, setup, HistInv, Resolves, At
<1>2. ASSUME store' \in StoreRecord, written' \in [Day -> Amount \cup {0}], run' \in RunRecord,
             run'.pc \in {"usage", "guard"}, run'.yesterday = run.yesterday
      PROVE  HistInv' /\ HistoryKept
  <2>1. StateOK'
    BY <1>1, <1>2 DEF HistInv, StateOK
  <2> QED
    BY <1>1, <1>2, <2>1, HistQuiet
<1>3. CASE ImportUsageDay
  <2> DEFINE day   == NextUsageDay
             cache == CacheWith(day, run.yesterday)
             noted == NoteEmpty(store, day, today)
  <2>1. day \in Day /\ run.yesterday \in 0..MaxDay
    BY <1>1, <1>3, NextUsageDayIs DEF ImportUsageDay, HistInv
  <2>2. cache \in [Day -> Answer \cup {Unfetched}] /\ cache[day] \in Answer
    BY <2>1, CacheWithIs DEF HistInv
  <2>3. noted \in StoreRecord
    BY <1>0, <2>1, NoteEmptyType
  <2>4. MarkSkipped(noted, day, day, "gap") \in StoreRecord
    BY <2>1, <2>3, MarkSkippedType DEF Skipped
  <2>5. Track(MarkImported(store, day), day, cache[day]) \in StoreRecord
    <3>1. MarkImported(store, day) \in StoreRecord
      BY <1>0, <2>1, MarkImportedType
    <3> QED
      BY <2>1, <2>2, <3>1, TrackIs DEF HistInv
  <2>6. cache[day].amount \in Amount \cup {0}
    BY <2>2, Amounts
  <2>7. /\ \/ /\ store' = Track(MarkImported(store, day), day, cache[day])
              /\ written' = [written EXCEPT ![day] = cache[day].amount]
           \/ store' \in {noted, MarkSkipped(noted, day, day, "gap")} /\ written' = written
        /\ \/ run' = [run EXCEPT !.cache = cache]
           \/ run' = [run EXCEPT !.cache = cache, !.pc = "guard"]
    BY <1>3 DEF ImportUsageDay
  <2> HIDE DEF cache, noted, day
  <2>8. store' \in StoreRecord /\ written' \in [Day -> Amount \cup {0}]
    BY <1>0, <2>1, <2>3, <2>4, <2>5, <2>6, <2>7
  <2>9. run' \in RunRecord /\ run'.pc \in {"usage", "guard"} /\ run'.yesterday = run.yesterday
    BY <1>0, <1>1, <2>2, <2>7 DEF RunRecord, PCs
  <2> QED
    BY <1>2, <2>8, <2>9
<1>4. CASE SkipUnavailableUsage
  <2> DEFINE last == Earlier(Boundary - 1, run.yesterday)
  <2>1. last \in Day \cup {NoDay}
    BY HistNumbers, Constants DEF HistInv, Earlier, Day
  <2>2. store' = MarkSkipped(store, NextUsageDay, last, "unavailable") /\ written' = written
        /\ run' = run
    BY <1>4 DEF SkipUnavailableUsage
  <2> HIDE DEF last
  <2>3. store' \in StoreRecord
    BY <1>0, <2>1, <2>2, MarkSkippedType DEF Skipped
  <2> QED
    BY <1>0, <1>1, <1>2, <2>2, <2>3
<1>5. CASE UsageDone
  <2>1. UNCHANGED <<store, written>>
        /\ (EndRun \/ run' = [run EXCEPT !.pc = "guard"])
    BY <1>5 DEF UsageDone, usage, Goto
  <2>2. CASE EndRun
    BY <1>0, <1>1, <2>1, <2>2, HistEnds
  <2>3. CASE run' = [run EXCEPT !.pc = "guard"]
    <3>1. run' \in RunRecord /\ run'.pc = "guard" /\ run'.yesterday = run.yesterday
      BY <1>0, <2>3 DEF RunRecord, PCs
    <3> QED
      BY <1>0, <1>2, <2>1, <3>1
  <2> QED
    BY <2>1, <2>2, <2>3
<1> QED
  BY <1>3, <1>4, <1>5 DEF UsageStep

\* The guard and the resumption of a rewrite.
LEMMA GuardHist ==
  ASSUME HistInv, GuardAdopts \/ GuardAccepts \/ GuardEnds \/ ResumeRewrite
  PROVE  HistInv' /\ HistoryKept
<1>0. /\ store \in StoreRecord /\ run \in RunRecord /\ chain \in ChainRecord
      /\ left \in [{"crash", "revise", "remove", "toggle"} -> Nat]
  BY Typed DEF HistInv, StateOK
<1>1. /\ run.pc \in {"guard", "resume"} /\ run.yesterday = today - 1
      /\ UNCHANGED <<today, amber, site, store, written, rows, left>>
  BY DEF GuardAdopts, GuardAccepts, GuardEnds, ResumeRewrite, setup, usage, HistInv, Resolves, At
<1>2. CASE GuardAdopts
  <2>1. /\ chain' = Adopt(chain, LastRow) /\ run' = [run EXCEPT !.pc = "resume", !.recovery = NoDay]
        /\ chain.marker = NoDay /\ LastRow # NoDay
    BY <1>2 DEF GuardAdopts, Adoptable
  <2>2. LastRow \in Day /\ LastRow \in Nat
    BY <2>1, LastRowIsLast, Constants
  <2>3. /\ chain' \in ChainRecord /\ chain'.marker = LastRow /\ chain'.lastWritten = LastRow
        /\ chain'.status = chain.status /\ chain'.rewrite = chain.rewrite
    BY <1>0, <2>1, <2>2, AdoptFields
  <2>4. \A d \in Day : chain.status[d] = "none"
    BY <2>1, Constants DEF HistInv, Passed, Day
  <2>5. chain.rewrite = NoRewrite
    <3>1. chain.rewrite # NoRewrite => chain.rewrite.next \in Day /\ chain.rewrite.next <= 0
      BY <2>1, HistNumbers DEF HistInv, Progress
    <3> QED
      BY <3>1 DEF Day
  <2>6. run' \in RunRecord /\ run'.pc = "resume" /\ run'.recovery = NoDay
        /\ run'.yesterday = run.yesterday
    BY <1>0, <2>1 DEF RunRecord, PCs
  <2>7. StateOK'
    BY <1>1, <2>3, <2>6 DEF HistInv, StateOK
  <2>8. Resolves'
    BY <1>1, <2>6 DEF Resolves, RecoversNext, Rewriting, At
  <2>9. Progress' /\ Passed' /\ chain'.lastWritten <= chain'.marker
    BY <2>2, <2>3, <2>4, <2>5 DEF Progress, Passed
  <2>10. HistoryKept
    BY <2>1, <2>2, <2>3, Constants DEF HistoryKept
  <2> QED
    BY <2>7, <2>8, <2>9, <2>10 DEF HistInv
<1>3. CASE GuardAccepts
  <2> DEFINE r == IF ChainAgrees THEN NoDay ELSE chain.pending
  <2>1. /\ chain' \in {chain, ChainSetPending(chain, NoDay)}
        /\ run' = [run EXCEPT !.pc = "resume", !.recovery = r]
        /\ ChainAgrees \/ ChainPendingExplains
    BY <1>3 DEF GuardAccepts, ChainGuardStops
  <2>2. r = NoDay \/ chain.marker = NoDay \/ r = chain.marker + 1
    BY <2>1 DEF ChainPendingExplains
  <2>3. r \in Day \cup {NoDay}
    BY <1>0 DEF ChainRecord
  <2> HIDE DEF r
  <2>4. run' \in RunRecord /\ run'.pc = "resume" /\ run'.recovery = r
        /\ run'.yesterday = run.yesterday
    BY <1>0, <2>1, <2>3 DEF RunRecord, PCs
  <2>5. /\ chain' \in ChainRecord
        /\ chain'.marker = chain.marker /\ chain'.lastWritten = chain.lastWritten
        /\ chain'.status = chain.status /\ chain'.rewrite = chain.rewrite
    BY <1>0, <2>1, SetPendingFields
  <2>6. StateOK'
    BY <1>1, <2>4, <2>5 DEF HistInv, StateOK
  <2>7. Resolves'
    BY <1>1, <2>2, <2>4, <2>5 DEF Resolves, RecoversNext, Rewriting, At
  <2> QED
    BY <2>5, <2>6, <2>7, HistAlike
<1>4. CASE GuardEnds
  BY <1>0, <1>1, <1>4, HistEnds DEF GuardEnds
<1>5. CASE ResumeRewrite
  <2>0. chain' = chain /\ run.pc = "resume" /\ RecoversNext
    BY <1>5 DEF ResumeRewrite, HistInv, Resolves, At
  <2>1. CASE chain.rewrite # NoRewrite /\ Flows
    <3>1. run' = [run EXCEPT !.pc = "rewrite", !.day = chain.rewrite.next,
                             !.last = chain.rewrite.to, !.rewriting = TRUE, !.after = "start"]
      BY <1>5, <2>1 DEF ResumeRewrite, BeginRewrite
    <3>2. /\ chain.rewrite.next \in Day /\ chain.rewrite.to \in 0..MaxDay
          /\ chain.rewrite.next <= chain.rewrite.to /\ chain.rewrite.to <= chain.marker
      BY <2>1, HistNumbers DEF HistInv, Progress
    <3>3. chain.rewrite.next \in 0..(MaxDay + 1) /\ chain.rewrite.next > 0 /\ chain.marker # NoDay
      BY <3>2, HistNumbers, Constants DEF HistInv, Day
    <3>4. /\ run' \in RunRecord /\ run'.pc = "rewrite" /\ run'.day = chain.rewrite.next
          /\ run'.last = chain.rewrite.to /\ run'.rewriting /\ run'.after = "start"
          /\ run'.recovery = run.recovery /\ run'.yesterday = run.yesterday
      BY <1>0, <3>1, <3>2, <3>3 DEF RunRecord, PCs
    <3>5. StateOK'
      BY <1>1, <2>0, <3>4 DEF HistInv, StateOK
    <3>6. Resolves'
      BY <1>1, <2>0, <3>2, <3>3, <3>4 DEF Resolves, Replaces, RecoversNext, Rewriting, At
    <3> QED
      BY <2>0, <3>5, <3>6, HistAlike
  <2>2. CASE ~(chain.rewrite # NoRewrite /\ Flows)
    <3>1. run' = [run EXCEPT !.pc = "start"]
      BY <1>5, <2>2 DEF ResumeRewrite, Goto
    <3>2. /\ run' \in RunRecord /\ run'.pc = "start" /\ run'.recovery = run.recovery
          /\ run'.yesterday = run.yesterday
      BY <1>0, <3>1 DEF RunRecord, PCs
    <3>3. StateOK'
      BY <1>1, <2>0, <3>2 DEF HistInv, StateOK
    <3>4. Resolves'
      BY <1>1, <2>0, <3>2 DEF Resolves, RecoversNext, Rewriting, At
    <3> QED
      BY <2>0, <3>3, <3>4, HistAlike
  <2> QED
    BY <2>1, <2>2
<1> QED
  BY <1>2, <1>3, <1>4, <1>5

\* Skipping the days after the marker, or the first days of all.
LEMMA SkippedHist ==
  ASSUME HistInv, NEW first \in Day, NEW last \in Day, first <= last,
         NEW how \in ChainSkipped, chain.marker = NoDay \/ first = chain.marker + 1,
         chain' = ChainMarkSkipped(chain, first, last, how)
  PROVE  /\ chain' \in ChainRecord /\ Progress' /\ chain'.lastWritten <= chain'.marker /\ Passed'
         /\ chain'.marker = last /\ chain'.rewrite = chain.rewrite
         /\ HistoryKept
<1>0. /\ chain \in ChainRecord /\ chain.marker \in Nat /\ chain.lastWritten \in Nat /\ NoDay = 0
      /\ first \in Nat /\ last \in Nat /\ first > 0 /\ \A d \in Day : d \in Nat /\ d > 0
  BY Typed, HistNumbers, Constants DEF HistInv, Day
<1>1. chain.marker < first /\ chain.marker <= last
  BY <1>0
<1>2. \A d \in Day : d \in first..last => chain.status[d] = "none" /\ d > chain.marker /\ d <= last
  BY <1>0, <1>1 DEF HistInv, Passed
<1>3. /\ chain' \in ChainRecord /\ chain'.marker = Later(chain.marker, last)
      /\ chain'.lastWritten = chain.lastWritten /\ chain'.rewrite = chain.rewrite
      /\ \A d \in Day : chain'.status[d] = IF d \in first..last /\ chain.status[d] # "imported"
                                           THEN how ELSE chain.status[d]
  BY <1>0, MarkSkippedFields
<1>4. chain'.marker = last
  BY <1>0, <1>1, <1>3 DEF Later
<1>5. Progress'
  BY <1>0, <1>1, <1>3, <1>4, HistNumbers DEF HistInv, Progress
<1>6. Passed'
  BY <1>0, <1>1, <1>2, <1>3, <1>4 DEF HistInv, Passed
<1>7. HistoryKept
  <2>1. \A d \in Day :
          \/ chain'.status[d] = chain.status[d]
          \/ chain.status[d] = "none" /\ ~(d <= chain.marker)
    <3> SUFFICES ASSUME NEW d \in Day
                 PROVE  \/ chain'.status[d] = chain.status[d]
                        \/ chain.status[d] = "none" /\ ~(d <= chain.marker)
      OBVIOUS
    <3>1. d \in Nat /\ chain.marker \in Nat
      BY <1>0
    <3>2. CASE d \in first..last
      BY <1>2, <3>1, <3>2
    <3>3. CASE d \notin first..last
      BY <1>3, <3>3
    <3> QED
      BY <3>2, <3>3
  <2>2. chain'.marker >= chain.marker
    BY <1>0, <1>1, <1>4
  <2> QED
    BY <2>1, <2>2 DEF HistoryKept
<1>8. chain'.lastWritten <= chain'.marker
  BY <1>0, <1>1, <1>3, <1>4 DEF HistInv
<1> QED
  BY <1>3, <1>4, <1>5, <1>6, <1>7, <1>8

LEMMA ChainFirstDayHist ==
  ASSUME HistInv, ChainFirstDay
  PROVE  HistInv' /\ HistoryKept
<1> DEFINE last == Earlier(Boundary - 1, run.yesterday)
<1>0. /\ store \in StoreRecord /\ run \in RunRecord /\ chain \in ChainRecord
      /\ left \in [{"crash", "revise", "remove", "toggle"} -> Nat]
  BY Typed DEF HistInv, StateOK
<1>1. /\ run.pc = "start" /\ UNCHANGED <<today, amber, site, store, written, rows, left>>
      /\ run.yesterday = today - 1 /\ RecoversNext
  BY DEF ChainFirstDay, setup, usage, HistInv, Resolves, At
<1>2. chain.marker = NoDay \/ FirstDay = chain.marker + 1
  BY <1>1 DEF FirstDay, RecoversNext
<1>3. FirstDay \in 0..(MaxDay + 1)
  <2>1. ChainStart \in 0..(MaxDay + 1)
    <3>1. Boundary \in 1..(MaxDay + 1) /\ site.since \in Day \cup {Absent}
      BY BoundaryType, SecondaryChainAssumption DEF HistInv, StateOK, Date
    <3> QED
      BY <3>1, Constants DEF ChainStart, Later, Day
  <2> QED
    BY <2>1, HistNumbers, Constants DEF FirstDay, HistInv
<1>4. CASE FirstDay = NoDay
  BY <1>0, <1>1, <1>4, HistEnds DEF ChainFirstDay
<1>5. CASE FirstDay # NoDay /\ FirstDay < Boundary
  <2>1. /\ chain' = ChainMarkSkipped(chain, FirstDay, last, "unavailable")
        /\ run' = [run EXCEPT !.pc = "ready", !.day = last + 1]
    BY <1>5 DEF ChainFirstDay
  <2>2. FirstDay \in Day /\ last \in Day /\ FirstDay <= last /\ last + 1 \in 0..(MaxDay + 1)
    <3>1. Boundary <= today - 1 /\ today - 1 <= MaxDay /\ FirstDay > 0 /\ FirstDay \in Nat
      BY <1>3, <1>5, BoundaryType, HistNumbers DEF HistInv
    <3>2. last = Boundary - 1
      BY <1>1, <3>1, HistNumbers DEF HistInv, Earlier
    <3> HIDE DEF last
    <3> QED
      BY <1>5, <3>1, <3>2, HistNumbers, Constants DEF HistInv, Day
  <2> HIDE DEF last
  <2>3. /\ chain' \in ChainRecord /\ Progress' /\ chain'.lastWritten <= chain'.marker /\ Passed'
        /\ chain'.marker = last /\ HistoryKept
    BY <1>2, <2>1, <2>2, SkippedHist DEF ChainSkipped
  <2>4. /\ run' \in RunRecord /\ run'.pc = "ready" /\ run'.day = last + 1
        /\ run'.yesterday = run.yesterday
    BY <1>0, <2>1, <2>2 DEF RunRecord, PCs
  <2>5. StateOK'
    BY <1>1, <2>3, <2>4 DEF HistInv, StateOK
  <2>6. run'.day > 0
    BY <2>2, <2>4, Constants DEF Day
  <2>7. Resolves'
    BY <1>1, <2>3, <2>4, <2>6 DEF Resolves, NextDay, Rewriting, At
  <2> QED
    BY <2>3, <2>5, <2>7 DEF HistInv
<1>6. CASE FirstDay # NoDay /\ ~(FirstDay < Boundary)
  <2>1. run' = [run EXCEPT !.pc = "ready", !.day = FirstDay] /\ chain' = chain
    BY <1>6 DEF ChainFirstDay
  <2>2. /\ run' \in RunRecord /\ run'.pc = "ready" /\ run'.day = FirstDay
        /\ run'.yesterday = run.yesterday
    BY <1>0, <1>3, <2>1 DEF RunRecord, PCs
  <2>3. StateOK'
    BY <1>1, <2>1, <2>2 DEF HistInv, StateOK
  <2>4. run'.day > 0
    BY <1>3, <1>6, <2>2, Constants
  <2>5. Resolves'
    BY <1>1, <1>2, <2>1, <2>2, <2>4 DEF Resolves, NextDay, Rewriting, At
  <2> QED
    BY <2>1, <2>3, <2>5, HistAlike
<1> QED
  BY <1>4, <1>5, <1>6

LEMMA ChainReadyHist ==
  ASSUME HistInv, ChainReady
  PROVE  HistInv' /\ HistoryKept
<1> DEFINE skips == SensorSkips(Boundary)
<1>0. /\ store \in StoreRecord /\ run \in RunRecord /\ chain \in ChainRecord
      /\ left \in [{"crash", "revise", "remove", "toggle"} -> Nat]
  BY Typed DEF HistInv, StateOK
<1>1. /\ run.pc = "ready" /\ UNCHANGED <<today, amber, site, store, written, rows, left>>
      /\ run.yesterday = today - 1 /\ run.day > 0 /\ NextDay
  BY DEF ChainReady, setup, usage, HistInv, Resolves, At
<1>2. CASE ~Flows
  BY <1>0, <1>1, <1>2, HistEnds DEF ChainReady
<1>3. CASE Flows /\ (~RetryDue \/ skips = {})
  <2>1. run' = [run EXCEPT !.pc = "walk"] /\ chain' \in {chain, StartRetry(chain, chain.rewrite)}
    BY <1>3 DEF ChainReady, Goto
  <2>2. /\ chain' \in ChainRecord /\ chain'.marker = chain.marker
        /\ chain'.lastWritten = chain.lastWritten /\ chain'.status = chain.status
        /\ chain'.rewrite = chain.rewrite
    BY <1>0, <2>1, StartRetryFields, Typed DEF HistInv
  <2>3. /\ run' \in RunRecord /\ run'.pc = "walk" /\ run'.day = run.day
        /\ run'.yesterday = run.yesterday
    BY <1>0, <2>1 DEF RunRecord, PCs
  <2>4. StateOK'
    BY <1>1, <2>2, <2>3 DEF HistInv, StateOK
  <2>5. Resolves'
    BY <1>1, <2>2, <2>3 DEF Resolves, NextDay, Rewriting, At
  <2> QED
    BY <2>2, <2>4, <2>5, HistAlike
<1>4. CASE Flows /\ RetryDue /\ skips # {}
  <2> DEFINE first    == MinOf(skips)
             m        == chain.marker
             progress == [next |-> first, to |-> m, retry |-> TRUE]
  <2>1. /\ chain' = StartRetry(chain, progress)
        /\ run' = [run EXCEPT !.pc = "rewrite", !.last = m, !.rewriting = TRUE,
                              !.after = "walk", !.start = run.day, !.day = first]
    BY <1>4 DEF ChainReady
  <2>2. first \in Day /\ chain.status[first] = "sensor"
    <3>1. skips \in SUBSET Day
      BY DEF SensorSkips
    <3>2. first \in skips
      BY <1>4, <3>1, MinOfDays
    <3> QED
      BY <3>2 DEF SensorSkips
  <2> HIDE DEF first, skips
  <2>3. first <= m /\ m # NoDay /\ first > 0 /\ m \in 0..MaxDay /\ first \in 0..MaxDay
    <3>1. first <= m
      BY <2>2 DEF HistInv, Passed
    <3> QED
      BY <2>2, <3>1, HistNumbers, Constants DEF HistInv, Day
  <2>4. /\ chain' \in ChainRecord /\ chain'.marker = m
        /\ chain'.lastWritten = chain.lastWritten /\ chain'.status = chain.status
        /\ chain'.rewrite = progress
    <3>1. progress \in [next : 0..MaxDay, to : 0..MaxDay, retry : BOOLEAN]
      BY <2>3
    <3> HIDE DEF progress
    <3> QED
      BY <1>0, <2>1, <3>1, StartRetryFields
  <2>5. run.day \in 0..(MaxDay + 1) /\ run.day = m + 1 /\ first \in 0..(MaxDay + 1)
    BY <1>1, <2>3, HistNumbers, Constants DEF HistInv, NextDay
  <2>6. chain'.rewrite.next = first /\ chain'.rewrite.to = m
    BY <2>4
  <2> HIDE DEF progress, m
  <2>7. /\ run' \in RunRecord /\ run'.pc = "rewrite" /\ run'.day = first
        /\ run'.last = m /\ run'.rewriting /\ run'.after = "walk"
        /\ run'.start = run.day /\ run'.yesterday = run.yesterday
    BY <1>0, <2>1, <2>3, <2>5 DEF RunRecord, PCs
  <2>8. StateOK'
    BY <1>1, <2>4, <2>7 DEF HistInv, StateOK
  <2>9. m <= m
    BY <2>3
  <2>10. Resolves'
    BY <1>1, <2>3, <2>4, <2>5, <2>7, <2>9 DEF Resolves, Replaces, Rewriting, At
  <2>11. Progress'
    BY <2>2, <2>3, <2>4, <2>6, <2>9 DEF Progress
  <2>12. Passed' /\ chain'.lastWritten <= chain'.marker /\ HistoryKept
    BY <2>4, <2>9 DEF HistInv, Passed, HistoryKept, m
  <2> QED
    BY <2>8, <2>10, <2>11, <2>12 DEF HistInv
<1> QED
  BY <1>2, <1>3, <1>4

\* The walk's steps over a day without a row.
LEMMA WalkedHist ==
  ASSUME HistInv, run.pc = "walk", run.day <= run.yesterday, NEW how \in ChainSkipped,
         chain' = ChainMarkSkipped(chain, run.day, run.day, how),
         run' = [run EXCEPT !.cache = CacheWith(run.day, run.yesterday), !.day = run.day + 1],
         store' \in StoreRecord, UNCHANGED <<today, amber, site, written, rows, left>>
  PROVE  HistInv' /\ HistoryKept
<1> DEFINE day   == run.day
           cache == CacheWith(day, run.yesterday)
<1>1. /\ day \in Day /\ NextDay /\ day <= day /\ run.yesterday \in 0..MaxDay
      /\ run.yesterday = today - 1 /\ day + 1 \in 0..(MaxDay + 1) /\ day + 1 > 0
  BY HistNumbers, Constants DEF HistInv, Resolves, At, Day
<1>2. cache \in [Day -> Answer \cup {Unfetched}]
  BY <1>1, CacheWithIs DEF HistInv
<1>3. chain.marker = NoDay \/ day = chain.marker + 1
  BY <1>1 DEF NextDay
<1>4. chain' = ChainMarkSkipped(chain, day, day, how) /\ run' = [run EXCEPT !.cache = cache, !.day = day + 1]
  OBVIOUS
<1> HIDE DEF cache, day
<1>5. /\ chain' \in ChainRecord /\ Progress' /\ chain'.lastWritten <= chain'.marker /\ Passed'
      /\ chain'.marker = day /\ HistoryKept
  BY <1>1, <1>3, <1>4, SkippedHist
<1>6. /\ run' \in RunRecord /\ run'.pc = "walk" /\ run'.day = day + 1
      /\ run'.yesterday = run.yesterday
  BY <1>1, <1>2, <1>4, Typed DEF HistInv, RunRecord
<1>7. StateOK'
  BY <1>5, <1>6 DEF HistInv, StateOK
<1>8. Resolves'
  BY <1>1, <1>5, <1>6 DEF Resolves, NextDay, Rewriting, At
<1> QED
  BY <1>5, <1>7, <1>8 DEF HistInv

LEMMA WalkHist ==
  ASSUME HistInv, WalkEmpty \/ WalkDay \/ WalkDone
  PROVE  HistInv' /\ HistoryKept
<1> DEFINE day   == run.day
           cache == CacheWith(day, run.yesterday)
           noted == NoteEmpty(store, day, today)
<1>0. /\ store \in StoreRecord /\ run \in RunRecord /\ chain \in ChainRecord
      /\ left \in [{"crash", "revise", "remove", "toggle"} -> Nat]
  BY Typed DEF HistInv, StateOK
<1>1. /\ run.pc = "walk" /\ UNCHANGED <<today, amber, site, written, rows, left>>
      /\ run.yesterday = today - 1 /\ run.day > 0 /\ NextDay
  BY DEF WalkEmpty, WalkDay, WalkDone, setup, usage, HistInv, Resolves, At
<1>2. run.day <= run.yesterday =>
        /\ day \in Day /\ run.yesterday \in 0..MaxDay
        /\ cache \in [Day -> Answer \cup {Unfetched}] /\ noted \in StoreRecord
  <2>1. run.day <= run.yesterday => day \in Day /\ run.yesterday \in 0..MaxDay
    <3>1. run.day \in Nat /\ run.yesterday \in 0..MaxDay /\ MaxDay \in Nat
      BY HistNumbers, Constants DEF HistInv
    <3> QED
      BY <1>1, <3>1 DEF Day
  <2> QED
    BY <1>0, <2>1, CacheWithIs, NoteEmptyType, Typed DEF HistInv
<1>3. CASE WalkEmpty
  <2>1. run.day <= run.yesterday /\ ChainEmptyDay(cache)
    BY <1>3 DEF WalkEmpty
  <2>2. \/ /\ store' \in {store, noted}
           /\ \E how \in {"gap", "unavailable"} : chain' = ChainMarkSkipped(chain, day, day, how)
           /\ run' = [run EXCEPT !.cache = cache, !.day = day + 1]
        \/ store' = noted /\ EndRun /\ chain' = chain
    BY <2>1 DEF ChainEmptyDay
  <2>3. store' \in StoreRecord
    BY <1>0, <1>2, <2>1, <2>2
  <2>4. CASE store' = noted /\ EndRun /\ chain' = chain
    BY <1>0, <1>1, <2>3, <2>4, HistEnds
  <2>5. CASE /\ \E how \in {"gap", "unavailable"} : chain' = ChainMarkSkipped(chain, day, day, how)
             /\ run' = [run EXCEPT !.cache = cache, !.day = day + 1]
    <3>1. PICK how \in {"gap", "unavailable"} : chain' = ChainMarkSkipped(chain, day, day, how)
      BY <2>5
    <3>2. how \in ChainSkipped
      BY DEF ChainSkipped
    <3> QED
      BY <1>1, <2>1, <2>3, <2>5, <3>1, <3>2, WalkedHist
  <2> QED
    BY <2>2, <2>4, <2>5
<1>4. CASE WalkDay
  <2>1. /\ run.day <= run.yesterday /\ store' = store
        /\ \/ /\ chain' \in {chain, ChainSetPending(chain, day)}
              /\ run' = [run EXCEPT !.cache = cache, !.pc = "rows", !.rewriting = FALSE]
           \/ /\ chain' = ChainMarkSkipped(chain, day, day, "sensor")
              /\ run' = [run EXCEPT !.cache = cache, !.day = day + 1]
    BY <1>4 DEF WalkDay, usage
  <2>2. CASE /\ chain' = ChainMarkSkipped(chain, day, day, "sensor")
             /\ run' = [run EXCEPT !.cache = cache, !.day = day + 1]
    <3>1. "sensor" \in ChainSkipped
      BY DEF ChainSkipped
    <3> QED
      BY <1>0, <1>1, <2>1, <2>2, <3>1, WalkedHist
  <2>3. CASE /\ chain' \in {chain, ChainSetPending(chain, day)}
             /\ run' = [run EXCEPT !.cache = cache, !.pc = "rows", !.rewriting = FALSE]
    <3> HIDE DEF cache
    <3>1. /\ chain' \in ChainRecord /\ chain'.marker = chain.marker
          /\ chain'.lastWritten = chain.lastWritten /\ chain'.status = chain.status
          /\ chain'.rewrite = chain.rewrite
      BY <1>0, <1>2, <2>1, <2>3, SetPendingFields
    <3>2. /\ run' \in RunRecord /\ run'.pc = "rows" /\ ~run'.rewriting /\ run'.day = day
          /\ run'.yesterday = run.yesterday
      BY <1>0, <1>2, <2>1, <2>3 DEF RunRecord, PCs
    <3>3. StateOK'
      BY <1>0, <1>1, <2>1, <3>1, <3>2 DEF HistInv, StateOK
    <3>4. Resolves'
      BY <1>1, <1>2, <2>1, <3>1, <3>2 DEF Resolves, NextDay, Rewriting, At
    <3> QED
      BY <3>1, <3>3, <3>4, HistAlike
  <2> QED
    BY <2>1, <2>2, <2>3
<1>5. CASE WalkDone
  BY <1>0, <1>1, <1>5, HistEnds DEF WalkDone, usage
<1> QED
  BY <1>3, <1>4, <1>5

LEMMA WriteRowsHist ==
  ASSUME HistInv, WriteRows
  PROVE  HistInv' /\ HistoryKept
<1> DEFINE day    == run.day
           amount == run.cache[day].amount
           r      == [state |-> amount, sum |-> Baseline(day) + amount]
<1>0. /\ store \in StoreRecord /\ run \in RunRecord /\ chain \in ChainRecord
      /\ rows \in [Day -> [state : Nat, sum : Nat]]
      /\ left \in [{"crash", "revise", "remove", "toggle"} -> Nat]
  BY Typed DEF HistInv, StateOK
<1>1. /\ run.pc = "rows" /\ UNCHANGED <<today, amber, site, store, written, chain, left>>
      /\ day \in Day /\ Resolves
  BY DEF WriteRows, setup, usage, HistInv, Resolves, At
<1>2. CASE EndRun /\ rows' = rows
  BY <1>0, <1>1, <1>2, HistEnds
<1>3. CASE rows' = [rows EXCEPT ![day] = r] /\ run' = [run EXCEPT !.pc = "mark"]
  <2>1. amount \in Nat
    BY <1>1, Amounts, Typed DEF HistInv
  <2>2. Baseline(day) \in Nat
    <3>1. Prev(day) \in Day \cup {NoDay}
      <4> DEFINE S == {d \in Day : d < day /\ chain.status[d] = "imported"}
      <4>1. S \in SUBSET Day /\ ChainLastImportedBefore(day) = MaxOf(S)
        BY DEF ChainLastImportedBefore
      <4> QED
        BY <4>1, MaxOfDays, Typed DEF Prev, HistInv
    <3> QED
      BY <1>0, <3>1 DEF Baseline
  <2> HIDE DEF amount
  <2>3. r \in [state : Nat, sum : Nat]
    BY <2>1, <2>2
  <2> HIDE DEF r
  <2>4. rows' \in [Day -> [state : Nat, sum : Nat]]
    BY <1>0, <1>3, <2>3
  <2>5. /\ run' \in RunRecord /\ run'.pc = "mark" /\ run'.day = day /\ run'.rewriting = run.rewriting
        /\ run'.yesterday = run.yesterday /\ run'.last = run.last
        /\ run'.after = run.after /\ run'.start = run.start /\ run'.recovery = run.recovery
    BY <1>0, <1>3 DEF RunRecord, PCs
  <2>6. StateOK'
    BY <1>1, <2>4, <2>5 DEF HistInv, StateOK
  <2>7. Resolves'
    BY <1>1, <2>5 DEF Resolves, Replaces, RecoversNext, NextDay, Given, Rewriting, At
  <2> QED
    BY <1>1, <2>6, <2>7, HistAlike
<1> QED
  BY <1>2, <1>3 DEF WriteRows, Goto

LEMMA MarkDayWrittenHist ==
  ASSUME HistInv, MarkDayWritten
  PROVE  HistInv' /\ HistoryKept
<1> DEFINE day == run.day
<1>0. /\ run \in RunRecord /\ chain \in ChainRecord /\ chain.marker \in Nat /\ NoDay = 0
      /\ chain.lastWritten \in Nat /\ chain.lastWritten <= chain.marker
      /\ \A d \in Day : d \in Nat /\ d > 0
  BY Typed, HistNumbers DEF HistInv, Day
<1>1. /\ run.pc = "mark" /\ UNCHANGED <<today, amber, site, store, written, rows, left>>
      /\ chain' = MarkWritten(chain, day) /\ run' = [run EXCEPT !.pc = "track"]
      /\ day \in Day /\ day \in Nat /\ day > 0 /\ run.yesterday = today - 1
  BY <1>0 DEF MarkDayWritten, setup, usage, Goto, HistInv, Resolves, At
<1>2. /\ chain' \in ChainRecord
      /\ chain'.marker = Later(chain.marker, day)
      /\ chain'.lastWritten = Later(chain.lastWritten, day)
      /\ chain'.rewrite = chain.rewrite
      /\ \A d \in Day : chain'.status[d] = IF d = day THEN "imported" ELSE chain.status[d]
  BY <1>0, <1>1, MarkWrittenFields
<1>3. /\ chain'.marker \in Nat /\ chain.marker <= chain'.marker /\ day <= chain'.marker
      /\ chain'.lastWritten <= chain'.marker
  BY <1>0, <1>1, <1>2 DEF Later
<1>4. /\ run' \in RunRecord /\ run'.pc = "track" /\ run'.day = day /\ run'.rewriting = run.rewriting
      /\ run'.yesterday = run.yesterday /\ run'.last = run.last
      /\ run'.after = run.after /\ run'.start = run.start /\ run'.recovery = run.recovery
  BY <1>0, <1>1 DEF RunRecord, PCs
<1>5. StateOK'
  BY <1>1, <1>2, <1>4 DEF HistInv, StateOK
<1>6. Passed'
  BY <1>0, <1>2, <1>3 DEF HistInv, Passed
<1>7. Progress'
  <2>1. chain.rewrite.to \in Nat
    BY HistNumbers DEF HistInv
  <2> QED
    BY <1>0, <1>2, <1>3, <2>1 DEF HistInv, Progress
<1>8. CASE ~run.rewriting
  <2>1. NextDay /\ chain.marker < day
    BY <1>0, <1>1, <1>8 DEF HistInv, Resolves, NextDay
  <2>2. chain'.marker = day /\ chain.status[day] = "none"
    BY <1>0, <1>1, <1>2, <2>1 DEF Later, HistInv, Passed
  <2>3. Resolves'
    BY <1>1, <1>4, <1>8, <2>2 DEF Resolves, Rewriting, At
  <2>4. HistoryKept
    BY <1>0, <1>1, <1>2, <1>3, <2>1, <2>2 DEF HistoryKept
  <2> QED
    BY <1>3, <1>5, <1>6, <1>7, <2>3, <2>4 DEF HistInv
<1>9. CASE run.rewriting
  <2>1. Replaces /\ Given(day) /\ day <= run.last /\ run.last <= chain.marker
    BY <1>1, <1>9 DEF HistInv, Resolves, Replaces, Rewriting, At
  <2>2. chain'.marker = chain.marker
    BY <1>0, <1>1, <1>2, <2>1, HistNumbers DEF Later, HistInv
  <2>3. Replaces'
    BY <1>1, <1>2, <1>4, <1>9, <2>1, <2>2 DEF Replaces, RecoversNext, Given, At
  <2>4. Resolves'
    BY <1>1, <1>4, <1>9, <2>3 DEF Resolves, Rewriting, At
  <2>5. HistoryKept
    <3>1. chain.status[day] = "imported" \/ (chain.status[day] = "sensor" /\ chain.rewrite.retry)
      BY <1>1, <2>1 DEF Replaces, Given
    <3> QED
      BY <1>0, <1>2, <1>3, <2>2, <3>1 DEF HistoryKept
  <2> QED
    BY <1>3, <1>5, <1>6, <1>7, <2>4, <2>5 DEF HistInv
<1> QED
  BY <1>8, <1>9

LEMMA TrackDayHist ==
  ASSUME HistInv, TrackDay
  PROVE  HistInv' /\ HistoryKept
<1> DEFINE day == run.day
           pc  == IF run.rewriting THEN "rewrite" ELSE "walk"
<1>0. store \in StoreRecord /\ run \in RunRecord /\ run.cache \in [Day -> Answer \cup {Unfetched}]
  BY Typed DEF HistInv
<1>1. /\ run.pc = "track" /\ UNCHANGED <<today, amber, site, written, chain, rows, left>>
      /\ store' = Track(store, day, run.cache[day])
      /\ run' = [run EXCEPT !.pc = pc, !.day = day + 1]
      /\ day \in Day /\ day \in Nat /\ run.yesterday = today - 1
  BY Constants DEF TrackDay, setup, HistInv, Resolves, At
<1>2. store' \in StoreRecord
  BY <1>0, <1>1, TrackIs DEF HistInv
<1>3. pc \in {"rewrite", "walk"} /\ (pc = "rewrite" <=> run.rewriting)
  OBVIOUS
<1>4. day + 1 \in 0..(MaxDay + 1) /\ day + 1 > 0
  BY <1>1, Constants DEF Day
<1> HIDE DEF pc
<1>5. /\ run' \in RunRecord /\ run'.pc = pc /\ run'.day = day + 1 /\ run'.rewriting = run.rewriting
      /\ run'.yesterday = run.yesterday /\ run'.last = run.last
      /\ run'.after = run.after /\ run'.start = run.start /\ run'.recovery = run.recovery
  BY <1>0, <1>1, <1>3, <1>4 DEF RunRecord, PCs
<1>6. StateOK'
  BY <1>1, <1>2, <1>5 DEF HistInv, StateOK
<1>7. CASE ~run.rewriting
  <2>1. chain.marker = day
    BY <1>1, <1>7 DEF HistInv, Resolves, At
  <2>2. Resolves'
    BY <1>1, <1>3, <1>4, <1>5, <1>7, <2>1 DEF Resolves, NextDay, Rewriting, At
  <2> QED
    BY <1>1, <1>6, <2>2, HistAlike
<1>8. CASE run.rewriting
  <2>1. Replaces
    BY <1>1, <1>8 DEF HistInv, Resolves, Rewriting, At
  <2>2. Replaces'
    BY <1>1, <1>3, <1>4, <1>5, <1>8, <2>1 DEF Replaces, RecoversNext, At
  <2>3. Resolves'
    BY <1>1, <1>3, <1>5, <1>8, <2>2 DEF Resolves, Rewriting, At
  <2> QED
    BY <1>1, <1>6, <2>3, HistAlike
<1> QED
  BY <1>7, <1>8

LEMMA RewriteDayHist ==
  ASSUME HistInv, RewriteDay
  PROVE  HistInv' /\ HistoryKept
<1> DEFINE day   == run.day
           saved == SetRewrite(chain, day, run.last)
           cache == CacheWith(day, run.last)
           skip  == ChainMarkSkipped(saved, day, day, "sensor")
<1>0. run \in RunRecord /\ chain \in ChainRecord
  BY Typed DEF HistInv
<1>1. /\ run.pc = "rewrite" /\ day <= run.last /\ run.rewriting /\ Replaces
      /\ UNCHANGED <<today, amber, site, store, written, rows, left>>
      /\ run.yesterday = today - 1
  BY DEF RewriteDay, setup, usage, HistInv, Resolves, Replaces, Rewriting, At
<1>2. /\ day \in Day /\ day \in Nat /\ day <= chain.marker /\ run.last \in 0..MaxDay
      /\ day \in 0..MaxDay /\ day + 1 \in 0..(MaxDay + 1) /\ day + 1 > 0
      /\ run.last <= chain.marker
  <2>1. /\ day \in Nat /\ run.last \in 0..MaxDay /\ chain.marker \in 0..MaxDay /\ MaxDay \in Nat
        /\ chain.marker \in Nat
    BY HistNumbers, Constants DEF HistInv
  <2>2. day > 0 /\ day <= run.last /\ run.last <= chain.marker
    BY <1>1 DEF Replaces
  <2> QED
    BY <2>1, <2>2 DEF Day
<1>3. cache \in [Day -> Answer \cup {Unfetched}]
  BY <1>2, CacheWithIs DEF HistInv
<1>4. /\ saved \in ChainRecord
      /\ saved.marker = chain.marker /\ saved.lastWritten = chain.lastWritten
      /\ saved.status = chain.status
      /\ saved.rewrite.next = day /\ saved.rewrite.to = run.last
      /\ saved.rewrite.retry = chain.rewrite.retry
  BY <1>0, <1>2, SetRewriteFields
<1>5. \/ chain' = saved /\ run' = [run EXCEPT !.day = day + 1]
      \/ chain' = saved /\ run' = Idle
      \/ Rewritten(day) /\ chain' = saved /\ run' = [run EXCEPT !.cache = cache, !.pc = "rows"]
      \/ Rewritten(day) /\ chain' = skip /\ run' = [run EXCEPT !.cache = cache, !.day = day + 1]
  BY DEF RewriteDay, EndRun
<1>6. Rewritten(day) =>
        /\ skip \in ChainRecord
        /\ skip.marker = chain.marker /\ skip.lastWritten = chain.lastWritten
        /\ skip.rewrite = saved.rewrite /\ \A d \in Day : skip.status[d] = chain.status[d]
  <2> HIDE DEF saved
  <2>1. /\ skip \in ChainRecord /\ skip.marker = Later(saved.marker, day)
        /\ skip.lastWritten = saved.lastWritten /\ skip.rewrite = saved.rewrite
        /\ \A d \in Day : skip.status[d] = IF d = day /\ saved.status[d] # "imported"
                                           THEN "sensor" ELSE saved.status[d]
    <3> HIDE DEF day
    <3>1. saved \in ChainRecord /\ day \in Day /\ "sensor" \in ChainSkipped
      BY <1>2, <1>4 DEF ChainSkipped
    <3> QED
      BY <3>1, OneDaySkipped
  <2> HIDE DEF skip
  <2>2. skip.marker = chain.marker
    BY <1>2, <1>4, <2>1, HistNumbers DEF Later, HistInv
  <2>3. Rewritten(day) => \A d \in Day : skip.status[d] = chain.status[d]
    BY <1>4, <2>1 DEF Rewritten
  <2> QED
    BY <1>4, <2>1, <2>2, <2>3
<1> HIDE DEF saved, skip, cache
<1>7. /\ chain' \in ChainRecord /\ chain'.marker = chain.marker
      /\ chain'.lastWritten = chain.lastWritten
      /\ \A d \in Day : chain'.status[d] = chain.status[d]
      /\ chain'.rewrite.next = day /\ chain'.rewrite.to = run.last
      /\ chain'.rewrite.retry = chain.rewrite.retry
  BY <1>4, <1>5, <1>6
<1>8. Progress' /\ Passed' /\ HistoryKept
  <2>1. chain.marker >= chain.marker
    BY HistNumbers DEF HistInv
  <2> QED
    BY <1>1, <1>2, <1>7, <2>1 DEF HistInv, Progress, Passed, HistoryKept
<1>9. ASSUME run' \in RunRecord, Resolves'
      PROVE  HistInv'
  <2>1. StateOK'
    BY <1>1, <1>7, <1>9 DEF HistInv, StateOK
  <2> QED
    BY <1>7, <1>8, <1>9, <2>1 DEF HistInv
<1>10. CASE run' = Idle
  <2>1. run' \in RunRecord /\ Resolves'
    BY <1>10, IdleFields DEF Resolves, Rewriting, At
  <2> QED
    BY <1>8, <1>9, <2>1
<1>11. CASE run' \in {[run EXCEPT !.day = day + 1], [run EXCEPT !.cache = cache, !.day = day + 1]}
  <2>1. /\ run' \in RunRecord /\ run'.pc = "rewrite" /\ run'.day = day + 1 /\ run'.rewriting
        /\ run'.yesterday = run.yesterday /\ run'.last = run.last
        /\ run'.after = run.after /\ run'.start = run.start /\ run'.recovery = run.recovery
    BY <1>0, <1>1, <1>2, <1>3, <1>11 DEF RunRecord
  <2>2. Replaces'
    BY <1>1, <1>2, <1>7, <2>1 DEF Replaces, RecoversNext, At
  <2>3. Resolves'
    BY <1>1, <2>1, <2>2 DEF Resolves, At
  <2> QED
    BY <1>8, <1>9, <2>1, <2>3
<1>12. CASE Rewritten(day) /\ run' = [run EXCEPT !.cache = cache, !.pc = "rows"]
  <2>1. /\ run' \in RunRecord /\ run'.pc = "rows" /\ run'.day = day /\ run'.rewriting
        /\ run'.yesterday = run.yesterday /\ run'.last = run.last
        /\ run'.after = run.after /\ run'.start = run.start /\ run'.recovery = run.recovery
    BY <1>0, <1>1, <1>3, <1>12 DEF RunRecord, PCs
  <2>2. /\ chain'.status[run'.day] \in {"imported", "sensor"}
        /\ chain'.status[run'.day] = "sensor" => chain'.rewrite.retry
    BY <1>2, <1>7, <1>12, <2>1 DEF Rewritten
  <2>3. Replaces'
    BY <1>1, <1>2, <1>7, <2>1, <2>2 DEF Replaces, RecoversNext, Given, At
  <2>4. Resolves'
    BY <1>1, <1>2, <2>1, <2>3 DEF Resolves, At
  <2> QED
    BY <1>8, <1>9, <2>1, <2>4
<1> QED
  BY <1>5, <1>10, <1>11, <1>12

LEMMA RewriteDoneHist ==
  ASSUME HistInv, RewriteDone
  PROVE  HistInv' /\ HistoryKept
<1> DEFINE day == IF run.after = "walk" THEN run.start ELSE run.day
<1>1. /\ run.pc = "rewrite" /\ UNCHANGED <<today, amber, site, store, written, rows, left>>
      /\ chain' = EndRewrite(chain)
      /\ run' = [run EXCEPT !.pc = run.after, !.rewriting = FALSE, !.day = day]
      /\ Replaces /\ run.yesterday = today - 1
  BY DEF RewriteDone, setup, usage, HistInv, Resolves, Rewriting, At
<1>2. /\ chain' \in ChainRecord /\ chain'.marker = chain.marker
      /\ chain'.lastWritten = chain.lastWritten /\ chain'.status = chain.status
      /\ chain'.rewrite = NoRewrite
  BY <1>1, EndRewriteFields, Typed DEF HistInv
<1>3. /\ run.after \in {"checked", "start", "walk"} /\ day \in 0..(MaxDay + 1)
      /\ run.after = "walk" => day = chain.marker + 1 /\ day > 0
      /\ run.after = "start" => RecoversNext
  <2>1. run.after \in {"checked", "start", "walk"}
    BY Typed DEF HistInv, RunRecord
  <2> QED
    BY <1>1, <2>1, HistNumbers DEF HistInv, Replaces
<1> HIDE DEF day
<1>4. /\ run' \in RunRecord /\ run'.pc = run.after /\ run'.day = day /\ ~run'.rewriting
      /\ run'.yesterday = run.yesterday /\ run'.recovery = run.recovery
  BY <1>1, <1>3, Typed DEF HistInv, RunRecord, PCs
<1>5. StateOK'
  BY <1>1, <1>2, <1>4 DEF HistInv, StateOK
<1>6. Resolves'
  BY <1>1, <1>2, <1>3, <1>4 DEF Resolves, RecoversNext, NextDay, Rewriting, At
<1>7. Progress' /\ Passed' /\ chain'.lastWritten <= chain'.marker
  BY <1>2 DEF HistInv, Progress, Passed
<1>8. HistoryKept
  BY <1>2, HistNumbers DEF HistInv, HistoryKept
<1> QED
  BY <1>5, <1>6, <1>7, <1>8 DEF HistInv

LEMMA HistNext ==
  ASSUME HistInv, Next
  PROVE  HistInv' /\ (site'.mapped => HistoryKept)
<1>1. CASE StartRun \/ Environment \/ User
  BY <1>1, EnvironmentHist, RemoveHist DEF User
<1>2. CASE Revise \/ UsageStep
  BY <1>2, ReviseHist, UsageHist
<1>3. CASE ChainStep
  BY <1>3, GuardHist, ChainFirstDayHist, ChainReadyHist, WalkHist, WriteRowsHist,
     MarkDayWrittenHist, TrackDayHist, RewriteDayHist, RewriteDoneHist DEF ChainStep
<1> QED
  BY <1>1, <1>2, <1>3 DEF Next, RunStep

LEMMA HistStutter ==
  ASSUME HistInv, UNCHANGED vars
  PROVE  HistInv'
<1>1. UNCHANGED <<today, amber, site, store, written, chain, rows, run, left>>
  BY DEF vars, setup, usage
<1>2. StateOK' /\ Progress' /\ Passed' /\ chain'.lastWritten <= chain'.marker
  BY <1>1 DEF HistInv, StateOK, Progress, Passed
<1>3. Resolves'
  BY <1>1 DEF HistInv, Resolves, Replaces, RecoversNext, NextDay, Given, Rewriting, At
<1> QED
  BY <1>2, <1>3 DEF HistInv

LEMMA HistInit ==
  ASSUME Init
  PROVE  HistInv /\ lapses = {}
<1>1. ChainInv
  BY ChainInit
<1>2. run.pc = "idle" /\ \A d \in Day : chain.status[d] = "none"
  BY NewChainFields, IdleFields DEF Init
<1>3. Resolves
  BY <1>2 DEF Resolves, Rewriting, At
<1> QED
  BY <1>1, <1>2, <1>3, Numbers DEF HistInv, ChainInv, Passed, Init

LEMMA HistAlways == Spec => []HistInv
<1>1. Init => HistInv
  BY HistInit
<1>2. HistInv /\ [Next]_vars => HistInv'
  BY HistNext, HistStutter
<1> QED
  BY <1>1, <1>2, PTL DEF Spec

\* The record of a chain, its rows and the run stay within what the code can hold
\* (ChainState in storage.py, and the chain's part of a run in manager.py).
THEOREM ChainTypeCorrect == Spec => []TypeOK
<1>1. Init => lapses = {}
  BY HistInit
<1>2. lapses \subseteq {"recovery", "revision"} /\ [Next]_vars
        => (lapses \subseteq {"recovery", "revision"})'
  BY LapsesGrow
<1>3. HistInv /\ lapses \subseteq {"recovery", "revision"} => TypeOK
  BY DEF HistInv, TypeOK
<1>4. lapses = {} => lapses \subseteq {"recovery", "revision"}
  OBVIOUS
<1> QED
  BY <1>1, <1>2, <1>3, <1>4, HistAlways, PTL DEF Spec

\* A chain's marker never goes back, a day it has passed is not taken up again, a day it
\* imported stays imported, and only the one-off retry of async_start_retry (storage.py)
\* turns a day skipped for sensor data into an imported one.
THEOREM ChainHistoryIsKept == Spec => ChainKeepsHistory
<1>1. HistInv /\ [Next]_vars =>
        [site'.mapped =>
           /\ chain'.marker >= chain.marker
           /\ \A d \in Day :
                /\ d <= chain.marker /\ chain.status[d] = "none" => chain'.status[d] = "none"
                /\ chain.status[d] = "imported" => chain'.status[d] = "imported"
                /\ chain.status[d] # chain'.status[d] /\ chain.status[d] # "none" =>
                     chain.status[d] = "sensor" /\ chain.rewrite.retry]_vars
  BY HistNext DEF HistoryKept
<1> QED
  BY <1>1, HistAlways, PTL DEF Spec, ChainKeepsHistory
-----------------------------------------------------------------------------
(* Gaps *)

\* The dates on which a day was noted as empty come after it, and none is in the future; a
\* gap of the usage chain has had its dates, and what it has resolved is behind its marker.
Shared ==
  \A d \in Day :
    /\ \A e \in store.emptySeen[d] : d < e /\ e <= today
    /\ store.status[d] = "gap" => d + Patience <= today
    /\ store.status[d] \notin {"none", "empty"} => d <= store.marker

GapInv == HistInv /\ Shared /\ GapsAgree

\* A step that takes no day for a gap and resolves none for the usage chain.
NoNewGap == \A d \in Day : chain'.status[d] = "gap" => chain.status[d] = "gap"

SharedAlike ==
  /\ store'.status = store.status /\ store'.emptySeen = store.emptySeen
  /\ store'.marker = store.marker

LEMMA GapsStay ==
  ASSUME GapInv, SharedAlike, NoNewGap, today' \in Nat, today' >= today
  PROVE  Shared' /\ GapsAgree'
<1>1. /\ today \in Nat /\ Day \subseteq Nat /\ Patience \in Nat
      /\ \A d \in Day : \A e \in store.emptySeen[d] : e \in Nat
  <2>1. store.emptySeen \in [Day -> SUBSET Date] /\ today \in Date
    BY Typed DEF GapInv, HistInv, StoreRecord
  <2> QED
    BY <2>1, Constants
<1>2. Shared'
  <2> SUFFICES ASSUME NEW d \in Day
               PROVE  /\ \A e \in store'.emptySeen[d] : d < e /\ e <= today'
                      /\ store'.status[d] = "gap" => d + Patience <= today'
                      /\ store'.status[d] \notin {"none", "empty"} => d <= store'.marker
    BY DEF Shared
  <2>1. /\ \A e \in store.emptySeen[d] : d < e /\ e <= today
        /\ store.status[d] = "gap" => d + Patience <= today
        /\ store.status[d] \notin {"none", "empty"} => d <= store.marker
    BY DEF GapInv, Shared
  <2>2. d \in Nat /\ \A e \in store.emptySeen[d] : e \in Nat
    BY <1>1
  <2>3. \A e \in store'.emptySeen[d] : d < e /\ e <= today'
    BY <1>1, <2>1, <2>2 DEF SharedAlike
  <2>4. store'.status[d] = "gap" => d + Patience <= today'
    BY <1>1, <2>1, <2>2 DEF SharedAlike
  <2>5. store'.status[d] \notin {"none", "empty"} => d <= store'.marker
    BY <2>1 DEF SharedAlike
  <2> QED
    BY <2>3, <2>4, <2>5
<1>3. GapsAgree'
  BY <1>1 DEF GapInv, GapsAgree, SharedAlike, NoNewGap
<1> QED
  BY <1>2, <1>3

\* Patience: a day noted as empty on patience_days dates is at least that many days old.
LEMMA PatienceIsTime ==
  ASSUME NEW on \in Nat, NEW d \in Day, NEW S, Cardinality(S) >= Patience,
         S \subseteq Nat, \A e \in S : d < e /\ e <= on
  PROVE  d + Patience <= on
<1>1. d + 1 \in Int /\ on \in Int /\ Patience \in Nat \ {0} /\ d \in Nat
  BY Constants
<1>2. S \subseteq (d + 1)..on
  BY <1>1
<1>3. /\ IsFiniteSet((d + 1)..on)
      /\ Cardinality((d + 1)..on) = IF d + 1 > on THEN 0 ELSE on - (d + 1) + 1
  BY <1>1, FS_Interval
<1>4. Cardinality(S) <= Cardinality((d + 1)..on) /\ Cardinality(S) \in Nat
  BY <1>2, <1>3, FS_Subset, FS_CardinalityType
<1> QED
  BY <1>1, <1>3, <1>4

\* Noting a day before today as empty adds a date that counts, and takes none away.
LEMMA NotedIs ==
  ASSUME GapInv, NEW day \in Day, day < today
  PROVE  LET noted == NoteEmpty(store, day, today) IN
         /\ noted \in StoreRecord /\ noted.marker = store.marker
         /\ \A d \in Day :
              /\ \A e \in noted.emptySeen[d] : e \in Nat /\ d < e /\ e <= today
              /\ Cardinality(store.emptySeen[d]) >= Patience
                   => Cardinality(noted.emptySeen[d]) >= Patience
              /\ d # day => noted.status[d] = store.status[d]
         /\ noted.status[day] = IF store.status[day] = "imported" THEN "imported" ELSE "empty"
         /\ PatientEnough(noted, day) => day + Patience <= today
<1> DEFINE noted == NoteEmpty(store, day, today)
<1>1. store \in StoreRecord /\ store.emptySeen \in [Day -> SUBSET Date] /\ today \in Date
  BY Typed DEF GapInv, HistInv, StoreRecord
<1>2. noted \in StoreRecord
  BY <1>1, NoteEmptyType
<1>3. /\ noted.marker = store.marker
      /\ noted.emptySeen = [store.emptySeen EXCEPT ![day] = @ \cup {today}]
      /\ noted.status = [store.status EXCEPT ![day] = IF @ = "imported" THEN @ ELSE "empty"]
  BY <1>1 DEF NoteEmpty, MarkDay, StoreRecord
<1>4. store.status \in [Day -> Status]
  BY <1>1 DEF StoreRecord
<1> HIDE DEF noted
<1>5. /\ \A d \in Day : d # day => noted.status[d] = store.status[d]
      /\ noted.status[day] = IF store.status[day] = "imported" THEN "imported" ELSE "empty"
  BY <1>3, <1>4
<1>6. \A d \in Day : \A e \in noted.emptySeen[d] : e \in Nat /\ d < e /\ e <= today
  <2>1. \A d \in Day : noted.emptySeen[d] = IF d = day THEN store.emptySeen[day] \cup {today}
                                            ELSE store.emptySeen[d]
    BY <1>1, <1>3
  <2>2. \A d \in Day : \A e \in store.emptySeen[d] : e \in Nat /\ d < e /\ e <= today
    BY <1>1, Constants DEF GapInv, Shared
  <2>3. today \in Nat
    BY <1>1, Constants
  <2> QED
    BY <2>1, <2>2, <2>3
<1>7. ASSUME NEW d \in Day, Cardinality(store.emptySeen[d]) >= Patience
      PROVE  Cardinality(noted.emptySeen[d]) >= Patience
  <2>1. today \in Int /\ 1 \in Int /\ Patience \in Nat
    BY <1>1, Constants
  <2>2. noted.emptySeen[d] \subseteq 1..today
    BY <1>6, <2>1, Constants DEF Day
  <2>3. IsFiniteSet(1..today)
    BY <2>1, FS_Interval
  <2>4. IsFiniteSet(noted.emptySeen[d])
    BY <2>2, <2>3, FS_Subset
  <2>5. store.emptySeen[d] \subseteq noted.emptySeen[d]
    BY <1>1, <1>3
  <2>6. /\ Cardinality(store.emptySeen[d]) <= Cardinality(noted.emptySeen[d])
        /\ IsFiniteSet(store.emptySeen[d])
    BY <2>4, <2>5, FS_Subset
  <2>7. Cardinality(store.emptySeen[d]) \in Nat /\ Cardinality(noted.emptySeen[d]) \in Nat
    BY <2>4, <2>6, FS_CardinalityType
  <2> QED
    BY <1>7, <2>1, <2>6, <2>7
<1>8. PatientEnough(noted, day) => day + Patience <= today
  <2>1. /\ today \in Nat /\ noted.emptySeen[day] \subseteq Nat
        /\ \A e \in noted.emptySeen[day] : day < e /\ e <= today
    BY <1>1, <1>6, Constants
  <2> QED
    BY <2>1, PatienceIsTime DEF PatientEnough
<1> QED
  BY <1>2, <1>3, <1>5, <1>6, <1>7, <1>8 DEF noted

\* A day of the usage chain: published, a gap, or waited for.
LEMMA ImportUsageDayGaps ==
  ASSUME GapInv, ImportUsageDay
  PROVE  Shared' /\ GapsAgree'
<1> DEFINE day   == NextUsageDay
           cache == CacheWith(day, run.yesterday)
           noted == NoteEmpty(store, day, today)
<1>1. run.pc = "usage" /\ UsageBehind /\ today' = today /\ chain' = chain
  BY DEF ImportUsageDay, setup, At
<1>2. /\ day \in Day /\ day < today /\ store.marker \in Nat /\ today \in Nat
      /\ \A d \in Day : d \in Nat
      /\ day > store.marker
  <2>1. /\ day \in Day /\ day <= run.yesterday /\ run.yesterday = today - 1 /\ today \in Nat
        /\ store.marker \in Day \cup {NoDay} /\ Boundary \in Nat /\ Boundary >= 1
    BY <1>1, NextUsageDayIs, Typed, HistNumbers, Constants
       DEF GapInv, HistInv, Resolves, At, StoreRecord
  <2>2. store.marker \in Nat /\ day \in Nat
    <3>1. \A d \in Day \cup {NoDay} : d \in Nat
      BY DEF Day, NoDay
    <3> HIDE DEF day
    <3> QED
      BY <2>1, <3>1
  <2>3. day > store.marker
    BY <2>1, <2>2, Constants DEF NextUsageDay
  <2> QED
    BY <2>1, <2>2, <2>3, Constants
<1>3. store \in StoreRecord
  BY Typed DEF GapInv, HistInv
<1>4. Later(store.marker, day) = day
  BY <1>2 DEF Later
<1>5. store.status[day] \in {"none", "empty"}
  BY <1>2 DEF GapInv, Shared
<1>6. /\ noted \in StoreRecord /\ noted.marker = store.marker
      /\ \A d \in Day :
           /\ \A e \in noted.emptySeen[d] : e \in Nat /\ d < e /\ e <= today
           /\ Cardinality(store.emptySeen[d]) >= Patience
                => Cardinality(noted.emptySeen[d]) >= Patience
           /\ d # day => noted.status[d] = store.status[d]
      /\ noted.status[day] = IF store.status[day] = "imported" THEN "imported" ELSE "empty"
      /\ PatientEnough(noted, day) => day + Patience <= today
  BY <1>2, NotedIs
<1>7. CASE ~Empty(cache[day])
  <2> DEFINE st == MarkImported(store, day)
  <2>1. store' = Track(st, day, cache[day])
    BY <1>7 DEF ImportUsageDay
  <2>2. /\ st \in StoreRecord /\ st.marker = day
        /\ st.status = [store.status EXCEPT ![day] = "imported"]
        /\ st.emptySeen = [store.emptySeen EXCEPT ![day] = {}]
    BY <1>2, <1>3, <1>4, MarkImportedType DEF MarkImported, StoreRecord
  <2>3. store'.status = st.status /\ store'.emptySeen = st.emptySeen /\ store'.marker = st.marker
    <3>1. Track(st, day, cache[day]) \in {SetRevision(st, day, today, cache[day].amount),
                                          DropRevisions(st, {day})}
      BY DEF Track
    <3> HIDE DEF st
    <3> QED
      BY <2>1, <2>2, <3>1 DEF SetRevision, DropRevisions, StoreRecord
  <2>4. /\ store'.marker = day
        /\ \A d \in Day : /\ store'.status[d] = IF d = day THEN "imported" ELSE store.status[d]
                          /\ store'.emptySeen[d] = IF d = day THEN {} ELSE store.emptySeen[d]
    BY <1>2, <1>3, <2>2, <2>3 DEF StoreRecord
  <2> HIDE DEF day
  <2>5. Shared'
    BY <1>1, <1>2, <2>4 DEF GapInv, Shared
  <2>6. GapsAgree'
    BY <1>1, <2>4 DEF GapInv, GapsAgree
  <2> QED
    BY <2>5, <2>6
<1>8. CASE Empty(cache[day])
  <2>1. \/ PatientEnough(noted, day) /\ store' = MarkSkipped(noted, day, day, "gap")
        \/ store' = noted
    BY <1>8 DEF ImportUsageDay
  <2> HIDE DEF noted, day
  <2>2. CASE PatientEnough(noted, day) /\ store' = MarkSkipped(noted, day, day, "gap")
    <3>1. /\ store'.marker = Later(noted.marker, day)
          /\ store'.status = [d \in Day |-> IF d \in day..day THEN "gap" ELSE noted.status[d]]
          /\ store'.emptySeen = [d \in Day |-> IF d \in day..day THEN {}
                                               ELSE noted.emptySeen[d]]
      BY <1>6, <2>2 DEF MarkSkipped, StoreRecord
    <3>2. \A d \in Day : d \in day..day <=> d = day
      BY <1>2
    <3>3. /\ store'.marker = day
          /\ \A d \in Day :
               /\ store'.status[d] = IF d = day THEN "gap" ELSE store.status[d]
               /\ store'.emptySeen[d] = IF d = day THEN {} ELSE noted.emptySeen[d]
      BY <1>4, <1>6, <3>1, <3>2
    <3>4. Shared'
      BY <1>1, <1>2, <1>6, <2>2, <3>3 DEF GapInv, Shared
    <3>5. GapsAgree'
      BY <1>1, <1>6, <3>3 DEF GapInv, GapsAgree
    <3> QED
      BY <3>4, <3>5
  <2>3. CASE store' = noted
    <3>1. \A d \in Day : store'.status[d] \in {"none", "empty"}
                         => store.status[d] \in {"none", "empty"}
      BY <1>5, <1>6, <2>3
    <3>2. \A d \in Day : \/ store'.status[d] = store.status[d]
                         \/ store'.status[d] = "empty"
      BY <1>5, <1>6, <2>3
    <3>3. Shared'
      BY <1>1, <1>2, <1>6, <2>3, <3>2 DEF GapInv, Shared
    <3>4. GapsAgree'
      BY <1>1, <1>6, <2>3, <3>1 DEF GapInv, GapsAgree
    <3> QED
      BY <3>3, <3>4
  <2> QED
    BY <2>1, <2>2, <2>3
<1> QED
  BY <1>7, <1>8

\* Days the usage chain skips because they have left retention are not gaps.
LEMMA SkipUnavailableUsageGaps ==
  ASSUME GapInv, SkipUnavailableUsage
  PROVE  Shared' /\ GapsAgree'
<1> DEFINE first == NextUsageDay
           last  == Earlier(Boundary - 1, run.yesterday)
<1>1. /\ run.pc = "usage" /\ UsageBehind /\ today' = today /\ chain' = chain
      /\ store' = MarkSkipped(store, first, last, "unavailable")
  BY DEF SkipUnavailableUsage, setup, At
<1>2. store \in StoreRecord
  BY Typed DEF GapInv, HistInv
<1>3. first \in Nat /\ last \in Int /\ store.marker \in Nat /\ \A d \in Day : d \in Nat
  <2>1. first \in Day /\ run.yesterday \in 0..MaxDay /\ Boundary \in Nat
    BY <1>1, NextUsageDayIs, HistNumbers DEF GapInv, HistInv, Resolves, At
  <2>2. store.marker \in Day \cup {NoDay}
    BY <1>2 DEF StoreRecord
  <2>3. last \in Int
    BY <2>1, Constants DEF Earlier
  <2>4. \A d \in Day \cup {NoDay} : d \in Nat
    BY DEF Day, NoDay
  <2> HIDE DEF first, last
  <2> QED
    BY <2>1, <2>2, <2>3, <2>4
<1> HIDE DEF first, last
<1>4. /\ store'.marker = Later(store.marker, last)
      /\ store'.status = [d \in Day |-> IF d \in first..last THEN "unavailable"
                                        ELSE store.status[d]]
      /\ store'.emptySeen = [d \in Day |-> IF d \in first..last THEN {}
                                           ELSE store.emptySeen[d]]
  BY <1>1, <1>2 DEF MarkSkipped, StoreRecord
<1>5. last <= store'.marker /\ store.marker <= store'.marker /\ store'.marker \in Int
  BY <1>3, <1>4 DEF Later
<1>6. \A d \in Day : d \in first..last => d <= last
  BY <1>3
<1>7. \A d \in Day :
        \/ store'.status[d] = "unavailable" /\ store'.emptySeen[d] = {} /\ d <= last
        \/ store'.status[d] = store.status[d] /\ store'.emptySeen[d] = store.emptySeen[d]
  BY <1>4, <1>6
<1>8. Shared'
  BY <1>1, <1>3, <1>5, <1>7 DEF GapInv, Shared
<1>9. GapsAgree'
  BY <1>1, <1>7 DEF GapInv, GapsAgree
<1> QED
  BY <1>8, <1>9

\* An empty day of the chain: given up with the usage chain, or after its own patience.
LEMMA WalkEmptyGaps ==
  ASSUME GapInv, WalkEmpty
  PROVE  Shared' /\ GapsAgree'
<1> DEFINE day   == run.day
           cache == CacheWith(day, run.yesterday)
           noted == NoteEmpty(store, day, today)
<1>1. /\ run.pc = "walk" /\ day <= run.yesterday /\ today' = today
      /\ ChainEmptyDay(cache)
  BY DEF WalkEmpty, setup, At
<1>2. day \in Day /\ day < today /\ today \in Nat /\ Day \subseteq Nat
  <2>1. day \in Day /\ run.yesterday = today - 1 /\ today \in Nat
    <3>1. /\ run.yesterday = today - 1 /\ run.day > 0 /\ run.day \in Nat /\ MaxDay \in Nat
          /\ run.yesterday \in 0..MaxDay /\ today \in Nat
      BY <1>1, HistNumbers, Constants DEF GapInv, HistInv, Resolves, At
    <3> QED
      BY <1>1, <3>1 DEF Day
  <2>2. Day \subseteq Nat
    BY Constants
  <2>3. day \in Nat
    BY <2>1, <2>2
  <2> HIDE DEF day
  <2>4. day < today
    BY <1>1, <2>1, <2>3
  <2> QED
    BY <2>1, <2>2, <2>4
<1>3. chain \in ChainRecord /\ store \in StoreRecord
  BY Typed DEF GapInv, HistInv
<1>4. /\ noted \in StoreRecord /\ noted.marker = store.marker
      /\ \A d \in Day :
           /\ \A e \in noted.emptySeen[d] : e \in Nat /\ d < e /\ e <= today
           /\ Cardinality(store.emptySeen[d]) >= Patience
                => Cardinality(noted.emptySeen[d]) >= Patience
           /\ d # day => noted.status[d] = store.status[d]
      /\ noted.status[day] = IF store.status[day] = "imported" THEN "imported" ELSE "empty"
      /\ PatientEnough(noted, day) => day + Patience <= today
  BY <1>2, NotedIs
<1>5. chain.status[day] # "gap"
  <2>1. NextDay /\ chain.marker \in Nat /\ day \in Nat /\ day > 0
    BY <1>1, <1>2, HistNumbers DEF GapInv, HistInv, Resolves, At
  <2>2. ~(day <= chain.marker)
    BY <2>1, Constants DEF NextDay
  <2>3. chain.status[day] # "none" => day <= chain.marker
    BY <1>2 DEF GapInv, HistInv, Passed
  <2> QED
    BY <2>2, <2>3
<1>6. CASE store.status[day] \in {"gap", "unavailable"}
  <2>1. store' = store /\ chain' = ChainMarkSkipped(chain, day, day, store.status[day])
    BY <1>1, <1>6 DEF ChainEmptyDay
  <2>2. store.status[day] \in ChainSkipped
    BY <1>6 DEF ChainSkipped
  <2>3. \A d \in Day : chain'.status[d] = IF d = day /\ chain.status[d] # "imported"
                                          THEN store.status[day] ELSE chain.status[d]
    BY <1>2, <1>3, <2>1, <2>2, OneDaySkipped
  <2>4. Shared'
    BY <1>1, <2>1 DEF GapInv, Shared
  <2>5. GapsAgree'
    <3>1. \A d \in Day : chain'.status[d] = "gap" =>
            chain.status[d] = "gap" \/ (d = day /\ store.status[day] = "gap")
      BY <2>3
    <3>2. store.status[day] = "gap" => day + Patience <= today
      BY <1>2 DEF GapInv, Shared
    <3> HIDE DEF day
    <3> QED
      BY <1>1, <2>1, <3>1, <3>2 DEF GapInv, GapsAgree
  <2> QED
    BY <2>4, <2>5
<1>7. CASE store.status[day] \notin {"gap", "unavailable"}
  <2>1. /\ store' = noted
        /\ \/ PatientEnough(noted, day) /\ chain' = ChainMarkSkipped(chain, day, day, "gap")
           \/ chain' = chain
    BY <1>1, <1>7 DEF ChainEmptyDay
  <2>2. "gap" \in ChainSkipped
    BY DEF ChainSkipped
  <2>3. \A d \in Day : chain'.status[d] = "gap" =>
          (chain.status[d] = "gap" /\ d # day) \/ (d = day /\ PatientEnough(noted, day))
    <3> HIDE DEF noted
    <3>1. CASE chain' = chain
      BY <1>5, <3>1
    <3>2. CASE PatientEnough(noted, day) /\ chain' = ChainMarkSkipped(chain, day, day, "gap")
      <4>1. \A d \in Day : chain'.status[d] = IF d = day /\ chain.status[d] # "imported"
                                              THEN "gap" ELSE chain.status[d]
        BY <1>2, <1>3, <2>2, <3>2, OneDaySkipped
      <4> QED
        BY <3>2, <4>1
    <3> QED
      BY <2>1, <3>1, <3>2
  <2> HIDE DEF noted, day
  <2>4. Shared'
    <3>1. \A d \in Day : \/ store'.status[d] = store.status[d]
                         \/ d = day /\ store'.status[d] = "empty"
      BY <1>4, <2>1
    <3> QED
      BY <1>1, <1>4, <2>1, <3>1 DEF GapInv, Shared
  <2>5. GapsAgree'
    <3>1. ASSUME NEW d \in Day, chain'.status[d] = "gap"
          PROVE  /\ d + Patience <= today'
                 /\ store'.status[d] \in {"none", "empty"}
                      => Cardinality(store'.emptySeen[d]) >= Patience
      <4>1. CASE chain.status[d] = "gap" /\ d # day
        <5>1. store'.status[d] = store.status[d]
          BY <1>4, <2>1, <4>1
        <5> QED
          BY <1>1, <1>4, <2>1, <4>1, <5>1 DEF GapInv, GapsAgree
      <4>2. CASE d = day /\ PatientEnough(noted, day)
        BY <1>1, <1>4, <2>1, <4>2 DEF PatientEnough
      <4> QED
        BY <2>3, <3>1, <4>1, <4>2
    <3> QED
      BY <3>1 DEF GapsAgree
  <2> QED
    BY <2>4, <2>5
<1> QED
  BY <1>6, <1>7

\* What else a run does to the Store concerns revisions.
LEMMA RevisionsAlike ==
  ASSUME GapInv
  PROVE  /\ CheckRevisions \/ RewriteAfterRevision \/ RevisionsChecked => SharedAlike
         /\ TrackDay => SharedAlike
<1>1. store \in StoreRecord
  BY Typed DEF GapInv, HistInv
<1>2. ASSUME CheckRevisions
      PROVE  SharedAlike
  <2>1. PICK days : store' = DropRevisions(store, days)
    BY <1>2 DEF CheckRevisions
  <2> QED
    BY <1>1, <2>1 DEF DropRevisions, StoreRecord, SharedAlike
<1>3. ASSUME RewriteAfterRevision
      PROVE  SharedAlike
  <2>1. store' = UsageRewritten \/ store' = store
    BY <1>3 DEF RewriteAfterRevision, usage
  <2>2. /\ UsageRewritten.status = store.status /\ UsageRewritten.marker = store.marker
        /\ UsageRewritten.emptySeen = store.emptySeen
    BY <1>1 DEF UsageRewritten, StoreRecord
  <2> QED
    BY <2>1, <2>2 DEF SharedAlike
<1>4. ASSUME RevisionsChecked
      PROVE  SharedAlike
  BY <1>1, <1>4 DEF RevisionsChecked, SetChecked, StoreRecord, SharedAlike
<1>5. ASSUME TrackDay
      PROVE  SharedAlike
  <2>1. store' \in {SetRevision(store, run.day, today, run.cache[run.day].amount),
                    DropRevisions(store, {run.day})}
    BY <1>5 DEF TrackDay, Track
  <2> QED
    BY <1>1, <2>1 DEF SetRevision, DropRevisions, StoreRecord, SharedAlike
<1> QED
  BY <1>2, <1>3, <1>4, <1>5

\* The setters of the chain's record that take no day for a gap.
LEMMA ChainSettersMakeNoGap ==
  ASSUME NEW c \in ChainRecord, NEW d \in Day
  PROVE  /\ \A first, last, how : how # "gap" =>
              (ChainMarkSkipped(c, first, last, how).status[d] = "gap" => c.status[d] = "gap")
         /\ \A day \in Day : MarkWritten(c, day).status[d] = "gap" => c.status[d] = "gap"
         /\ \A day : ChainSetPending(c, day).status[d] = c.status[d]
         /\ \A last : Adopt(c, last).status[d] = c.status[d]
         /\ \A progress : StartRetry(c, progress).status[d] = c.status[d]
         /\ EndRewrite(c).status[d] = c.status[d]
         /\ NewChain.status[d] = "none"
BY DEF ChainRecord, ChainMarkSkipped, MarkWritten, ChainSetPending, Adopt, StartRetry,
       EndRewrite, NewChain

\* Every other step of a run takes no day for a gap, nor does removing the mapping.
LEMMA NoOtherGaps ==
  ASSUME GapInv, RunStep \/ RemoveMapping, ~WalkEmpty
  PROVE  NoNewGap
<1>1. chain \in ChainRecord /\ run \in RunRecord
  BY Typed DEF GapInv, HistInv
<1>2. CASE RemoveMapping
  BY <1>1, <1>2, ChainSettersMakeNoGap DEF RemoveMapping, NoNewGap
<1>3. CASE Revise \/ UsageStep \/ GuardEnds \/ ResumeRewrite \/ WalkDone \/ WriteRows \/ TrackDay
  <2>1. chain' = chain
    BY <1>3 DEF Revise, UsageStep, CheckRevisions, RewriteAfterRevision, RevisionsChecked,
                ImportUsageDay, SkipUnavailableUsage, UsageDone, GuardEnds, ResumeRewrite,
                WalkDone, WriteRows, TrackDay
  <2> QED
    BY <2>1 DEF NoNewGap
<1>4. CASE GuardAdopts \/ GuardAccepts
  BY <1>1, <1>4, ChainSettersMakeNoGap DEF GuardAdopts, GuardAccepts, NoNewGap
<1>5. CASE ChainFirstDay
  BY <1>1, <1>5, ChainSettersMakeNoGap DEF ChainFirstDay, NoNewGap
<1>6. CASE ChainReady
  BY <1>1, <1>6, ChainSettersMakeNoGap DEF ChainReady, NoNewGap
<1>7. CASE WalkDay
  BY <1>1, <1>7, ChainSettersMakeNoGap DEF WalkDay, NoNewGap
<1>8. CASE MarkDayWritten
  <2>1. run.day \in Day
    BY <1>8 DEF MarkDayWritten, GapInv, HistInv, Resolves, At
  <2> QED
    BY <1>1, <1>8, <2>1, ChainSettersMakeNoGap DEF MarkDayWritten, NoNewGap
<1>9. CASE RewriteDay
  <2> DEFINE saved == SetRewrite(chain, run.day, run.last)
  <2>1. /\ run.pc = "rewrite" /\ run.day <= run.last
        /\ chain' \in {saved, ChainMarkSkipped(saved, run.day, run.day, "sensor")}
    BY <1>9 DEF RewriteDay, At
  <2>2. run.day \in 0..MaxDay /\ run.last \in 0..MaxDay
    BY <2>1, HistNumbers, Constants DEF GapInv, HistInv
  <2>3. saved \in ChainRecord /\ saved.status = chain.status
    BY <1>1, <2>2, SetRewriteFields
  <2> HIDE DEF saved
  <2> QED
    BY <2>1, <2>3, ChainSettersMakeNoGap DEF NoNewGap
<1>10. CASE RewriteDone
  BY <1>1, <1>10, ChainSettersMakeNoGap DEF RewriteDone, NoNewGap
<1> QED
  BY <1>2, <1>3, <1>4, <1>5, <1>6, <1>7, <1>8, <1>9, <1>10 DEF RunStep, ChainStep

LEMMA GapsNext ==
  ASSUME GapInv, Next
  PROVE  GapInv'
<1>1. HistInv'
  BY HistNext DEF GapInv
<1>2. today \in Nat /\ today + 1 \in Nat
  <2>1. today \in Nat
    BY Typed, Constants DEF GapInv, HistInv
  <2> QED
    BY <2>1
<1>3. CASE ImportUsageDay \/ SkipUnavailableUsage \/ WalkEmpty
  BY <1>1, <1>3, ImportUsageDayGaps, SkipUnavailableUsageGaps, WalkEmptyGaps DEF GapInv
<1>4. CASE (Revise \/ TrackDay) /\ ~WalkEmpty
  <2>1. SharedAlike /\ today' = today
    BY <1>4, RevisionsAlike
       DEF Revise, CheckRevisions, RewriteAfterRevision, RevisionsChecked, TrackDay, setup
  <2>2. NoNewGap
    BY <1>4, NoOtherGaps DEF RunStep, ChainStep
  <2> QED
    BY <1>1, <1>2, <2>1, <2>2, GapsStay DEF GapInv
<1>5. CASE RunStep /\ ~(ImportUsageDay \/ SkipUnavailableUsage \/ WalkEmpty \/ Revise \/ TrackDay)
  <2>1. store' = store /\ today' = today
    BY <1>5 DEF RunStep, UsageStep, ChainStep, UsageDone, GuardAdopts, GuardAccepts, GuardEnds,
                ResumeRewrite, ChainFirstDay, ChainReady, WalkDay, WalkDone, WriteRows,
                MarkDayWritten, RewriteDay, RewriteDone, setup, usage
  <2>2. SharedAlike /\ NoNewGap
    BY <1>5, <2>1, NoOtherGaps DEF SharedAlike
  <2> QED
    BY <1>1, <1>2, <2>1, <2>2, GapsStay DEF GapInv
<1>6. CASE StartRun \/ Environment \/ User
  <2>1. store' = store /\ today' \in {today, today + 1}
    BY <1>6 DEF StartRun, Environment, User, Tick, Publish, Crash, RemoveMapping, AddMapping,
                ToggleFlows, Upgrade, setup, usage
  <2>2. NoNewGap
    <3>1. CASE RemoveMapping /\ ~WalkEmpty
      BY <3>1, NoOtherGaps
    <3>2. CASE ~RemoveMapping
      <4>1. chain' = chain
        BY <1>6, <3>2 DEF StartRun, Environment, User, Tick, Publish, Crash, AddMapping,
                          ToggleFlows, Upgrade
      <4> QED
        BY <4>1 DEF NoNewGap
    <3>3. RemoveMapping => ~WalkEmpty
      BY DEF RemoveMapping, WalkEmpty, At
    <3> QED
      BY <3>1, <3>2, <3>3
  <2> QED
    BY <1>1, <1>2, <2>1, <2>2, GapsStay DEF GapInv, SharedAlike
<1>7. WalkEmpty => ~(Revise \/ TrackDay)
  BY DEF WalkEmpty, Revise, CheckRevisions, RewriteAfterRevision, RevisionsChecked, TrackDay, At
<1> QED
  BY <1>3, <1>4, <1>5, <1>6, <1>7 DEF Next

\* A day is given up as a gap by a secondary chain only patience_days dates after it, and
\* where the usage chain has not given it up, the count they share is complete
\* (_async_chain_empty_day of manager.py, async_note_empty of storage.py).
THEOREM ChainGapsWaitForPatience == Spec => []GapsAgree
<1>1. Init => GapInv
  <2> SUFFICES ASSUME Init
               PROVE  GapInv
    OBVIOUS
  <2>1. HistInv
    BY HistInit
  <2>2. /\ store = EmptyStore({}) /\ chain = NewChain
    BY DEF Init
  <2>3. \A d \in Day : /\ store.emptySeen[d] = {} /\ store.status[d] = "none"
                       /\ chain.status[d] = "none"
    BY <2>2, NewChainFields DEF EmptyStore
  <2> QED
    BY <2>1, <2>3 DEF GapInv, Shared, GapsAgree
<1>2. GapInv /\ [Next]_vars => GapInv'
  <2>1. GapInv /\ UNCHANGED vars => GapInv'
    <3> SUFFICES ASSUME GapInv, UNCHANGED vars
                 PROVE  GapInv'
      OBVIOUS
    <3>1. UNCHANGED <<today, store, chain>>
      BY DEF vars, setup, usage
    <3> QED
      BY <3>1, HistStutter DEF GapInv, Shared, GapsAgree
  <2> QED
    BY <2>1, GapsNext
<1>3. GapInv => GapsAgree
  BY DEF GapInv
<1> QED
  BY <1>1, <1>2, <1>3, PTL DEF Spec

-----------------------------------------------------------------------------
(* Sums *)

\* A rewrite that a revision starts does not begin after the day an interrupted one has
\* still to write (it would replace it, and leave the days between as they are).
NoneReplaced == At("revised") /\ chain.rewrite # NoRewrite => run.day <= chain.rewrite.next

Continuous(d) ==
  RowBefore(d) = NoDay \/ chain.status[RowBefore(d)] = "imported" => ContinuesFrom(d, RowBefore(d))

BeforeTheChain == run.pc \in {"idle", "revisions", "revised", "checked", "usage", "guard"}

\* At most one row lies after the last written day's, but for the one just written.
OneAhead ==
  chain.marker # NoDay \/ ~BeforeTheChain =>
    \A d \in Day : HasRow(d) /\ chain.lastWritten < d => d = LastRow \/ (At("mark") /\ d = run.day)

\* A rewrite ends at the last written day or later; its progress is saved before a day is.
RewriteCovers ==
  /\ chain.rewrite # NoRewrite => chain.lastWritten <= chain.rewrite.to
  /\ Rewriting => chain.lastWritten <= run.last
  /\ Rewriting /\ ~At("rewrite") => chain.rewrite.next = run.day /\ chain.rewrite.to = run.last

\* An imported day that does not continue the row before it is still to be rewritten.
SumsDue ==
  \A d \in Day : chain.status[d] = "imported" /\ ~Continuous(d) =>
    /\ chain.rewrite # NoRewrite /\ chain.rewrite.next <= d
    /\ Rewriting => run.day <= d
    /\ run.pc \in {"mark", "track"} => run.day < d

JustWritten == At("mark") => \A d \in Day : d = run.day => Continuous(d)

SumInv == ChainInv /\ OneAhead /\ RewriteCovers /\ SumsDue /\ JustWritten

\* The row before a day is the last of those before it.
LEMMA RowBeforeIs ==
  ASSUME NEW day \in Day
  PROVE  /\ RowBefore(day) \in Day \cup {NoDay}
         /\ RowBefore(day) # NoDay => RowBefore(day) < day /\ HasRow(RowBefore(day))
         /\ \A e \in Day : e < day /\ HasRow(e) => RowBefore(day) # NoDay /\ e <= RowBefore(day)
<1> DEFINE S == {e \in Day : e < day /\ HasRow(e)}
<1>1. S \in SUBSET Day /\ RowBefore(day) = MaxOf(S)
  BY DEF RowBefore
<1>2. /\ MaxOf(S) \in S \cup {NoDay}
      /\ S # {} => MaxOf(S) \in S /\ \A e \in S : e <= MaxOf(S)
  BY <1>1, MaxOfDays
<1>3. \A e \in Day : e < day /\ HasRow(e) => e \in S
  OBVIOUS
<1>4. \A e \in S : e \in Day /\ e < day /\ HasRow(e)
  OBVIOUS
<1> HIDE DEF S
<1> QED
  BY <1>1, <1>2, <1>3, <1>4, Constants

\* ... which tells which one it is.
LEMMA RowBeforeUnique ==
  ASSUME NEW day \in Day, NEW b \in Day \cup {NoDay}, b # NoDay => b < day /\ HasRow(b),
         \A e \in Day : e < day /\ HasRow(e) => e <= b
  PROVE  RowBefore(day) = b
<1>1. /\ RowBefore(day) \in Day \cup {NoDay}
      /\ RowBefore(day) # NoDay => RowBefore(day) < day /\ HasRow(RowBefore(day))
      /\ \A e \in Day : e < day /\ HasRow(e) => RowBefore(day) # NoDay /\ e <= RowBefore(day)
  BY RowBeforeIs
<1>2. b # NoDay => RowBefore(day) # NoDay /\ b <= RowBefore(day)
  BY <1>1
<1>3. RowBefore(day) # NoDay => RowBefore(day) \in Day /\ RowBefore(day) <= b
  BY <1>1
<1>4. /\ RowBefore(day) \in Nat /\ b \in Nat /\ NoDay = 0
      /\ RowBefore(day) \in Day => RowBefore(day) > 0
  BY <1>1, Constants DEF Day
<1> HIDE DEF NoDay
<1> QED
  BY <1>2, <1>3, <1>4

\* The last imported day before a day.
LEMMA LastImportedIs ==
  ASSUME NEW day \in Day
  PROVE  LET last == ChainLastImportedBefore(day) IN
         /\ last \in Day \cup {NoDay}
         /\ last # NoDay => last < day /\ chain.status[last] = "imported"
         /\ \A e \in Day : e < day /\ chain.status[e] = "imported" => last # NoDay /\ e <= last
<1> DEFINE S == {e \in Day : e < day /\ chain.status[e] = "imported"}
<1>1. S \in SUBSET Day /\ ChainLastImportedBefore(day) = MaxOf(S)
  BY DEF ChainLastImportedBefore
<1>2. /\ MaxOf(S) \in S \cup {NoDay}
      /\ S # {} => MaxOf(S) \in S /\ \A e \in S : e <= MaxOf(S)
  BY <1>1, MaxOfDays
<1>3. \A e \in Day : e < day /\ chain.status[e] = "imported" => e \in S
  OBVIOUS
<1>4. \A e \in S : e \in Day /\ e < day /\ chain.status[e] = "imported"
  OBVIOUS
<1> HIDE DEF S
<1> QED
  BY <1>1, <1>2, <1>3, <1>4, Constants

\* Rows before a day that are the same have the same last one.
LEMMA RowBeforeSame ==
  ASSUME NEW day \in Day, \A e \in Day : e < day => (HasRow(e)' <=> HasRow(e))
  PROVE  RowBefore(day)' = RowBefore(day)
<1> DEFINE S == {e \in Day : e < day /\ HasRow(e)}
           T == {e \in Day : e < day /\ HasRow(e)'}
<1>1. S = T
  OBVIOUS
<1>2. RowBefore(day) = MaxOf(S) /\ RowBefore(day)' = MaxOf(T)
  BY DEF RowBefore
<1> HIDE DEF S, T
<1> QED
  BY <1>1, <1>2

\* Rows that no step changes continue each other as before.
LEMMA ContinuesAsBefore ==
  ASSUME rows' = rows,
         \A d \in Day : chain'.status[d] = "imported" <=> chain.status[d] = "imported"
  PROVE  \A d \in Day : Continuous(d)' <=> Continuous(d)
<1> SUFFICES ASSUME NEW d \in Day
             PROVE  Continuous(d)' <=> Continuous(d)
  OBVIOUS
<1>1. RowBefore(d)' = RowBefore(d) /\ RowBefore(d) \in Day \cup {NoDay}
  BY RowBeforeSame, SameRows, RowBeforeIs
<1>2. ContinuesFrom(d, RowBefore(d))' <=> ContinuesFrom(d, RowBefore(d))
  BY <1>1 DEF ContinuesFrom
<1> QED
  BY <1>1, <1>2 DEF Continuous

\* A step that writes nothing and leaves the chain's imported days alone.
LEMMA SumsKept ==
  ASSUME SumInv, ChainInv', rows' = rows, chain'.lastWritten = chain.lastWritten,
         \A d \in Day : chain'.status[d] = "imported" <=> chain.status[d] = "imported",
         chain'.marker # NoDay \/ ~BeforeTheChain' =>
           chain.marker # NoDay \/ ~BeforeTheChain \/ LastRow = NoDay,
         ~At("mark"), run'.pc # "mark",
         chain'.rewrite # NoRewrite => chain'.lastWritten <= chain'.rewrite.to,
         Rewriting' => chain'.lastWritten <= run'.last,
         Rewriting' /\ run'.pc # "rewrite" =>
           chain'.rewrite.next = run'.day /\ chain'.rewrite.to = run'.last,
         \A d \in Day : chain.status[d] = "imported" /\ ~Continuous(d) =>
           /\ chain'.rewrite # NoRewrite /\ chain'.rewrite.next <= d
           /\ Rewriting' => run'.day <= d
           /\ run'.pc = "track" => run'.day < d
  PROVE  SumInv'
<1>1. \A d \in Day : Continuous(d)' <=> Continuous(d)
  BY ContinuesAsBefore
<1>2. OneAhead'
  <2>1. LastRow' = LastRow /\ \A d \in Day : HasRow(d)' <=> HasRow(d)
    BY SameRows
  <2>2. OneAhead
    BY DEF SumInv
  <2>3. LastRow = NoDay => \A d \in Day : ~HasRow(d)
    BY LastRowIsLast, Constants
  <2> QED
    BY <2>1, <2>2, <2>3 DEF OneAhead, At
<1>3. RewriteCovers'
  BY DEF RewriteCovers, At
<1>4. SumsDue'
  BY <1>1 DEF SumsDue
<1> QED
  BY <1>2, <1>3, <1>4 DEF SumInv, JustWritten, At

\* ... nor its rewrite.
LEMMA SumsUntouched ==
  ASSUME SumInv, ChainInv', rows' = rows, chain'.lastWritten = chain.lastWritten,
         chain'.rewrite = chain.rewrite,
         \A d \in Day : chain'.status[d] = "imported" <=> chain.status[d] = "imported",
         chain'.marker # NoDay \/ ~BeforeTheChain' =>
           chain.marker # NoDay \/ ~BeforeTheChain \/ LastRow = NoDay,
         ~At("mark"), ~Rewriting', run'.pc \notin {"mark", "track"}
  PROVE  SumInv'
<1>1. /\ chain'.rewrite # NoRewrite => chain'.lastWritten <= chain'.rewrite.to
      /\ \A d \in Day : chain.status[d] = "imported" /\ ~Continuous(d) =>
           chain'.rewrite # NoRewrite /\ chain'.rewrite.next <= d
  BY DEF SumInv, RewriteCovers, SumsDue
<1> QED
  BY <1>1, SumsKept

\* Steps before the chain's part of a run, of the environment and of the user.
LEMMA QuietSums ==
  ASSUME SumInv, ChainInv', rows' = rows, chain' = chain, ~At("mark"), BeforeTheChain'
  PROVE  SumInv'
<1>1. ~Rewriting' /\ run'.pc \notin {"mark", "track"}
  BY DEF BeforeTheChain, Rewriting, At
<1> QED
  BY <1>1, SumsUntouched

LEMMA StartSums ==
  ASSUME SumInv, ChainInv', StartRun
  PROVE  SumInv'
<1>1. /\ rows' = rows /\ chain' = chain /\ run.pc = "idle"
      /\ run'.pc \in {"usage", "revisions"}
  <2>1. Idle \in RunRecord
    BY IdleFields
  <2> QED
    BY <2>1 DEF StartRun, RunRecord, At
<1> QED
  BY <1>1, QuietSums DEF BeforeTheChain, At

LEMMA EarlySums ==
  ASSUME SumInv, ChainInv', CheckRevisions \/ RevisionsChecked \/ UsageStep \/ GuardEnds
  PROVE  SumInv'
<1>1. rows' = rows /\ chain' = chain /\ run.pc \in {"revisions", "checked", "usage", "guard"}
  BY DEF CheckRevisions, RevisionsChecked, UsageStep, ImportUsageDay, SkipUnavailableUsage,
         UsageDone, GuardEnds, At
<1>2. run \in RunRecord /\ Idle.pc = "idle"
  BY Typed, IdleFields DEF SumInv, ChainInv
<1>3. BeforeTheChain'
  <2>1. CASE CheckRevisions
    BY <1>2, <2>1 DEF CheckRevisions, BeforeTheChain, RunRecord, At
  <2>2. CASE RevisionsChecked
    BY <1>2, <2>2 DEF RevisionsChecked, Goto, BeforeTheChain, RunRecord, At
  <2>3. CASE ImportUsageDay
    BY <1>2, <2>3 DEF ImportUsageDay, BeforeTheChain, RunRecord, At
  <2>4. CASE SkipUnavailableUsage
    BY <2>4 DEF SkipUnavailableUsage, BeforeTheChain, At
  <2>5. CASE UsageDone
    BY <1>2, <2>5 DEF UsageDone, Goto, EndRun, BeforeTheChain, RunRecord, At
  <2>6. CASE GuardEnds
    BY <1>2, <2>6 DEF GuardEnds, EndRun, BeforeTheChain
  <2> QED
    BY <2>1, <2>2, <2>3, <2>4, <2>5, <2>6 DEF UsageStep
<1> QED
  BY <1>1, <1>3, QuietSums DEF At

LEMMA SetupSums ==
  ASSUME SumInv, ChainInv',
         Tick \/ (\E d \in Day : Publish(d)) \/ AddMapping \/ ToggleFlows \/ Upgrade
  PROVE  SumInv'
<1>1. rows' = rows /\ chain' = chain /\ run' = run /\ run.pc \in {"idle", "guard"}
  BY DEF Tick, Publish, AddMapping, ToggleFlows, Upgrade, usage, At
<1> QED
  BY <1>1, QuietSums DEF BeforeTheChain, At

LEMMA CrashSums ==
  ASSUME SumInv, ChainInv', Crash, RecoveryKept'
  PROVE  SumInv'
<1>1. rows' = rows /\ chain' = chain /\ run' = Idle /\ ~PendingAtRisk /\ Idle.pc = "idle"
  BY IdleFields DEF Crash, EndRun, Lapse, RecoveryKept, usage
<1>2. CASE ~At("mark")
  BY <1>1, <1>2, QuietSums DEF BeforeTheChain
<1>3. CASE At("mark")
  <2>1. ASSUME chain.marker # NoDay, NEW d \in Day, HasRow(d), chain.lastWritten < d
        PROVE  d = LastRow
    <3>1. CASE run.rewriting
      <4>1. ~Interrupted
        BY <1>1, <3>1 DEF PendingAtRisk
      <4>2. LastRow <= chain.lastWritten
        BY <2>1, <4>1, Numbers DEF Interrupted, SumInv
      <4>3. d <= LastRow /\ d \in Nat
        BY <2>1, LastRowIsLast, Constants
      <4> QED
        BY <2>1, <4>2, <4>3, Numbers DEF SumInv
    <3>2. CASE ~run.rewriting
      <4>1. LastRow = run.day
        BY <1>3, <3>2, AtTheWalksDay DEF SumInv, At
      <4> QED
        BY <2>1, <4>1 DEF SumInv, OneAhead
    <3> QED
      BY <3>1, <3>2
  <2>2. OneAhead'
    BY <1>1, <2>1, SameRows DEF OneAhead, BeforeTheChain
  <2>3. RewriteCovers' /\ ~Rewriting' /\ ~At("mark")'
    BY <1>1 DEF SumInv, RewriteCovers, Rewriting, At
  <2>4. SumsDue'
    <3>1. \A d \in Day : Continuous(d)' <=> Continuous(d)
      BY <1>1, ContinuesAsBefore
    <3> QED
      BY <1>1, <2>3, <3>1 DEF SumInv, SumsDue
  <2> QED
    BY <2>2, <2>3, <2>4 DEF SumInv, JustWritten
<1> QED
  BY <1>2, <1>3

\* A chain that has no marker has resolved no day, and has no rewrite to resume.
LEMMA NoMarkerNoDays ==
  ASSUME ChainInv, chain.marker = NoDay
  PROVE  /\ \A d \in Day : chain.status[d] = "none"
         /\ chain.lastWritten = NoDay /\ chain.rewrite = NoRewrite
<1>1. \A d \in Day : chain.status[d] = "none"
  BY Constants DEF ChainInv, Records, Day
<1>2. chain.lastWritten = NoDay
  BY Numbers
<1>3. chain.rewrite = NoRewrite
  <2>1. chain.rewrite.next \in Day => chain.rewrite.next > 0 /\ chain.rewrite.next \in Nat
    BY Constants DEF Day
  <2>2. chain.rewrite.to \in Nat
    BY Typed, Constants DEF ChainInv
  <2>3. chain.rewrite # NoRewrite => chain.rewrite.next \in Day /\ chain.rewrite.next <= 0
    BY <2>1, <2>2, Constants DEF ChainInv, Progress
  <2> QED
    BY <2>1, <2>3
<1> QED
  BY <1>1, <1>2, <1>3

\* ... so that nothing is said of its sums.
LEMMA NothingImported ==
  ASSUME ChainInv', \A d \in Day : chain'.status[d] # "imported", chain'.rewrite = NoRewrite,
         ~Rewriting', run'.pc # "mark", OneAhead'
  PROVE  SumInv'
BY DEF SumInv, RewriteCovers, SumsDue, JustWritten, At

LEMMA GuardAdoptsSums ==
  ASSUME SumInv, ChainInv', GuardAdopts
  PROVE  SumInv'
<1>1. /\ chain' = Adopt(chain, LastRow) /\ rows' = rows /\ run'.pc = "resume"
      /\ chain.marker = NoDay /\ LastRow # NoDay
  <2>1. run \in RunRecord
    BY Typed DEF SumInv, ChainInv
  <2> QED
    BY <2>1 DEF GuardAdopts, Adoptable, RunRecord, PCs, usage
<1>2. LastRow \in Day
  BY <1>1, LastRowIsLast
<1>3. /\ chain'.lastWritten = LastRow /\ chain'.status = chain.status
      /\ chain'.rewrite = chain.rewrite
  BY <1>1, <1>2, AdoptFields, Typed DEF SumInv, ChainInv
<1>4. OneAhead'
  <2>1. \A d \in Day : HasRow(d) => d <= LastRow
    BY LastRowIsLast
  <2>2. \A d \in Day : ~(HasRow(d) /\ LastRow < d)
    BY <1>2, <2>1, Constants
  <2> QED
    BY <1>1, <1>3, <2>2, SameRows DEF OneAhead
<1> QED
  BY <1>1, <1>3, <1>4, NoMarkerNoDays, NothingImported DEF SumInv, Rewriting, At

LEMMA RemoveSums ==
  ASSUME SumInv, ChainInv', RemoveMapping
  PROVE  SumInv'
<1>1. chain' = NewChain /\ run' = run /\ run.pc = "idle"
  BY DEF RemoveMapping, At
<1>2. OneAhead'
  BY <1>1, NewChainFields DEF OneAhead, BeforeTheChain
<1> QED
  BY <1>1, <1>2, NewChainFields, NothingImported DEF Rewriting, At

LEMMA GuardAcceptsSums ==
  ASSUME SumInv, ChainInv', GuardAccepts
  PROVE  SumInv'
<1>1. /\ chain' \in {chain, ChainSetPending(chain, NoDay)} /\ rows' = rows
      /\ run.pc = "guard" /\ run'.pc = "resume" /\ ~Adoptable
  <2>1. run \in RunRecord
    BY Typed DEF SumInv, ChainInv
  <2> QED
    BY <2>1 DEF GuardAccepts, RunRecord, PCs, usage, At
<1>2. /\ chain'.lastWritten = chain.lastWritten /\ chain'.status = chain.status
      /\ chain'.rewrite = chain.rewrite
  BY <1>1, SetPendingFields, Typed DEF SumInv, ChainInv
<1>3. chain.marker = NoDay => LastRow = NoDay
  BY <1>1, NoMarkerNoDays DEF Adoptable, SumInv
<1> QED
  BY <1>1, <1>2, <1>3, SumsUntouched DEF Rewriting, At

\* A rewrite starts where all that comes before its first day continues.
LEMMA BeginSums ==
  ASSUME SumInv, ChainInv', NEW first \in Nat, NEW last \in Nat, NEW after,
         BeginRewrite(first, last, after), chain' = chain, rows' = rows,
         run.pc \in {"revised", "resume"}, chain.marker # NoDay,
         chain.rewrite # NoRewrite => first <= chain.rewrite.next, chain.lastWritten <= last
  PROVE  SumInv'
<1>1. run'.pc = "rewrite" /\ run'.day = first /\ run'.last = last
  BY Typed DEF SumInv, ChainInv, BeginRewrite, RunRecord
<1>2. ASSUME NEW d \in Day, chain.status[d] = "imported", ~Continuous(d)
      PROVE  chain.rewrite # NoRewrite /\ chain.rewrite.next <= d /\ first <= d
  <2>1. chain.rewrite # NoRewrite /\ chain.rewrite.next <= d
    BY <1>2 DEF SumInv, SumsDue
  <2>2. chain.rewrite.next \in Nat /\ d \in Nat
    BY Typed, Constants DEF SumInv, ChainInv
  <2> QED
    BY <2>1, <2>2
<1>3. chain.rewrite # NoRewrite => chain.lastWritten <= chain.rewrite.to
  BY DEF SumInv, RewriteCovers
<1> QED
  BY <1>1, <1>2, <1>3, SumsKept DEF At

LEMMA RewriteAfterRevisionSums ==
  ASSUME SumInv, ChainInv', NoneReplaced, RewriteAfterRevision
  PROVE  SumInv'
<1>1. chain' = chain /\ rows' = rows /\ run.pc = "revised"
  BY DEF RewriteAfterRevision, At
<1>2. CASE site.mapped /\ ChainRewriteDue
  <2>1. /\ BeginRewrite(run.day, RewriteLast, "checked") /\ chain.lastWritten # NoDay
        /\ run.day \in Nat
    BY <1>2, Typed, Constants
       DEF RewriteAfterRevision, ChainRewriteDue, SumInv, ChainInv, RunRecord
  <2>2. RewriteLast \in Nat /\ chain.lastWritten <= RewriteLast
    <3>1. chain.rewrite # NoRewrite => chain.lastWritten <= chain.rewrite.to
      BY DEF SumInv, RewriteCovers
    <3>2. chain.rewrite.to \in Nat /\ chain.lastWritten \in Nat
      <4>1. chain.rewrite.to \in 0..MaxDay
        BY Typed DEF SumInv, ChainInv
      <4> QED
        BY <4>1, Numbers, Constants DEF SumInv
    <3> QED
      BY <3>1, <3>2 DEF RewriteLast
  <2>3. chain.marker # NoDay
    BY <2>1, NoMarkerNoDays DEF SumInv
  <2> QED
    BY <1>1, <2>1, <2>2, <2>3, BeginSums DEF NoneReplaced, At
<1>3. CASE ~(site.mapped /\ ChainRewriteDue)
  <2>1. run'.pc = "checked"
    BY <1>3, Typed DEF RewriteAfterRevision, Goto, SumInv, ChainInv, RunRecord
  <2> QED
    BY <1>1, <2>1, QuietSums DEF BeforeTheChain, At
<1> QED
  BY <1>2, <1>3

LEMMA ResumeRewriteSums ==
  ASSUME SumInv, ChainInv', ResumeRewrite
  PROVE  SumInv'
<1>1. chain' = chain /\ rows' = rows /\ run.pc = "resume"
  BY DEF ResumeRewrite, usage, At
<1>2. CASE chain.rewrite # NoRewrite /\ Flows
  <2>1. BeginRewrite(chain.rewrite.next, chain.rewrite.to, "start")
    BY <1>2 DEF ResumeRewrite
  <2>2. chain.rewrite.next \in Nat /\ chain.rewrite.to \in Nat
    BY Typed, Constants DEF SumInv, ChainInv
  <2>3. chain.marker # NoDay
    BY <1>2, NoMarkerNoDays DEF SumInv
  <2>4. chain.lastWritten <= chain.rewrite.to
    BY <1>2 DEF SumInv, RewriteCovers
  <2> QED
    BY <1>1, <2>1, <2>2, <2>3, <2>4, BeginSums
<1>3. CASE ~(chain.rewrite # NoRewrite /\ Flows)
  <2>1. run'.pc = "start"
    BY <1>3, Typed DEF ResumeRewrite, Goto, SumInv, ChainInv, RunRecord
  <2> QED
    BY <1>1, <2>1, SumsUntouched DEF BeforeTheChain, Rewriting, At
<1> QED
  BY <1>2, <1>3

\* Skipping days changes no imported day, no row and no rewrite.
LEMMA SkippingImportsNothing ==
  ASSUME NEW c \in ChainRecord, NEW first, NEW last, NEW how \in ChainSkipped
  PROVE  LET n == ChainMarkSkipped(c, first, last, how) IN
         /\ n.lastWritten = c.lastWritten /\ n.rewrite = c.rewrite
         /\ \A d \in Day : n.status[d] = "imported" <=> c.status[d] = "imported"
BY DEF ChainMarkSkipped, ChainRecord, ChainSkipped

LEMMA ChainFirstDaySums ==
  ASSUME SumInv, ChainInv', ChainFirstDay
  PROVE  SumInv'
<1>1. run.pc = "start" /\ rows' = rows /\ run'.pc \in {"idle", "ready"}
  <2>1. run \in RunRecord /\ Idle.pc = "idle"
    BY Typed, IdleFields DEF SumInv, ChainInv
  <2> QED
    BY <2>1 DEF ChainFirstDay, EndRun, RunRecord, usage, At
<1>2. \/ chain' = chain
      \/ chain' = ChainMarkSkipped(chain, FirstDay, Earlier(Boundary - 1, run.yesterday),
                                   "unavailable")
  BY DEF ChainFirstDay
<1>3. /\ chain'.lastWritten = chain.lastWritten /\ chain'.rewrite = chain.rewrite
      /\ \A d \in Day : chain'.status[d] = "imported" <=> chain.status[d] = "imported"
  <2>1. chain \in ChainRecord /\ "unavailable" \in ChainSkipped
    BY Typed DEF SumInv, ChainInv, ChainSkipped
  <2> QED
    BY <1>2, <2>1, SkippingImportsNothing
<1> QED
  BY <1>1, <1>3, SumsUntouched DEF BeforeTheChain, Rewriting, At

\* With no rewrite to resume every imported day continues the one before.
LEMMA AllContinue ==
  ASSUME SumInv, chain.rewrite = NoRewrite
  PROVE  \A d \in Day : chain.status[d] = "imported" => Continuous(d)
BY DEF SumInv, SumsDue

LEMMA ChainReadySums ==
  ASSUME SumInv, ChainInv', ChainReady
  PROVE  SumInv'
<1> DEFINE first == MinOf(SensorSkips(Boundary))
           retry == [next |-> first, to |-> chain.marker, retry |-> TRUE]
<1>1. run.pc = "ready" /\ rows' = rows /\ run \in RunRecord /\ Idle.pc = "idle"
  BY Typed, IdleFields DEF ChainReady, SumInv, ChainInv, usage, At
<1>2. chain \in ChainRecord /\ chain.rewrite \in [next : 0..MaxDay, to : 0..MaxDay, retry : BOOLEAN]
  BY Typed DEF SumInv, ChainInv
<1>3. CASE \/ chain' = chain /\ run'.pc \in {"idle", "walk"}
           \/ chain' = StartRetry(chain, chain.rewrite) /\ run'.pc = "walk"
  <2>1. /\ chain'.lastWritten = chain.lastWritten /\ chain'.rewrite = chain.rewrite
        /\ \A d \in Day : chain'.status[d] = "imported" <=> chain.status[d] = "imported"
    BY <1>2, <1>3, StartRetryFields
  <2> QED
    BY <1>1, <1>3, <2>1, SumsUntouched DEF BeforeTheChain, Rewriting, At
<1>4. CASE /\ Flows /\ SensorSkips(Boundary) # {}
           /\ chain' = StartRetry(chain, retry)
           /\ run' = [run EXCEPT !.pc = "rewrite", !.last = chain.marker, !.rewriting = TRUE,
                                 !.after = "walk", !.start = run.day, !.day = first]
  <2>1. first \in Day
    <3> DEFINE S == SensorSkips(Boundary)
    <3>1. S \in SUBSET Day /\ S # {}
      BY <1>4 DEF SensorSkips
    <3> HIDE DEF S
    <3>2. MinOf(S) \in S
      BY <3>1, MinOfDays
    <3> QED
      BY <3>1, <3>2 DEF S
  <2>2. first \in 0..MaxDay /\ chain.marker \in 0..MaxDay /\ first # NoDay
    BY <2>1, Typed, Constants DEF SumInv, ChainInv, Day
  <2>3. retry \in [next : 0..MaxDay, to : 0..MaxDay, retry : BOOLEAN]
    BY <2>2
  <2>4. /\ chain'.lastWritten = chain.lastWritten /\ chain'.rewrite = retry
        /\ \A d \in Day : chain'.status[d] = "imported" <=> chain.status[d] = "imported"
    BY <1>2, <1>4, <2>3, StartRetryFields
  <2>5. /\ run'.pc = "rewrite" /\ run'.last = chain.marker /\ run'.day = first
        /\ retry.to = chain.marker
    BY <1>1, <1>4 DEF RunRecord
  <2>6. chain.rewrite = NoRewrite /\ chain.lastWritten <= chain.marker
    BY <1>1, <1>4, Numbers DEF SumInv, ChainInv, Control, AfterGuard
  <2> HIDE DEF retry, first
  <2> QED
    BY <1>1, <2>4, <2>5, <2>6, AllContinue, SumsKept DEF BeforeTheChain, At
<1>5. Goto("walk") => run'.pc = "walk"
  BY <1>1 DEF Goto, RunRecord
<1> QED
  BY <1>1, <1>3, <1>4, <1>5 DEF ChainReady, EndRun

LEMMA WalkEmptySums ==
  ASSUME SumInv, ChainInv', WalkEmpty
  PROVE  SumInv'
<1>1. run.pc = "walk" /\ rows' = rows /\ run'.pc \in {"idle", "walk"}
  <2>1. run \in RunRecord /\ Idle.pc = "idle"
    BY Typed, IdleFields DEF SumInv, ChainInv
  <2> QED
    BY <2>1 DEF WalkEmpty, ChainEmptyDay, EndRun, RunRecord, At
<1>2. \/ chain' = chain
      \/ \E how \in ChainSkipped : chain' = ChainMarkSkipped(chain, run.day, run.day, how)
  BY DEF WalkEmpty, ChainEmptyDay, ChainSkipped
<1>3. /\ chain'.lastWritten = chain.lastWritten /\ chain'.rewrite = chain.rewrite
      /\ \A d \in Day : chain'.status[d] = "imported" <=> chain.status[d] = "imported"
  BY <1>2, Typed, SkippingImportsNothing DEF SumInv, ChainInv
<1> QED
  BY <1>1, <1>3, SumsUntouched DEF BeforeTheChain, Rewriting, At

LEMMA WalkDaySums ==
  ASSUME SumInv, ChainInv', WalkDay
  PROVE  SumInv'
<1>1. /\ run.pc = "walk" /\ rows' = rows /\ chain.rewrite = NoRewrite
      /\ run'.pc \in {"rows", "walk"} /\ (run'.pc = "rows" => ~run'.rewriting)
  <2>1. run \in RunRecord
    BY Typed DEF SumInv, ChainInv
  <2>2. run.pc = "walk" /\ rows' = rows /\ chain.rewrite = NoRewrite
    BY AtTheWalk DEF WalkDay, SumInv, usage, At
  <2> QED
    BY <2>1, <2>2 DEF WalkDay, RunRecord
<1>2. \/ chain' \in {chain, ChainSetPending(chain, run.day)}
      \/ chain' = ChainMarkSkipped(chain, run.day, run.day, "sensor")
  BY DEF WalkDay
<1>3. /\ chain'.lastWritten = chain.lastWritten /\ chain'.rewrite = chain.rewrite
      /\ \A d \in Day : chain'.status[d] = "imported" <=> chain.status[d] = "imported"
  <2>1. chain \in ChainRecord /\ "sensor" \in ChainSkipped /\ run.day \in Day
    BY <1>1, AtTheWalk, Typed DEF SumInv, ChainInv, ChainSkipped, WalkDay
  <2> QED
    BY <1>2, <2>1, SkippingImportsNothing, SetPendingFields
<1> QED
  BY <1>1, <1>3, SumsUntouched DEF BeforeTheChain, Rewriting, At

LEMMA WalkDoneSums ==
  ASSUME SumInv, ChainInv', WalkDone
  PROVE  SumInv'
<1>1. rows' = rows /\ chain' = chain /\ run.pc = "walk" /\ run'.pc = "idle"
  BY IdleFields DEF WalkDone, EndRun, usage, At
<1> QED
  BY <1>1, QuietSums DEF BeforeTheChain, At

LEMMA TrackDaySums ==
  ASSUME SumInv, ChainInv', TrackDay
  PROVE  SumInv'
<1>1. /\ run.pc = "track" /\ rows' = rows /\ chain' = chain /\ run.day \in Nat
      /\ run'.day = run.day + 1 /\ run'.last = run.last
      /\ run'.pc = IF run.rewriting THEN "rewrite" ELSE "walk"
  <2>1. run \in RunRecord
    BY Typed DEF SumInv, ChainInv
  <2> QED
    BY <2>1, Constants DEF TrackDay, RunRecord, At
<1>2. CASE ~run.rewriting
  BY <1>1, <1>2, SumsUntouched DEF BeforeTheChain, Rewriting, At
<1>3. CASE run.rewriting
  <2>1. Rewriting
    BY <1>1, <1>3 DEF Rewriting
  <2>2. ASSUME NEW d \in Day, chain.status[d] = "imported", ~Continuous(d)
        PROVE  chain.rewrite # NoRewrite /\ chain.rewrite.next <= d /\ run.day + 1 <= d
    <3>1. chain.rewrite # NoRewrite /\ chain.rewrite.next <= d /\ run.day < d
      BY <1>1, <2>2 DEF SumInv, SumsDue
    <3> QED
      BY <1>1, <3>1, Constants
  <2>3. /\ chain.lastWritten <= run.last
        /\ chain.rewrite # NoRewrite => chain.lastWritten <= chain.rewrite.to
    BY <2>1 DEF SumInv, RewriteCovers
  <2>4. BeforeTheChain = FALSE
    BY <1>1 DEF BeforeTheChain
  <2> QED
    BY <1>1, <1>3, <2>2, <2>3, <2>4, SumsKept DEF At
<1> QED
  BY <1>2, <1>3

LEMMA RewriteDoneSums ==
  ASSUME SumInv, ChainInv', RewriteDone
  PROVE  SumInv'
<1>1. /\ run.pc = "rewrite" /\ rows' = rows /\ chain' = EndRewrite(chain)
      /\ run.last < run.day /\ run'.pc \in {"checked", "start", "walk"}
  <2>1. run \in RunRecord
    BY Typed DEF SumInv, ChainInv
  <2>2. run.last \in Nat /\ run.day \in Nat
    BY <2>1, Constants DEF RunRecord
  <2> QED
    BY <2>1, <2>2 DEF RewriteDone, RunRecord, usage, At
<1>2. /\ chain'.lastWritten = chain.lastWritten /\ chain'.status = chain.status
      /\ chain'.rewrite = NoRewrite
  BY <1>1, EndRewriteFields, Typed DEF SumInv, ChainInv
<1>3. ASSUME NEW d \in Day, chain.status[d] = "imported"
      PROVE  Continuous(d)
  <2>1. Rewriting
    BY <1>1 DEF Rewriting, At
  <2>2. d <= chain.lastWritten /\ chain.lastWritten <= run.last
    BY <1>3, <2>1 DEF SumInv, RewriteCovers, ChainInv, Records
  <2>3. ~Continuous(d) => run.day <= d
    BY <1>3, <2>1 DEF SumInv, SumsDue
  <2>4. d \in Nat /\ chain.lastWritten \in Nat /\ run.last \in Nat /\ run.day \in Nat
    <3>1. run.last \in 0..MaxDay /\ run.day \in 0..(MaxDay + 1)
      BY Typed DEF SumInv, ChainInv, RunRecord
    <3> QED
      BY <3>1, Constants, Numbers DEF SumInv
  <2> QED
    BY <1>1, <2>2, <2>3, <2>4
<1>4. ~BeforeTheChain
  BY <1>1 DEF BeforeTheChain
<1> QED
  BY <1>1, <1>2, <1>3, <1>4, SumsKept DEF Rewriting, At

\* A day of a rewrite: its progress is saved first; a day that is passed over is none that
\* was imported.
LEMMA RewriteDayIs ==
  ASSUME ChainInv, RewriteDay
  PROVE  /\ run.pc = "rewrite" /\ rows' = rows /\ run.day \in Day /\ run.day \in Nat /\ run.day > 0
         /\ chain'.lastWritten = chain.lastWritten
         /\ chain'.rewrite.next = run.day /\ chain'.rewrite.to = run.last
         /\ chain'.rewrite # NoRewrite
         /\ \A d \in Day : chain'.status[d] = "imported" <=> chain.status[d] = "imported"
         /\ \/ run'.pc = "rewrite" /\ run'.day = run.day + 1 /\ run'.last = run.last
               /\ chain.status[run.day] # "imported"
            \/ run'.pc = "rows" /\ run'.day = run.day /\ run'.last = run.last
            \/ run'.pc = "idle"
<1> DEFINE day   == run.day
           saved == SetRewrite(chain, day, run.last)
           cache == CacheWith(day, run.last)
<1>1. /\ run.pc = "rewrite" /\ rows' = rows /\ day \in Day /\ day \in Nat /\ day > 0
      /\ run.last \in 0..MaxDay /\ run.rewriting /\ day \in 0..MaxDay
  <2>1. run.pc = "rewrite" /\ rows' = rows /\ day <= run.last
    BY DEF RewriteDay, usage, At
  <2>2. run.last \in 0..MaxDay /\ run.rewriting /\ day \in Day
    BY <2>1, AtTheRewrite
  <2>3. \A d \in Day : d \in Nat /\ d > 0 /\ d \in 0..MaxDay
    BY Constants DEF Day
  <2> QED
    BY <2>1, <2>2, <2>3
<1>2. /\ saved \in ChainRecord /\ saved.lastWritten = chain.lastWritten
      /\ saved.status = chain.status /\ saved.rewrite.next = day /\ saved.rewrite.to = run.last
  <2>1. chain \in ChainRecord
    BY Typed DEF ChainInv
  <2> QED
    BY <1>1, <2>1, SetRewriteFields
<1> HIDE DEF saved, cache
<1>3. chain' = saved \/ chain' = ChainMarkSkipped(saved, day, day, "sensor")
  BY DEF RewriteDay, saved
<1>4. /\ chain'.lastWritten = chain.lastWritten
      /\ chain'.rewrite.next = day /\ chain'.rewrite.to = run.last
      /\ \A d \in Day : chain'.status[d] = "imported" <=> chain.status[d] = "imported"
  <2>1. "sensor" \in ChainSkipped
    BY DEF ChainSkipped
  <2> QED
    BY <1>2, <1>3, <2>1, SkippingImportsNothing
<1>5. \/ run'.pc = "rewrite" /\ run'.day = day + 1 /\ run'.last = run.last
         /\ chain.status[day] # "imported"
      \/ run'.pc = "rows" /\ run'.day = day /\ run'.last = run.last
      \/ run'.pc = "idle"
  <2>1. run \in RunRecord /\ Idle.pc = "idle"
    BY Typed, IdleFields DEF ChainInv
  <2>2. chain.status[day] = "imported" => Rewritten(day) /\ SensorData(day)
    BY <1>1 DEF Rewritten, ChainInv, Records, Lasting
  <2>3. CASE ~Rewritten(day)
    BY <1>1, <2>1, <2>2, <2>3 DEF RewriteDay, RunRecord
  <2>4. CASE Rewritten(day)
    BY <1>1, <2>1, <2>2, <2>4 DEF RewriteDay, RunRecord, EndRun
  <2> QED
    BY <2>3, <2>4
<1>6. chain'.rewrite # NoRewrite
  BY <1>1, <1>4 DEF NoRewrite, NoDay
<1> QED
  BY <1>1, <1>4, <1>5, <1>6

LEMMA RewriteDaySums ==
  ASSUME SumInv, ChainInv', RewriteDay
  PROVE  SumInv'
<1> DEFINE day == run.day
<1>1. /\ run.pc = "rewrite" /\ rows' = rows /\ day \in Day /\ day \in Nat /\ day > 0
      /\ chain'.lastWritten = chain.lastWritten
      /\ chain'.rewrite.next = day /\ chain'.rewrite.to = run.last
      /\ chain'.rewrite # NoRewrite
      /\ \A d \in Day : chain'.status[d] = "imported" <=> chain.status[d] = "imported"
      /\ \/ run'.pc = "rewrite" /\ run'.day = day + 1 /\ run'.last = run.last
            /\ chain.status[day] # "imported"
         \/ run'.pc = "rows" /\ run'.day = day /\ run'.last = run.last
         \/ run'.pc = "idle"
  BY RewriteDayIs DEF SumInv
<1>2. Rewriting /\ chain.lastWritten <= run.last
  BY <1>1 DEF SumInv, RewriteCovers, Rewriting, At
<1>3. ASSUME NEW d \in Day, chain.status[d] = "imported", ~Continuous(d)
      PROVE  day <= d /\ (chain.status[day] # "imported" => day + 1 <= d)
  <2>1. day <= d
    BY <1>2, <1>3 DEF SumInv, SumsDue
  <2> QED
    BY <1>1, <1>3, <2>1, Constants
<1>4. ~BeforeTheChain /\ ~At("mark")
  BY <1>1 DEF BeforeTheChain, At
<1> QED
  BY <1>1, <1>2, <1>3, <1>4, SumsKept DEF Rewriting, At

\* A day is written on top of the row before it, if that is a day of the chain's.
LEMMA PrevIsRowBefore ==
  ASSUME SumInv, At("rows"),
         RowBefore(run.day) = NoDay \/ chain.status[RowBefore(run.day)] = "imported"
  PROVE  Prev(run.day) = RowBefore(run.day)
<1> DEFINE day  == run.day
           last == chain.lastWritten
           before == RowBefore(day)
<1>1. /\ day \in Day /\ day \in Nat /\ last \in Day \cup {NoDay} /\ last \in Nat
      /\ LastRow \in Nat /\ \A e \in Day : e \in Nat /\ e > 0
  <2>1. day \in Day
    BY AtTheRewritesDay, AtTheWalksDay DEF SumInv, Readable, At
  <2>2. \A e \in Day : e \in Nat /\ e > 0
    BY Constants DEF Day
  <2> QED
    BY <2>1, <2>2, Typed, Numbers DEF SumInv, ChainInv
<1>2. /\ before \in Day \cup {NoDay}
      /\ before # NoDay => before < day /\ HasRow(before)
      /\ \A e \in Day : e < day /\ HasRow(e) => before # NoDay /\ e <= before
  BY <1>1, RowBeforeIs
<1>3. CASE last < day
  <2>1. ~(LastRow < day /\ last < LastRow)
    <3>1. CASE ~run.rewriting
      <4>1. Agrees \/ LastRow = day
        BY <3>1, AtTheWalksDay DEF SumInv, At
      <4> QED
        BY <1>1, <4>1 DEF Agrees
    <3>2. CASE run.rewriting
      <4>1. Rewrites /\ Rewriting /\ day <= chain.marker
        BY <3>2, AtTheRewritesDay DEF SumInv, At
      <4>2. Agrees \/ (LastRow = chain.marker + 1)
        BY <4>1 DEF Rewrites, At
      <4> QED
        BY <1>1, <4>1, <4>2, Numbers DEF Agrees, SumInv
    <3> QED
      BY <3>1, <3>2
  <2>2. \A e \in Day : e < day /\ HasRow(e) => e <= last
    <3> SUFFICES ASSUME NEW e \in Day, e < day, HasRow(e), last < e
                 PROVE  FALSE
      BY <1>1
    <3>1. e = LastRow
      BY DEF SumInv, OneAhead, BeforeTheChain, At
    <3> QED
      BY <2>1, <3>1
  <2>3. last # NoDay => HasRow(last)
    BY DEF SumInv, ChainInv, Records
  <2>4. before = last
    BY <1>1, <1>3, <2>2, <2>3, RowBeforeUnique
  <2>5. last = NoDay => ChainLastImportedBefore(day) = NoDay
    <3>1. \A d \in Day : chain.status[d] = "imported" => d <= last
      BY DEF SumInv, ChainInv, Records
    <3>2. last = NoDay => \A d \in Day : chain.status[d] # "imported"
      BY <1>1, <3>1, Constants
    <3> QED
      BY <1>1, <3>2, LastImportedIs
  <2> QED
    BY <1>3, <2>4, <2>5 DEF Prev
<1>4. CASE ~(last < day)
  <2> DEFINE imported == ChainLastImportedBefore(day)
  <2>1. /\ imported \in Day \cup {NoDay}
        /\ imported # NoDay => imported < day /\ chain.status[imported] = "imported"
        /\ \A e \in Day : e < day /\ chain.status[e] = "imported" => imported # NoDay /\ e <= imported
    BY <1>1, LastImportedIs
  <2>2. \A e \in Day : chain.status[e] = "imported" => HasRow(e)
    BY DEF SumInv, ChainInv, Records
  <2>3. imported # NoDay => imported \in Day /\ before # NoDay /\ imported <= before
    BY <1>2, <2>1, <2>2
  <2>4. before # NoDay => before \in Day /\ imported # NoDay /\ before <= imported
    BY <1>2, <2>1
  <2>5. Prev(day) = imported
    BY <1>4 DEF Prev
  <2> HIDE DEF imported, before
  <2> QED
    BY <1>1, <2>3, <2>4, <2>5 DEF before
<1> QED
  BY <1>3, <1>4

\* Writing a day makes it continue the row before it, and touches no earlier day.
LEMMA WriteRowsSums ==
  ASSUME SumInv, ChainInv', WriteRows
  PROVE  SumInv'
<1> DEFINE day    == run.day
           amount == run.cache[day].amount
           r      == [state |-> amount, sum |-> Baseline(day) + amount]
<1>1. run.pc = "rows" /\ chain' = chain
  BY DEF WriteRows, At
<1>2. Readable /\ day \in Day /\ day \in Nat
  <2>1. Readable
    BY <1>1, AtTheRewritesDay, AtTheWalksDay DEF SumInv
  <2> QED
    BY <2>1, Constants DEF Readable
<1>3. amount \in Nat /\ amount > 0
  <2>1. run.cache[day] \in Answer \cup {Unfetched}
    BY <1>2, Typed DEF SumInv, ChainInv
  <2> QED
    BY <1>2, <2>1, Amounts, AmountAssumption DEF Readable
<1>4. rows' = [rows EXCEPT ![day] = r] /\ run' = [run EXCEPT !.pc = "mark"]
  BY <1>2, PrevHasRow DEF WriteRows, Goto, SumInv
<1>5. Baseline(day) \in Nat
  BY <1>2, PrevHasRow DEF SumInv
<1>6. r # NoRow /\ r.state = amount /\ r.sum = Baseline(day) + amount
  <2>1. r.state = amount /\ NoRow.state = 0
    BY DEF NoRow
  <2> HIDE DEF amount
  <2> QED
    BY <1>3, <2>1
<1> HIDE DEF r, amount
<1>7. /\ run'.pc = "mark" /\ run'.day = day /\ run'.rewriting = run.rewriting
      /\ run'.last = run.last
  BY <1>4, Typed DEF SumInv, ChainInv, RunRecord, PCs
<1>8. /\ \A d \in Day : rows'[d] = IF d = day THEN r ELSE rows[d]
      /\ \A d \in Day : HasRow(d)' <=> HasRow(d) \/ d = day
      /\ LastRow' = Later(LastRow, day)
  <2>1. StateOK
    BY DEF SumInv, ChainInv
  <2>2. \A d \in Day : rows'[d] = IF d = day THEN r ELSE rows[d]
    BY <1>2, <1>4, <2>1 DEF StateOK
  <2> QED
    BY <1>2, <1>4, <1>6, <2>1, <2>2, RowWritten
<1>9. ASSUME NEW d \in Day, d < day \/ d = day
      PROVE  RowBefore(d)' = RowBefore(d)
  <2>1. \A e \in Day : e < d => e # day
    BY <1>2, <1>9, Constants
  <2> QED
    BY <1>8, <2>1, RowBeforeSame
<1>10. ASSUME NEW d \in Day, d = day
       PROVE  Continuous(d)'
  <2>0. RowBefore(d)' = RowBefore(d)
    BY <1>9, <1>10
  <2> SUFFICES ASSUME RowBefore(day) = NoDay \/ chain.status[RowBefore(day)] = "imported"
               PROVE  ContinuesFrom(d, RowBefore(d))'
    BY <1>1, <1>10, <2>0 DEF Continuous
  <2>1. Prev(day) = RowBefore(day)
    BY <1>1, PrevIsRowBefore DEF At
  <2>2. RowBefore(day) # NoDay => RowBefore(day) \in Day /\ RowBefore(day) # day
    BY <1>2, RowBeforeIs
  <2>3. rows'[day].sum - rows'[day].state = Baseline(day)
    BY <1>2, <1>3, <1>5, <1>6, <1>8
  <2>4. RowBefore(day) # NoDay => rows'[RowBefore(day)] = rows[RowBefore(day)]
    BY <1>8, <2>2
  <2> QED
    BY <1>2, <1>10, <2>0, <2>1, <2>3, <2>4 DEF ContinuesFrom, Baseline
<1>11. ASSUME NEW d \in Day, d < day
       PROVE  Continuous(d)' <=> Continuous(d)
  <2>1. RowBefore(d)' = RowBefore(d)
    BY <1>9, <1>11
  <2>2. RowBefore(d) # NoDay => RowBefore(d) \in Day /\ RowBefore(d) < d
    BY RowBeforeIs
  <2>3. RowBefore(d) # NoDay => RowBefore(d) # day
    BY <1>2, <1>11, <2>2, Constants
  <2>4. rows'[d] = rows[d] /\ (RowBefore(d) # NoDay => rows'[RowBefore(d)] = rows[RowBefore(d)])
    BY <1>2, <1>8, <1>11, <2>2, <2>3
  <2>5. ContinuesFrom(d, RowBefore(d))' <=> ContinuesFrom(d, RowBefore(d))
    BY <2>1, <2>4 DEF ContinuesFrom
  <2> QED
    BY <1>1, <2>1, <2>5 DEF Continuous
<1>12. run.rewriting => Rewriting /\ day <= run.last
  BY <1>1, AtTheRewritesDay DEF SumInv
<1>13. OneAhead'
  <2> SUFFICES ASSUME NEW d \in Day, HasRow(d)', chain.lastWritten < d, d # day
               PROVE  d = LastRow'
    BY <1>1, <1>7 DEF OneAhead, At
  <2>1. d = LastRow
    BY <1>1, <1>8 DEF SumInv, OneAhead, BeforeTheChain, At
  <2>2. CASE ~run.rewriting
    <3>1. Agrees \/ LastRow = day
      BY <1>1, <2>2, AtTheWalksDay DEF SumInv, At
    <3> QED
      BY <2>1, <3>1, Numbers DEF Agrees, SumInv
  <2>3. CASE run.rewriting
    <3>1. Rewrites /\ day <= chain.marker
      BY <1>1, <2>3, AtTheRewritesDay DEF SumInv
    <3>2. Agrees \/ LastRow = chain.marker + 1
      BY <1>1, <1>12, <2>3, <3>1 DEF Rewrites, At
    <3> QED
      BY <1>2, <1>8, <2>1, <3>1, <3>2, Numbers DEF Agrees, Later, SumInv
  <2> QED
    BY <2>2, <2>3
<1>14. RewriteCovers'
  <2>1. run.rewriting => chain.lastWritten <= run.last /\ chain.rewrite.next = day
                         /\ chain.rewrite.to = run.last
    BY <1>1, <1>12 DEF SumInv, RewriteCovers, At
  <2>2. chain.rewrite # NoRewrite => chain.lastWritten <= chain.rewrite.to
    BY DEF SumInv, RewriteCovers
  <2> QED
    BY <1>1, <1>7, <2>1, <2>2 DEF RewriteCovers, Rewriting, At
<1>15. SumsDue'
  <2> SUFFICES ASSUME NEW d \in Day, chain'.status[d] = "imported", ~Continuous(d)'
               PROVE  /\ chain'.rewrite # NoRewrite /\ chain'.rewrite.next <= d
                      /\ run'.day <= d /\ run'.day < d
    BY DEF SumsDue
  <2>1. d # day /\ d \in Nat
    BY <1>10, Constants
  <2>2. ASSUME d < day
        PROVE  FALSE
    <3>1. ~Continuous(d) /\ chain.status[d] = "imported"
      BY <1>1, <1>11, <2>2
    <3>2. chain.rewrite # NoRewrite /\ (run.rewriting => day <= d)
      BY <1>12, <3>1 DEF SumInv, SumsDue
    <3>3. ~run.rewriting => chain.rewrite = NoRewrite
      BY <1>1, AtTheWalksDay DEF SumInv
    <3> QED
      BY <1>2, <2>1, <2>2, <3>2, <3>3
  <2>3. ASSUME day < d
        PROVE  chain.rewrite # NoRewrite /\ chain.rewrite.next <= d
    <3>1. run.rewriting
      <4>1. d <= chain.lastWritten
        BY <1>1 DEF SumInv, ChainInv, Records
      <4>2. ~run.rewriting => chain.marker < day
        BY <1>1, AtTheWalksDay DEF SumInv
      <4> QED
        BY <1>2, <2>1, <2>3, <4>1, <4>2, Numbers DEF SumInv
    <3>2. chain.rewrite.next = day
      BY <1>1, <1>12, <3>1 DEF SumInv, RewriteCovers, At
    <3>3. chain.rewrite # NoRewrite
      BY <1>2, <3>2, Constants DEF NoRewrite
    <3>4. day <= d
      BY <1>2, <2>1, <2>3
    <3> QED
      BY <3>2, <3>3, <3>4
  <2>4. chain.rewrite # NoRewrite /\ chain.rewrite.next <= d /\ day < d
    BY <1>2, <2>1, <2>2, <2>3
  <2>5. day <= d
    BY <1>2, <2>1, <2>4
  <2> QED
    BY <1>1, <1>7, <2>4, <2>5
<1> QED
  BY <1>7, <1>10, <1>13, <1>14, <1>15 DEF SumInv, JustWritten, At

\* Recording the day makes it one that is to continue.
LEMMA MarkDayWrittenSums ==
  ASSUME SumInv, ChainInv', MarkDayWritten
  PROVE  SumInv'
<1> DEFINE day == run.day
<1>1. /\ run.pc = "mark" /\ rows' = rows /\ chain' = MarkWritten(chain, day)
      /\ run' = [run EXCEPT !.pc = "track"]
  BY DEF MarkDayWritten, usage, At, Goto
<1>2. /\ day \in Day /\ day \in Nat
      /\ run.rewriting => Rewriting /\ day <= run.last /\ day <= chain.marker
      /\ ~run.rewriting => chain.rewrite = NoRewrite /\ chain.marker < day
  <2>1. Readable
    BY <1>1, AtTheRewritesDay, AtTheWalksDay DEF SumInv
  <2>2. run.rewriting => Rewriting /\ day <= run.last /\ day <= chain.marker
    BY <1>1, AtTheRewritesDay DEF SumInv
  <2>3. ~run.rewriting => chain.rewrite = NoRewrite /\ chain.marker < day
    BY <1>1, AtTheWalksDay DEF SumInv
  <2> QED
    BY <2>1, <2>2, <2>3, Constants DEF Readable
<1>3. /\ chain'.lastWritten = Later(chain.lastWritten, day)
      /\ chain'.rewrite = chain.rewrite
      /\ \A d \in Day : chain'.status[d] = IF d = day THEN "imported" ELSE chain.status[d]
  <2> DEFINE n == MarkWritten(chain, day)
  <2>1. chain \in ChainRecord
    BY Typed DEF SumInv, ChainInv
  <2>2. /\ n.lastWritten = Later(chain.lastWritten, day) /\ n.rewrite = chain.rewrite
        /\ \A d \in Day : n.status[d] = IF d = day THEN "imported" ELSE chain.status[d]
    BY <1>2, <2>1, MarkWrittenFields
  <2>3. chain' = n
    BY <1>1
  <2> HIDE DEF n
  <2> QED
    BY <2>2, <2>3
<1>4. /\ run'.pc = "track" /\ run'.day = day /\ run'.rewriting = run.rewriting
      /\ run'.last = run.last
  BY <1>1, Typed DEF SumInv, ChainInv, RunRecord, PCs
<1>5. /\ chain.lastWritten \in Nat /\ chain'.lastWritten \in Nat
      /\ chain.lastWritten <= chain'.lastWritten /\ day <= chain'.lastWritten
      /\ chain'.lastWritten \in {chain.lastWritten, day}
  BY <1>2, <1>3, Numbers DEF SumInv, Later
<1>6. OneAhead'
  <2> SUFFICES ASSUME NEW d \in Day, HasRow(d), chain'.lastWritten < d
               PROVE  d = LastRow
    BY <1>1, SameRows DEF OneAhead
  <2>1. d \in Nat
    BY Constants
  <2>2. chain.lastWritten < d /\ d # day
    BY <1>2, <1>5, <2>1
  <2> QED
    BY <1>1, <2>2 DEF SumInv, OneAhead, BeforeTheChain, At
<1>7. RewriteCovers'
  <2>1. run.rewriting => /\ chain.lastWritten <= run.last /\ chain.rewrite.next = day
                         /\ chain.rewrite.to = run.last
    BY <1>1, <1>2 DEF SumInv, RewriteCovers, At
  <2>2. run.rewriting => chain'.lastWritten <= run.last
    BY <1>2, <1>5, <2>1
  <2>3. chain.rewrite # NoRewrite => run.rewriting
    BY <1>2
  <2> QED
    BY <1>3, <1>4, <2>1, <2>2, <2>3 DEF RewriteCovers, Rewriting, At
<1>8. \A d \in Day : RowBefore(d)' = RowBefore(d)
  BY <1>1, SameRows, RowBeforeSame
<1>9. ASSUME NEW d \in Day, d = day
      PROVE  Continuous(d)'
  <2>1. /\ RowBefore(day) \in Day \cup {NoDay}
        /\ RowBefore(day) # NoDay => RowBefore(day) # day
    BY <1>2, RowBeforeIs
  <2>2. RowBefore(day) = NoDay \/ chain'.status[RowBefore(day)] = chain.status[RowBefore(day)]
    BY <1>3, <2>1
  <2>3. Continuous(d)
    BY <1>1, <1>9 DEF SumInv, JustWritten, At
  <2>4. ContinuesFrom(d, RowBefore(d))' <=> ContinuesFrom(d, RowBefore(d))
    BY <1>1, <1>8 DEF ContinuesFrom
  <2> QED
    BY <1>8, <1>9, <2>2, <2>3, <2>4 DEF Continuous
<1>10. SumsDue'
  <2> SUFFICES ASSUME NEW d \in Day, chain'.status[d] = "imported", ~Continuous(d)'
               PROVE  /\ chain'.rewrite # NoRewrite /\ chain'.rewrite.next <= d
                      /\ run'.day <= d /\ run'.day < d
    BY DEF SumsDue
  <2>1. d # day /\ d \in Nat /\ chain.status[d] = "imported"
    BY <1>3, <1>9, Constants
  <2>2. CASE ~Continuous(d)
    <3>1. chain.rewrite # NoRewrite /\ chain.rewrite.next <= d /\ day < d
      BY <1>1, <2>1, <2>2 DEF SumInv, SumsDue
    <3>2. day <= d
      BY <1>2, <2>1, <3>1
    <3> QED
      BY <1>3, <1>4, <3>1, <3>2
  <2>3. CASE Continuous(d)
    <3>1. RowBefore(d) \in Day \cup {NoDay} /\ RowBefore(d)' = RowBefore(d)
      BY <1>8, RowBeforeIs
    <3>2. ContinuesFrom(d, RowBefore(d))' <=> ContinuesFrom(d, RowBefore(d))
      BY <1>1, <3>1 DEF ContinuesFrom
    <3>3. RowBefore(d) = day
      BY <1>3, <2>3, <3>1, <3>2 DEF Continuous
    <3>4. day < d
      BY <1>2, <3>3, RowBeforeIs, Constants
    <3>5. run.rewriting
      <4>1. d <= chain.lastWritten
        BY <2>1 DEF SumInv, ChainInv, Records
      <4> QED
        BY <1>2, <2>1, <3>4, <4>1, Numbers DEF SumInv
    <3>6. chain.rewrite.next = day /\ chain.rewrite # NoRewrite
      <4>1. chain.rewrite.next = day
        BY <1>1, <1>2, <3>5 DEF SumInv, RewriteCovers, At
      <4> QED
        BY <1>2, <4>1, Constants DEF NoRewrite
    <3>7. day <= d
      BY <1>2, <2>1, <3>4
    <3> QED
      BY <1>3, <1>4, <3>4, <3>6, <3>7
  <2> QED
    BY <2>2, <2>3
<1> QED
  BY <1>4, <1>6, <1>7, <1>10 DEF SumInv, JustWritten, At

LEMMA SumsNext ==
  ASSUME SumInv, NoneReplaced, [Next]_vars, RecoveryKept'
  PROVE  SumInv'
<1>1. ChainInv'
  BY NextKeeps, StutterKeeps DEF SumInv
<1>2. CASE UNCHANGED vars
  <2>1. UNCHANGED <<chain, rows, run>>
    BY <1>2 DEF vars
  <2>2. /\ \A d \in Day : Continuous(d)' <=> Continuous(d)
        /\ LastRow' = LastRow /\ \A d \in Day : HasRow(d)' <=> HasRow(d)
    BY <2>1, ContinuesAsBefore, SameRows
  <2>3. OneAhead' /\ RewriteCovers' /\ SumsDue'
    BY <2>1, <2>2 DEF SumInv, OneAhead, RewriteCovers, SumsDue, BeforeTheChain, Rewriting, At
  <2>4. JustWritten'
    BY <2>1, <2>2 DEF SumInv, JustWritten, At
  <2> QED
    BY <1>1, <2>3, <2>4 DEF SumInv
<1>3. CASE StartRun \/ Environment \/ User
  BY <1>1, <1>3, StartSums, SetupSums, CrashSums, RemoveSums DEF Environment, User
<1>4. CASE Revise \/ UsageStep
  BY <1>1, <1>4, EarlySums, RewriteAfterRevisionSums DEF Revise
<1>5. CASE ChainStep
  BY <1>1, <1>5, GuardAdoptsSums, GuardAcceptsSums, EarlySums, ResumeRewriteSums,
     ChainFirstDaySums, ChainReadySums, WalkEmptySums, WalkDaySums, WalkDoneSums,
     WriteRowsSums, MarkDayWrittenSums, TrackDaySums, RewriteDaySums, RewriteDoneSums
     DEF ChainStep
<1> QED
  BY <1>2, <1>3, <1>4, <1>5 DEF Next, RunStep

LEMMA SumsInit ==
  ASSUME Init
  PROVE  SumInv
<1>1. ChainInv
  BY ChainInit
<1>2. run = Idle /\ Idle.pc = "idle" /\ chain = NewChain
  BY IdleFields DEF Init
<1> QED
  BY <1>1, <1>2, NewChainFields
     DEF SumInv, OneAhead, RewriteCovers, SumsDue, JustWritten, Rewriting, BeforeTheChain, At

\* Unless a revision replaces an interrupted rewrite, the days a chain wrote continue each
\* other whenever no rewrite is left to resume: each write takes its baseline from the row
\* before it (_async_baseline of manager.py), a rewrite goes on to the last written day and
\* saves its progress before each day, and an append that was cut off is written again, for as
\* long as its recovery is not lost.
THEOREM ChainSumsAreContinuous ==
  Spec /\ []NoneReplaced => [](RecoveryKept => ChainSumsContinuous)
<1>1. Init => SumInv
  BY SumsInit
<1>2. (RecoveryKept => SumInv) /\ NoneReplaced /\ [Next]_vars => (RecoveryKept => SumInv)'
  BY SumsNext, LapsesGrow DEF RecoveryKept
<1>3. SumInv => ChainSumsContinuous
  <2> SUFFICES ASSUME SumInv, Settled, NEW d \in Day, chain.status[d] = "imported",
                      RowBefore(d) = NoDay \/ chain.status[RowBefore(d)] = "imported"
               PROVE  HasRow(d) /\ ContinuesFrom(d, RowBefore(d))
    BY DEF ChainSumsContinuous
  <2>1. HasRow(d)
    BY DEF SumInv, ChainInv, Records
  <2>2. Continuous(d)
    BY AllContinue DEF Settled
  <2> QED
    BY <2>1, <2>2 DEF Continuous
<1> QED
  BY <1>1, <1>2, <1>3, PTL DEF Spec

-----------------------------------------------------------------------------
(* Revisions *)

\* A day the chain wrote ahead of the usage chain does not leave Amber's retention before
\* the usage chain has it too (which would skip it, and forget its fingerprint).
AheadInReach ==
  \A d \in Day :
    site.mode = "full" /\ store.status[d] \in {"none", "empty"} /\ chain.status[d] = "imported"
      => d >= Boundary

\* The chain's row is what the revision check compares Amber with, or Amber's last word.
Tracked(d) ==
  \/ store.revisions[d].hash = rows[d].state
  \/ amber[d].quality = "actual" /\ amber[d].amount = rows[d].state

\* An imported day that is not tracked is one just written or one still to be rewritten.
DaysTracked ==
  \A d \in Day : chain.status[d] = "imported" /\ ~Tracked(d) =>
    \/ At("track") /\ ~run.rewriting /\ d = run.day
    \/ /\ \/ chain.rewrite # NoRewrite /\ chain.rewrite.next <= d
          \/ At("rewrite") /\ run.after = "checked"
       /\ Rewriting => run.day <= d

\* Without a mapping there is no chain to work on.
Unmapped == site.mapped \/ (BeforeTheChain /\ \A d \in Day : chain.status[d] # "imported")

\* What was fetched as final is so.
FetchedFinal == \A d \in Day : run.cache[d].quality = "actual" => amber[d] = run.cache[d]

\* Where the usage chain does not have a day, its amount is the one fetched and the one written.
Unread(a) == a = Unfetched \/ Empty(a)
WrittenAhead ==
  \A d \in Day : site.mode = "full" /\ store.status[d] \in {"none", "empty"} =>
    /\ Unread(run.cache[d]) \/ run.cache[d].amount = amber[d].amount
    /\ chain.status[d] = "imported" => rows[d].state = amber[d].amount

WrittenRow ==
  run.pc \in {"mark", "track"} =>
    \A d \in Day : d = run.day => rows[d].state = run.cache[d].amount

TrackInv ==
  /\ SumInv /\ GapInv
  /\ DaysTracked /\ Unmapped /\ FetchedFinal /\ WrittenAhead /\ WrittenRow

LEMMA TrackTyped ==
  ASSUME TrackInv
  PROVE  /\ SumInv /\ ChainInv /\ GapInv /\ StateOK /\ store \in StoreRecord /\ run \in RunRecord
         /\ chain \in ChainRecord /\ run.cache \in [Day -> Answer \cup {Unfetched}]
         /\ chain.rewrite.next \in Nat
BY Typed, Constants DEF TrackInv, SumInv, ChainInv

\* Away from a rewrite and a day just written, what is not tracked is in the stored rewrite.
LEMMA DueIsStored ==
  ASSUME TrackInv, run.pc \notin {"track", "rewrite"}
  PROVE  \A d \in Day : chain.status[d] = "imported" /\ ~Tracked(d) =>
           /\ chain.rewrite # NoRewrite /\ chain.rewrite.next <= d
           /\ Rewriting => run.day <= d
BY DEF TrackInv, DaysTracked, At

\* What a step fetches agrees with Amber.
LEMMA FetchedAgrees ==
  ASSUME TrackInv, amber' = amber, site'.mode = site.mode,
         \A d \in Day : run'.cache[d] \in {run.cache[d], Usage(d), Unfetched},
         \A d \in Day : store'.status[d] \in {"none", "empty"} =>
           store.status[d] \in {"none", "empty"} \/ Unread(run'.cache[d])
  PROVE  /\ FetchedFinal'
         /\ \A d \in Day : site'.mode = "full" /\ store'.status[d] \in {"none", "empty"} =>
              Unread(run'.cache[d]) \/ run'.cache[d].amount = amber'[d].amount
<1> SUFFICES ASSUME NEW d \in Day
             PROVE  /\ run'.cache[d].quality = "actual" => amber[d] = run'.cache[d]
                    /\ site.mode = "full" /\ store'.status[d] \in {"none", "empty"} =>
                         Unread(run'.cache[d]) \/ run'.cache[d].amount = amber[d].amount
  BY DEF FetchedFinal
<1>1. /\ Unfetched.quality # "actual" /\ Unread(Unfetched) /\ Nothing.quality # "actual"
      /\ Unread(Nothing)
  BY DEF Unfetched, Nothing, Unread, Empty
<1>2. CASE run'.cache[d] = Unfetched
  BY <1>1, <1>2
<1>3. CASE run'.cache[d] = Usage(d)
  <2>1. Usage(d) = Nothing \/ Usage(d) = amber[d]
    BY DEF Usage
  <2> QED
    BY <1>1, <1>3, <2>1
<1>4. CASE run'.cache[d] = run.cache[d]
  <2>1. run.cache[d].quality = "actual" => amber[d] = run.cache[d]
    BY DEF TrackInv, FetchedFinal
  <2>2. site.mode = "full" /\ store.status[d] \in {"none", "empty"} =>
          Unread(run.cache[d]) \/ run.cache[d].amount = amber[d].amount
    BY DEF TrackInv, WrittenAhead
  <2> QED
    BY <1>4, <2>1, <2>2
<1> QED
  BY <1>2, <1>3, <1>4

\* A step that changes no row, no imported day and nothing of Amber.
LEMMA TrackKept ==
  ASSUME TrackInv, SumInv', GapInv', rows' = rows, amber' = amber, site'.mode = site.mode,
         \A d \in Day : chain'.status[d] = "imported" <=> chain.status[d] = "imported",
         site'.mapped \/ (BeforeTheChain' /\ \A d \in Day : chain.status[d] # "imported"),
         \A d \in Day : run'.cache[d] \in {run.cache[d], Usage(d), Unfetched},
         \A d \in Day : store'.status[d] \in {"none", "empty"} =>
           \/ store.status[d] \in {"none", "empty"}
           \/ chain.status[d] # "imported" /\ Unread(run'.cache[d]),
         run'.pc \notin {"mark", "track"},
         \A d \in Day : chain.status[d] = "imported" /\ ~Tracked(d)' =>
           /\ \/ chain'.rewrite # NoRewrite /\ chain'.rewrite.next <= d
              \/ run'.pc = "rewrite" /\ run'.after = "checked"
           /\ Rewriting' => run'.day <= d
  PROVE  TrackInv'
<1>1. DaysTracked'
  BY DEF DaysTracked, At
<1>2. Unmapped'
  BY DEF Unmapped
<1>3. FetchedFinal' /\ WrittenAhead'
  <2>1. /\ FetchedFinal'
        /\ \A d \in Day : site'.mode = "full" /\ store'.status[d] \in {"none", "empty"} =>
             Unread(run'.cache[d]) \/ run'.cache[d].amount = amber'[d].amount
    BY FetchedAgrees
  <2>2. \A d \in Day : site.mode = "full" /\ store.status[d] \in {"none", "empty"}
                       /\ chain.status[d] = "imported" => rows[d].state = amber[d].amount
    BY DEF TrackInv, WrittenAhead
  <2>3. \A d \in Day : site'.mode = "full" /\ store'.status[d] \in {"none", "empty"}
                       /\ chain'.status[d] = "imported" => rows'[d].state = amber'[d].amount
    BY <2>2
  <2> QED
    BY <2>1, <2>3 DEF WrittenAhead, Unread, Empty
<1>4. WrittenRow'
  BY DEF WrittenRow
<1> QED
  BY <1>1, <1>2, <1>3, <1>4 DEF TrackInv

\* ... and leaves the Store alone, and a rewrite.
LEMMA TrackUntouched ==
  ASSUME TrackInv, SumInv', GapInv', rows' = rows, amber' = amber, site'.mode = site.mode,
         store'.revisions = store.revisions, run.pc \notin {"track", "rewrite"},
         \A d \in Day : chain'.status[d] = "imported" <=> chain.status[d] = "imported",
         chain'.rewrite = chain.rewrite,
         site'.mapped \/ (BeforeTheChain' /\ \A d \in Day : chain.status[d] # "imported"),
         \A d \in Day : run'.cache[d] \in {run.cache[d], Usage(d), Unfetched},
         \A d \in Day : store'.status[d] \in {"none", "empty"} =>
           \/ store.status[d] \in {"none", "empty"}
           \/ chain.status[d] # "imported" /\ Unread(run'.cache[d]),
         run'.pc \notin {"mark", "track"}, ~Rewriting'
  PROVE  TrackInv'
<1>1. \A d \in Day : Tracked(d)' <=> Tracked(d)
  BY DEF Tracked
<1>2. \A d \in Day : chain.status[d] = "imported" /\ ~Tracked(d)' =>
           /\ chain'.rewrite # NoRewrite /\ chain'.rewrite.next <= d
           /\ Rewriting' => run'.day <= d
  BY <1>1, DueIsStored
<1> QED
  BY <1>1, <1>2, TrackKept

\* Without a mapping no chain step is taken.
LEMMA StaysMapped ==
  ASSUME TrackInv,
         site'.mapped \/ (site'.mapped = site.mapped /\ (BeforeTheChain' \/ ~BeforeTheChain))
  PROVE  site'.mapped \/ (BeforeTheChain' /\ \A d \in Day : chain.status[d] # "imported")
BY DEF TrackInv, Unmapped

\* ... and the usage chain.
LEMMA QuietTrack ==
  ASSUME TrackInv, SumInv', GapInv', rows' = rows, amber' = amber, site'.mode = site.mode,
         store'.revisions = store.revisions, store'.status = store.status,
         run.pc \notin {"track", "rewrite"}, chain'.rewrite = chain.rewrite,
         \A d \in Day : chain'.status[d] = "imported" <=> chain.status[d] = "imported",
         site'.mapped \/ (site'.mapped = site.mapped /\ (BeforeTheChain' \/ ~BeforeTheChain)),
         \A d \in Day : run'.cache[d] \in {run.cache[d], Usage(d), Unfetched},
         run'.pc \notin {"mark", "track"}, ~Rewriting'
  PROVE  TrackInv'
BY StaysMapped, TrackUntouched

-----------------------------------------------------------------------------
(* Revisions: the steps that concern no revision *)

LEMMA StartTrack ==
  ASSUME TrackInv, SumInv', GapInv', StartRun
  PROVE  TrackInv'
<1>1. /\ run.pc = "idle" /\ UNCHANGED <<amber, site, store, chain, rows>>
      /\ run'.pc \in {"usage", "revisions"} /\ \A d \in Day : run'.cache[d] = Unfetched
  BY IdleFields DEF StartRun, RunRecord, setup, usage, At
<1> QED
  BY <1>1, QuietTrack DEF BeforeTheChain, Rewriting, At

LEMMA SetupTrack ==
  ASSUME TrackInv, SumInv', GapInv', Tick \/ AddMapping \/ ToggleFlows \/ Upgrade
  PROVE  TrackInv'
<1>1. run.pc = "idle" /\ UNCHANGED <<amber, store, chain, rows, run>>
  BY DEF Tick, AddMapping, ToggleFlows, Upgrade, usage, At
<1>2. site'.mode = site.mode /\ (site'.mapped \/ site'.mapped = site.mapped)
  BY TrackTyped DEF Tick, AddMapping, ToggleFlows, Upgrade, StateOK
<1> QED
  BY <1>1, <1>2, QuietTrack DEF BeforeTheChain, Rewriting, At

LEMMA EarlyTrack ==
  ASSUME TrackInv, SumInv', GapInv', RevisionsChecked \/ UsageDone \/ GuardEnds
  PROVE  TrackInv'
<1>1. /\ run.pc \in {"checked", "usage", "guard"} /\ UNCHANGED <<amber, site, chain, rows>>
      /\ store'.revisions = store.revisions /\ store'.status = store.status
  BY TrackTyped DEF RevisionsChecked, UsageDone, GuardEnds, SetChecked, StoreRecord, setup,
                    usage, At
<1>2. /\ run'.pc \in {"usage", "guard", "idle"}
      /\ \A d \in Day : run'.cache[d] \in {run.cache[d], Unfetched}
  BY TrackTyped, IdleFields DEF RevisionsChecked, UsageDone, GuardEnds, Goto, EndRun, RunRecord
<1> QED
  BY <1>1, <1>2, QuietTrack DEF BeforeTheChain, Rewriting, At

LEMMA GuardTrack ==
  ASSUME TrackInv, SumInv', GapInv', GuardAdopts \/ GuardAccepts
  PROVE  TrackInv'
<1>1. run.pc = "guard" /\ site.mapped /\ UNCHANGED <<amber, site, store, rows>>
  BY DEF GuardAdopts, GuardAccepts, setup, usage, At
<1>2. run'.pc = "resume" /\ run'.cache = run.cache
  BY TrackTyped DEF GuardAdopts, GuardAccepts, RunRecord, PCs
<1>3. chain'.status = chain.status /\ chain'.rewrite = chain.rewrite
  <2>1. chain \in ChainRecord /\ NoDay \in Day \cup {NoDay}
    BY TrackTyped
  <2>2. CASE GuardAdopts
    <3>1. chain' = Adopt(chain, LastRow) /\ LastRow \in Day
      BY <2>2, LastRowIsLast DEF GuardAdopts, Adoptable
    <3> QED
      BY <2>1, <3>1, AdoptFields
  <2>3. CASE GuardAccepts
    <3>1. chain' \in {chain, ChainSetPending(chain, NoDay)}
      BY <2>3 DEF GuardAccepts
    <3> QED
      BY <2>1, <3>1, SetPendingFields
  <2> QED
    BY <2>2, <2>3
<1> QED
  BY <1>1, <1>2, <1>3, QuietTrack DEF Rewriting, At

\* Resuming a rewrite starts from its next day.
LEMMA ResumeRewriteTrack ==
  ASSUME TrackInv, SumInv', GapInv', ResumeRewrite
  PROVE  TrackInv'
<1>1. run.pc = "resume" /\ UNCHANGED <<amber, site, store, chain, rows>>
  BY DEF ResumeRewrite, setup, usage, At
<1>2. /\ run'.cache = run.cache
      /\ \/ run'.pc = "start"
         \/ run'.pc = "rewrite" /\ run'.day = chain.rewrite.next
  BY TrackTyped DEF ResumeRewrite, BeginRewrite, Goto, RunRecord
<1>3. \A d \in Day : Tracked(d)' <=> Tracked(d)
  BY <1>1 DEF Tracked
<1>4. site'.mapped \/ (BeforeTheChain' /\ \A d \in Day : chain.status[d] # "imported")
  BY <1>1, StaysMapped DEF BeforeTheChain
<1>5. ASSUME NEW d \in Day, chain.status[d] = "imported", ~Tracked(d)'
      PROVE  /\ chain'.rewrite # NoRewrite /\ chain'.rewrite.next <= d
             /\ Rewriting' => run'.day <= d
  BY <1>1, <1>2, <1>3, <1>5, DueIsStored DEF Rewriting, At
<1> QED
  BY <1>1, <1>2, <1>4, <1>5, TrackKept

LEMMA ChainFirstDayTrack ==
  ASSUME TrackInv, SumInv', GapInv', ChainFirstDay
  PROVE  TrackInv'
<1>1. run.pc = "start" /\ UNCHANGED <<amber, site, store, rows>>
  BY DEF ChainFirstDay, setup, usage, At
<1>2. /\ run'.pc \in {"idle", "ready"}
      /\ \A d \in Day : run'.cache[d] \in {run.cache[d], Unfetched}
  BY TrackTyped, IdleFields DEF ChainFirstDay, EndRun, RunRecord
<1>3. /\ chain'.rewrite = chain.rewrite
      /\ \A d \in Day : chain'.status[d] = "imported" <=> chain.status[d] = "imported"
  <2>1. \/ chain' = chain
        \/ chain' = ChainMarkSkipped(chain, FirstDay, Earlier(Boundary - 1, run.yesterday),
                                     "unavailable")
    BY DEF ChainFirstDay
  <2>2. chain \in ChainRecord /\ "unavailable" \in ChainSkipped
    BY TrackTyped DEF ChainSkipped
  <2> QED
    BY <2>1, <2>2, SkippingImportsNothing
<1> QED
  BY <1>1, <1>2, <1>3, QuietTrack DEF BeforeTheChain, Rewriting, At

\* The retry starts with nothing left to rewrite.
LEMMA ChainReadyTrack ==
  ASSUME TrackInv, SumInv', GapInv', ChainReady
  PROVE  TrackInv'
<1>1. run.pc = "ready" /\ UNCHANGED <<amber, site, store, rows>>
  BY DEF ChainReady, setup, usage, At
<1>2. /\ run'.pc \in {"idle", "walk", "rewrite"}
      /\ \A d \in Day : run'.cache[d] \in {run.cache[d], Unfetched}
  BY TrackTyped, IdleFields DEF ChainReady, EndRun, Goto, RunRecord
<1>3. chain'.status = chain.status /\ (run'.pc # "rewrite" => chain'.rewrite = chain.rewrite)
  <2>1. chain' = chain \/ \E progress : chain' = StartRetry(chain, progress)
    BY DEF ChainReady
  <2>2. chain'.status = chain.status
    <3>1. ASSUME NEW progress, chain' = StartRetry(chain, progress)
          PROVE  chain'.status = chain.status
      BY <3>1, TrackTyped DEF StartRetry, ChainRecord
    <3> QED
      BY <2>1, <3>1
  <2>3. run'.pc # "rewrite" => chain' \in {chain, StartRetry(chain, chain.rewrite)}
    BY TrackTyped DEF ChainReady, RunRecord
  <2> QED
    BY <2>2, <2>3, TrackTyped DEF StartRetry, ChainRecord
<1>4. CASE run'.pc # "rewrite"
  BY <1>1, <1>2, <1>3, <1>4, QuietTrack DEF BeforeTheChain, Rewriting, At
<1>5. CASE run'.pc = "rewrite"
  <2>1. chain.rewrite = NoRewrite
    <3>1. Flows
      BY <1>5, IdleFields DEF ChainReady, EndRun
    <3> QED
      BY <1>1, <3>1, TrackTyped DEF ChainInv, Control, AfterGuard
  <2>2. \A d \in Day : chain.status[d] = "imported" => Tracked(d)'
    BY <1>1, <2>1, DueIsStored DEF Tracked
  <2>3. site'.mapped \/ (BeforeTheChain' /\ \A d \in Day : chain.status[d] # "imported")
    BY <1>1, StaysMapped DEF BeforeTheChain
  <2> QED
    BY <1>1, <1>2, <1>3, <1>5, <2>2, <2>3, TrackKept
<1> QED
  BY <1>4, <1>5

\* The walk's day is one the chain has not imported.
LEMMA WalkEmptyTrack ==
  ASSUME TrackInv, SumInv', GapInv', WalkEmpty
  PROVE  TrackInv'
<1> DEFINE day   == run.day
           cache == CacheWith(day, run.yesterday)
           noted == NoteEmpty(store, day, today)
<1>1. /\ run.pc = "walk" /\ UNCHANGED <<amber, site, rows>> /\ day \in Day
      /\ chain.lastWritten < day /\ run.yesterday \in 0..MaxDay /\ today \in Date
  <2>1. /\ run.pc = "walk" /\ UNCHANGED <<amber, site, rows>> /\ run.day <= run.yesterday
    BY DEF WalkEmpty, setup, At
  <2> QED
    BY <2>1, AtTheWalk, TrackTyped, Typed
<1>2. /\ \A d \in Day : cache[d] \in {run.cache[d], Usage(d)}
      /\ Empty(cache[day])
  BY <1>1, CacheWithIs, TrackTyped DEF WalkEmpty
<1>3. chain.status[day] # "imported"
  <2>1. chain.status[day] = "imported" => day <= chain.lastWritten
    BY <1>1, TrackTyped DEF ChainInv, Records
  <2>2. day \in Nat /\ chain.lastWritten \in Nat
    BY <1>1, TrackTyped, Numbers, Constants
  <2> QED
    BY <1>1, <2>1, <2>2
<1>4. /\ noted.revisions = store.revisions
      /\ \A d \in Day : d # day => noted.status[d] = store.status[d]
  BY <1>1, TrackTyped DEF NoteEmpty, MarkDay, StoreRecord
<1> HIDE DEF noted, cache
<1>5. /\ store' \in {store, noted}
      /\ \/ chain' = chain
         \/ \E how \in ChainSkipped : chain' = ChainMarkSkipped(chain, day, day, how)
      /\ \/ run' = Idle
         \/ run' = [run EXCEPT !.cache = cache, !.day = day + 1]
  BY <1>1 DEF WalkEmpty, ChainEmptyDay, ChainSkipped, EndRun, cache, noted
<1>6. /\ run'.pc \in {"idle", "walk"} /\ \A d \in Day : run'.cache[d] \in {cache[d], Unfetched}
  BY <1>1, <1>5, TrackTyped, IdleFields DEF RunRecord
<1>7. /\ chain'.rewrite = chain.rewrite
      /\ \A d \in Day : chain'.status[d] = "imported" <=> chain.status[d] = "imported"
  BY <1>5, TrackTyped, SkippingImportsNothing
<1>8. Unread(run'.cache[day])
  BY <1>1, <1>2, <1>6 DEF Unread
<1>9. site'.mapped \/ (BeforeTheChain' /\ \A d \in Day : chain.status[d] # "imported")
  BY <1>1, StaysMapped DEF BeforeTheChain
<1>10. \A d \in Day : store'.status[d] \in {"none", "empty"} =>
           \/ store.status[d] \in {"none", "empty"}
           \/ chain.status[d] # "imported" /\ Unread(run'.cache[d])
  BY <1>3, <1>4, <1>5, <1>8
<1>11. store'.revisions = store.revisions
  BY <1>4, <1>5
<1>12. ~Rewriting'
  BY <1>6 DEF Rewriting, At
<1> QED
  BY <1>1, <1>2, <1>6, <1>7, <1>9, <1>10, <1>11, <1>12, TrackUntouched

LEMMA WalkDayTrack ==
  ASSUME TrackInv, SumInv', GapInv', WalkDay
  PROVE  TrackInv'
<1> DEFINE day   == run.day
           cache == CacheWith(day, run.yesterday)
<1>1. /\ run.pc = "walk" /\ UNCHANGED <<amber, site, store, rows>> /\ day \in Day
      /\ run.yesterday \in 0..MaxDay
  BY AtTheWalk, TrackTyped DEF WalkDay, setup, usage, At
<1>2. \A d \in Day : cache[d] \in {run.cache[d], Usage(d)}
  BY <1>1, CacheWithIs, TrackTyped
<1> HIDE DEF cache
<1>3. \/ run' = [run EXCEPT !.cache = cache, !.pc = "rows", !.rewriting = FALSE]
      \/ run' = [run EXCEPT !.cache = cache, !.day = day + 1]
  BY DEF WalkDay, cache
<1>4. run'.cache = cache /\ run'.pc \in {"rows", "walk"} /\ (run'.pc = "rows" => ~run'.rewriting)
  BY <1>1, <1>3, TrackTyped DEF RunRecord
<1>5. /\ chain'.rewrite = chain.rewrite
      /\ \A d \in Day : chain'.status[d] = "imported" <=> chain.status[d] = "imported"
  <2>1. \/ chain' \in {chain, ChainSetPending(chain, day)}
        \/ chain' = ChainMarkSkipped(chain, day, day, "sensor")
    BY DEF WalkDay
  <2>2. chain \in ChainRecord /\ "sensor" \in ChainSkipped
    BY TrackTyped DEF ChainSkipped
  <2> QED
    BY <1>1, <2>1, <2>2, SkippingImportsNothing, SetPendingFields
<1> QED
  BY <1>1, <1>2, <1>4, <1>5, QuietTrack DEF BeforeTheChain, Rewriting, At

LEMMA WalkDoneTrack ==
  ASSUME TrackInv, SumInv', GapInv', WalkDone
  PROVE  TrackInv'
<1>1. /\ run.pc = "walk" /\ UNCHANGED <<amber, site, store, chain, rows>> /\ run' = Idle
  BY DEF WalkDone, EndRun, setup, usage, At
<1> QED
  BY <1>1, IdleFields, QuietTrack DEF BeforeTheChain, Rewriting, At

-----------------------------------------------------------------------------
(* Revisions: the revision check and the usage chain *)

\* A day the revision check drops is Amber's last word, and the row's.
LEMMA CheckRevisionsTrack ==
  ASSUME TrackInv, SumInv', GapInv', CheckRevisions
  PROVE  TrackInv'
<1> DEFINE days    == RevisionDaysOf(store)
           cache   == IF days = {} THEN run.cache ELSE Fetch(MinOf(days), run.yesterday)
           changed == {d \in days : Changed(cache, d)}
           final   == {d \in days : Final(cache, d)}
           pc      == IF changed = {} THEN "checked" ELSE "revised"
<1>1. /\ run.pc = "revisions" /\ UNCHANGED <<today, amber, site, chain, rows>>
      /\ store' = DropRevisions(store, final)
      /\ run' = [run EXCEPT !.cache = cache, !.day = MinOf(changed), !.pc = pc]
  BY DEF CheckRevisions, setup, At
<1>2. \A d \in Day : cache[d] \in {run.cache[d], Usage(d)}
  BY FetchIs, TrackTyped
<1>3. ASSUME NEW d \in days
      PROVE  cache[d] = Usage(d)
  <2>1. MinOf(days) \in days /\ MinOf(days) <= d /\ days \in SUBSET Day
    <3>1. days \in SUBSET Day
      BY DEF RevisionDaysOf
    <3> HIDE DEF days
    <3> QED
      BY <1>3, <3>1, MinOfIsLeast
  <2>2. d < today /\ run.yesterday = today - 1
    BY <1>1, TrackTyped DEF ChainInv, Lasting, Fetches, At, RevisionDaysOf
  <2>3. d \in Nat /\ today \in Nat /\ MinOf(days) \in Nat
    BY <1>3, <2>1, TrackTyped, Numbers, Constants
  <2>4. d \in MinOf(days)..run.yesterday
    BY <2>1, <2>2, <2>3
  <2>5. days # {} /\ d \in Day
    BY <1>3, <2>1
  <2> QED
    BY <2>4, <2>5, FetchIs, TrackTyped
<1>4. ASSUME NEW d \in final
      PROVE  /\ amber[d].quality = "actual" /\ amber[d].amount = store.revisions[d].hash
             /\ d \in Day
  <2>1. d \in days /\ d \in Day /\ Final(cache, d)
    BY <1>4 DEF RevisionDaysOf
  <2>2. /\ cache[d] = Usage(d) /\ ~Empty(cache[d]) /\ cache[d].quality # "estimated"
        /\ cache[d].amount = store.revisions[d].hash
    BY <1>3, <2>1 DEF Final, Changed
  <2>3. cache[d] = amber[d] /\ amber[d] \in Answer
    BY <2>1, <2>2, UsageIs, TrackTyped, Typed
  <2>4. amber[d] # Nothing
    BY <2>2, <2>3 DEF Empty, Nothing
  <2> QED
    BY <2>1, <2>2, <2>3, <2>4 DEF Answer
<1> HIDE DEF cache, changed, pc, final
<1>5. /\ run'.cache = cache /\ run'.pc \in {"checked", "revised"}
  <2>1. run' = [run EXCEPT !.cache = cache, !.day = MinOf(changed), !.pc = pc]
        /\ pc \in {"checked", "revised"}
    BY <1>1 DEF pc
  <2> QED
    BY <2>1, TrackTyped DEF RunRecord
<1>6. /\ store'.status = store.status
      /\ \A d \in Day : store'.revisions[d] = IF d \in final THEN NoRevision
                                              ELSE store.revisions[d]
  BY <1>1, TrackTyped DEF DropRevisions, StoreRecord
<1>7. ASSUME NEW d \in Day, Tracked(d)
      PROVE  Tracked(d)'
  <2>1. CASE d \in final
    BY <1>1, <1>4, <1>7, <2>1 DEF Tracked
  <2>2. CASE d \notin final
    BY <1>1, <1>6, <1>7, <2>2 DEF Tracked
  <2> QED
    BY <2>1, <2>2
<1>8. ASSUME NEW d \in Day, chain.status[d] = "imported", ~Tracked(d)'
      PROVE  chain'.rewrite # NoRewrite /\ chain'.rewrite.next <= d
  BY <1>1, <1>7, <1>8, DueIsStored
<1>9. site'.mapped \/ (BeforeTheChain' /\ \A d \in Day : chain.status[d] # "imported")
  BY <1>1, <1>5, StaysMapped DEF BeforeTheChain
<1>10. ~Rewriting'
  BY <1>5 DEF Rewriting, At
<1> QED
  BY <1>1, <1>2, <1>5, <1>6, <1>8, <1>9, <1>10, TrackKept

\* The usage chain's rewrite replaces fingerprints from its first day on, and the chain's own
\* rewrite starts there too.
LEMMA RewriteAfterRevisionTrack ==
  ASSUME TrackInv, SumInv', GapInv', NoneReplaced, RewriteAfterRevision
  PROVE  TrackInv'
<1>1. run.pc = "revised" /\ UNCHANGED <<amber, site, chain, rows>>
  BY DEF RewriteAfterRevision, setup, At
<1>2. run.day \in Day
  BY <1>1, TrackTyped DEF ChainInv, Control, BeforeGuard, At
<1>3. store'.status = store.status
  BY RevisionsAlike, TrackTyped DEF SharedAlike
<1>4. IF site.mapped /\ ChainRewriteDue
      THEN run'.pc = "rewrite" /\ run'.day = run.day /\ run'.after = "checked"
      ELSE run'.pc = "checked"
  BY TrackTyped DEF RewriteAfterRevision, BeginRewrite, Goto, RunRecord
<1>5. run'.cache = run.cache
  BY TrackTyped DEF RewriteAfterRevision, BeginRewrite, Goto, RunRecord
<1>6. ASSUME NEW d \in Day, d < run.day \/ store.status[d] # "imported" \/ site.mode # "full"
      PROVE  store'.revisions[d] = store.revisions[d]
  <2>1. store' = UsageRewritten \/ (store' = store)
    BY DEF RewriteAfterRevision, usage
  <2>2. site.mode # "full" => store' = store
    BY DEF RewriteAfterRevision, usage
  <2>3. d < run.day => ~(d >= run.day)
    <3>1. d \in Nat /\ run.day \in Nat
      BY <1>2, Constants
    <3> QED
      BY <3>1
  <2>4. d < run.day \/ store.status[d] # "imported" =>
          UsageRewritten.revisions[d] = store.revisions[d]
    BY <2>3, TrackTyped DEF UsageRewritten, StoreRecord
  <2> QED
    BY <1>6, <2>1, <2>2, <2>4
<1>7. ASSUME NEW d \in Day, chain.status[d] = "imported", ~Tracked(d)'
      PROVE  /\ \/ chain'.rewrite # NoRewrite /\ chain'.rewrite.next <= d
                \/ run'.pc = "rewrite" /\ run'.after = "checked"
             /\ Rewriting' => run'.day <= d
  <2>1. d \in Nat /\ run.day \in Nat /\ chain.rewrite.next \in Nat
    BY <1>2, TrackTyped, Constants
  <2>2. CASE ~Tracked(d)
    <3>1. chain.rewrite # NoRewrite /\ chain.rewrite.next <= d
      BY <1>1, <1>7, <2>2, DueIsStored
    <3>2. run.day <= chain.rewrite.next
      BY <1>1, <3>1 DEF NoneReplaced, At
    <3>3. run.day <= d
      BY <2>1, <3>1, <3>2
    <3> QED
      BY <1>1, <1>4, <3>1, <3>3 DEF Rewriting, At
  <2>3. CASE Tracked(d)
    <3>1. store'.revisions[d] # store.revisions[d]
      BY <1>1, <1>7, <2>3 DEF Tracked
    <3>2. run.day <= d
      BY <1>6, <2>1, <3>1
    <3>3. d <= chain.lastWritten /\ chain.lastWritten \in Nat
      BY <1>7, TrackTyped, Numbers DEF ChainInv, Records
    <3>4. ChainRewriteDue
      <4>1. run.day <= chain.lastWritten /\ chain.lastWritten # NoDay
        BY <1>2, <2>1, <3>2, <3>3, Constants
      <4> QED
        BY <4>1 DEF ChainRewriteDue
    <3>5. site.mapped
      BY <1>7 DEF TrackInv, Unmapped
    <3> QED
      BY <1>4, <3>2, <3>4, <3>5
  <2> QED
    BY <2>2, <2>3
<1>8. site'.mapped \/ (BeforeTheChain' /\ \A d \in Day : chain.status[d] # "imported")
  <2>1. ~site.mapped => run'.pc = "checked"
    BY <1>4
  <2> QED
    BY <1>1, <2>1 DEF TrackInv, Unmapped, BeforeTheChain
<1>9. run'.pc \notin {"mark", "track"}
  BY <1>4
<1> QED
  BY <1>1, <1>3, <1>5, <1>7, <1>8, <1>9, TrackKept

\* Of an estimated day the fingerprint of what was fetched is kept.
LEMMA TrackHash ==
  ASSUME NEW st \in StoreRecord, NEW day \in Day, NEW a, a.quality = "estimated"
  PROVE  Track(st, day, a).revisions[day].hash = a.amount
BY DEF Track, SetRevision, StoreRecord

\* A day with usage that was fetched and entered is tracked under its row, if that is what
\* was fetched.
LEMMA TrackEnters ==
  ASSUME NEW st \in StoreRecord, NEW day \in Day, NEW a \in Answer \cup {Unfetched},
         a # Unfetched, ~Empty(a), store' = Track(st, day, a),
         rows'[day].state = a.amount, a.quality = "actual" => amber'[day] = a
  PROVE  Tracked(day)'
<1>1. a.quality \in {"estimated", "actual"}
  BY DEF Answer, Nothing, Empty
<1> QED
  BY <1>1, TrackHash DEF Tracked

\* The usage chain's next day is after its marker.
LEMMA MarkerBehind ==
  ASSUME ChainInv
  PROVE  /\ store.marker \in Nat /\ NextUsageDay \in Nat /\ store.marker < NextUsageDay
         /\ store.marker # NoDay => NextUsageDay = store.marker + 1
<1>1. store.marker \in Day \cup {NoDay}
  BY Typed DEF ChainInv, StoreRecord
<1>2. \A d \in Day \cup {NoDay} : d \in Nat
  BY DEF Day, NoDay
<1>3. Boundary \in Nat /\ Boundary > 0
  BY Numbers
<1>4. store.marker = NoDay => store.marker < Boundary
  BY <1>3 DEF NoDay
<1> QED
  BY <1>1, <1>2, <1>3, <1>4 DEF NextUsageDay

\* The usage chain enters a day the chain wrote ahead under the amount of its row.
LEMMA ImportUsageDayTrack ==
  ASSUME TrackInv, SumInv', GapInv', ImportUsageDay
  PROVE  TrackInv'
<1> DEFINE day   == NextUsageDay
           cache == CacheWith(day, run.yesterday)
           noted == NoteEmpty(store, day, today)
<1>1. /\ run.pc = "usage" /\ UsageBehind /\ Boundary <= day
      /\ UNCHANGED <<today, amber, site, chain, rows>> /\ site.mode = "full"
  <2>1. day >= Boundary => Boundary <= day
    OBVIOUS
  <2> QED
    BY <2>1 DEF ImportUsageDay, UsageBehind, setup, At
<1>2. day \in Day /\ run.yesterday \in 0..MaxDay /\ day \in Nat
  BY <1>1, NextUsageDayIs, TrackTyped, Constants DEF ChainInv, Fetches, At
<1>3. /\ cache \in [Day -> Answer \cup {Unfetched}] /\ cache[day] # Unfetched
      /\ cache[day] \in Answer
      /\ \A d \in Day : cache[d] \in {run.cache[d], Usage(d)}
  BY <1>2, CacheWithIs, TrackTyped
<1>4. store \in StoreRecord /\ today \in Date
  BY TrackTyped, Typed
<1>5. noted.revisions = store.revisions /\ noted \in StoreRecord
  BY <1>2, <1>4, NoteEmptyType, ResolvedIs
<1>6. store.status[day] \in {"none", "empty"}
  <2>1. store.marker \in Nat /\ store.marker < day
    BY MarkerBehind, TrackTyped
  <2>2. store.status[day] \notin {"none", "empty"} => day <= store.marker
    BY <1>2 DEF TrackInv, GapInv, Shared
  <2> QED
    BY <1>2, <2>1, <2>2
<1>7. /\ run'.cache = cache /\ run'.pc \in {"usage", "guard"}
  <2>1. \/ run' = [run EXCEPT !.cache = cache]
        \/ run' = [run EXCEPT !.cache = cache, !.pc = "guard"]
    BY DEF ImportUsageDay
  <2> HIDE DEF cache
  <2> QED
    BY <1>1, <2>1, TrackTyped DEF RunRecord
<1>8. /\ BeforeTheChain' /\ ~Rewriting' /\ run'.pc \notin {"mark", "track"}
      /\ site'.mapped \/ (BeforeTheChain' /\ \A d \in Day : chain.status[d] # "imported")
  BY <1>1, <1>7, StaysMapped DEF BeforeTheChain, Rewriting, At
<1>9. CASE ~Empty(cache[day])
  <2> DEFINE st == MarkImported(store, day)
             n  == Track(st, day, cache[day])
  <2>1. store' = n
    BY <1>9 DEF ImportUsageDay
  <2>2. /\ st \in StoreRecord /\ st.revisions = store.revisions
        /\ \A d \in Day : st.status[d] = IF d = day THEN "imported" ELSE store.status[d]
    <3>1. st \in StoreRecord /\ st.revisions = store.revisions
      BY <1>2, <1>4, MarkImportedType, ResolvedIs
    <3>2. st.status = [store.status EXCEPT ![day] = "imported"]
      BY <1>4 DEF MarkImported, StoreRecord
    <3>3. store.status \in [Day -> Status]
      BY <1>4 DEF StoreRecord
    <3> HIDE DEF st, day
    <3> QED
      BY <1>2, <3>1, <3>2, <3>3
  <2> HIDE DEF st
  <2>3. /\ n.status = st.status /\ \A d \in Day : d # day => n.revisions[d] = st.revisions[d]
    BY <1>2, <1>3, <2>2, TrackIs, TrackTyped
  <2> HIDE DEF n
  <2>4. \A d \in Day : store'.status[d] \in {"none", "empty"} =>
          store.status[d] \in {"none", "empty"}
    BY <2>1, <2>2, <2>3
  <2>5. ASSUME chain.status[day] = "imported", NEW d \in Day, d = day
        PROVE  Tracked(d)'
    <3>1. rows[day].state = amber[day].amount
      BY <1>1, <1>2, <1>6, <2>5 DEF TrackInv, WrittenAhead
    <3>2. cache[day] = amber[day] \/ cache[day] = run.cache[day]
      BY <1>1, <1>2, <1>3, <1>9, UsageIs, TrackTyped
    <3>3. /\ run.cache[day].quality = "actual" => amber[day] = run.cache[day]
          /\ Unread(run.cache[day]) \/ run.cache[day].amount = amber[day].amount
      BY <1>1, <1>2, <1>6 DEF TrackInv, FetchedFinal, WrittenAhead
    <3>4. ~Unread(cache[day])
      BY <1>3, <1>9 DEF Unread
    <3>5. /\ cache[day].quality = "actual" => amber[day] = cache[day]
          /\ cache[day].amount = amber[day].amount
      BY <3>2, <3>3, <3>4
    <3>6. store' = Track(st, d, cache[d])
      BY <2>1, <2>5 DEF n
    <3> HIDE DEF cache, day
    <3>7. /\ cache[d] \in Answer \cup {Unfetched} /\ cache[d] # Unfetched /\ ~Empty(cache[d])
          /\ rows'[d].state = cache[d].amount
          /\ cache[d].quality = "actual" => amber'[d] = cache[d]
      BY <1>1, <1>3, <1>9, <2>5, <3>1, <3>5
    <3> QED
      BY <2>2, <3>6, <3>7, TrackEnters
  <2>6. ASSUME NEW d \in Day, chain.status[d] = "imported", ~Tracked(d)'
        PROVE  chain'.rewrite # NoRewrite /\ chain'.rewrite.next <= d
    <3>1. d # day
      BY <2>5, <2>6
    <3>2. ~Tracked(d)
      BY <1>1, <2>1, <2>2, <2>3, <2>6, <3>1 DEF Tracked
    <3> QED
      BY <1>1, <2>6, <3>2, DueIsStored
  <2> HIDE DEF cache, day
  <2> QED
    BY <1>1, <1>3, <1>7, <1>8, <2>4, <2>6, TrackKept
<1>10. CASE Empty(cache[day])
  <2>1. store' \in {noted, MarkSkipped(noted, day, day, "gap")}
    BY <1>10 DEF ImportUsageDay
  <2>2. chain.status[day] # "imported"
    BY <1>1, <1>2, <1>3, <1>10, FetchedDays, TrackTyped DEF ChainInv, Given
  <2>3. \A d \in Day : d # day => noted.status[d] = store.status[d]
    BY <1>4 DEF NoteEmpty, MarkDay, StoreRecord
  <2> HIDE DEF noted, cache
  <2>4. /\ \A d \in Day : d # day =>
             store'.revisions[d] = store.revisions[d] /\ store'.status[d] = store.status[d]
    <3>1. \A d \in Day : d \in day..day => d = day
      BY <1>2, Constants
    <3>2. LET s == MarkSkipped(noted, day, day, "gap") IN
          \A d \in Day : d \notin day..day =>
            s.revisions[d] = noted.revisions[d] /\ s.status[d] = noted.status[d]
      BY <1>5 DEF MarkSkipped, StoreRecord
    <3> QED
      BY <1>5, <2>1, <2>3, <3>1, <3>2
  <2>5. \A d \in Day : store'.status[d] \in {"none", "empty"} =>
          store.status[d] \in {"none", "empty"}
    BY <1>6, <2>4
  <2>6. ASSUME NEW d \in Day, chain.status[d] = "imported", ~Tracked(d)'
        PROVE  chain'.rewrite # NoRewrite /\ chain'.rewrite.next <= d
    <3>1. ~Tracked(d)
      BY <1>1, <2>2, <2>4, <2>6 DEF Tracked
    <3> QED
      BY <1>1, <2>6, <3>1, DueIsStored
  <2> HIDE DEF day
  <2> QED
    BY <1>1, <1>3, <1>7, <1>8, <2>5, <2>6, TrackKept
<1> QED
  BY <1>9, <1>10

\* Days that have left Amber's retention are not ones the chain wrote.
LEMMA SkipUnavailableUsageTrack ==
  ASSUME TrackInv, SumInv', GapInv', AheadInReach, SkipUnavailableUsage
  PROVE  TrackInv'
<1> DEFINE first == NextUsageDay
           last  == Earlier(Boundary - 1, run.yesterday)
<1>1. /\ run.pc = "usage" /\ site.mode = "full" /\ first < Boundary
      /\ UNCHANGED <<amber, site, chain, rows, run>>
      /\ store' = MarkSkipped(store, first, last, "unavailable")
  BY DEF SkipUnavailableUsage, UsageBehind, setup, At
<1>2. /\ \A d \in Day : d \notin first..last =>
           store'.revisions[d] = store.revisions[d] /\ store'.status[d] = store.status[d]
      /\ \A d \in Day : d \in first..last => store'.status[d] = "unavailable"
  BY <1>1, TrackTyped DEF MarkSkipped, StoreRecord
<1>3. ASSUME NEW d \in Day, d \in first..last
      PROVE  chain.status[d] # "imported"
  <2>1. /\ store.marker \in Nat /\ first \in Nat /\ store.marker < first /\ d \in Nat
        /\ Boundary \in Nat /\ run.yesterday \in Int
    <3>1. run.yesterday \in 0..MaxDay
      BY TrackTyped DEF RunRecord
    <3> QED
      BY <3>1, MarkerBehind, TrackTyped, Numbers, Constants
  <2> HIDE DEF first
  <2>2. first <= d /\ d <= last /\ last <= Boundary - 1
    BY <1>3, <2>1 DEF Earlier
  <2> HIDE DEF last
  <2>3. ~(d <= store.marker) /\ ~(d >= Boundary)
    <3>1. last \in Int
      BY <2>1 DEF last, Earlier
    <3> QED
      BY <2>1, <2>2, <3>1
  <2>4. store.status[d] \in {"none", "empty"}
    BY <2>3 DEF TrackInv, GapInv, Shared
  <2> QED
    BY <1>1, <2>3, <2>4 DEF AheadInReach
<1>4. ASSUME NEW d \in Day, chain.status[d] = "imported", ~Tracked(d)'
      PROVE  chain'.rewrite # NoRewrite /\ chain'.rewrite.next <= d
  <2>1. ~Tracked(d)
    BY <1>1, <1>2, <1>3, <1>4 DEF Tracked
  <2> QED
    BY <1>1, <1>4, <2>1, DueIsStored
<1>5. \A d \in Day : store'.status[d] \in {"none", "empty"} =>
        store.status[d] \in {"none", "empty"}
  <2>1. \A d \in Day : store'.status[d] \in {"none", "empty"} => d \notin first..last
    BY <1>2
  <2> QED
    BY <1>2, <2>1
<1>6. site'.mapped \/ (BeforeTheChain' /\ \A d \in Day : chain.status[d] # "imported")
  BY <1>1, StaysMapped DEF BeforeTheChain
<1>7. ~Rewriting'
  BY <1>1 DEF Rewriting, At
<1> QED
  BY <1>1, <1>4, <1>5, <1>6, <1>7, TrackKept

-----------------------------------------------------------------------------
(* Revisions: what the chain writes *)

\* Entering the day just written, under the amount of its row.
LEMMA TrackDayTrack ==
  ASSUME TrackInv, SumInv', GapInv', TrackDay
  PROVE  TrackInv'
<1> DEFINE day == run.day
<1>1. /\ run.pc = "track" /\ UNCHANGED <<amber, site, chain, rows>>
      /\ store' = Track(store, day, run.cache[day])
  BY DEF TrackDay, setup, At
<1>2. /\ run'.pc = (IF run.rewriting THEN "rewrite" ELSE "walk")
      /\ run'.day = day + 1 /\ run'.cache = run.cache
  BY TrackTyped DEF TrackDay, RunRecord
<1>3. /\ day \in Day /\ day \in Nat
      /\ run.cache[day] # Unfetched /\ ~Empty(run.cache[day])
  <2>1. Readable
    BY <1>1, TrackTyped DEF ChainInv, Control, Walks, Rewrites, Rewriting, At
  <2> QED
    BY <2>1, Constants DEF Readable
<1>4. ASSUME NEW d \in Day, d = day
      PROVE  Tracked(d)'
  <2>1. run.cache[d] \in Answer \cup {Unfetched}
    BY TrackTyped
  <2>2. rows[d].state = run.cache[d].amount
    BY <1>1, <1>4 DEF TrackInv, WrittenRow
  <2>3. run.cache[d].quality = "actual" => amber[d] = run.cache[d]
    BY DEF TrackInv, FetchedFinal
  <2> QED
    BY <1>1, <1>3, <1>4, <2>1, <2>2, <2>3, TrackTyped, TrackEnters
<1>5. ASSUME NEW d \in Day, chain.status[d] = "imported", ~Tracked(d)'
      PROVE  /\ chain'.rewrite # NoRewrite /\ chain'.rewrite.next <= d
             /\ Rewriting' => run'.day <= d
  <2>1. d # day /\ d \in Nat
    BY <1>4, <1>5, Constants
  <2>2. store'.revisions[d] = store.revisions[d]
    BY <1>1, <1>3, <2>1, TrackIs, TrackTyped
  <2>3. ~Tracked(d)
    BY <1>1, <1>5, <2>2 DEF Tracked
  <2>4. /\ chain.rewrite # NoRewrite /\ chain.rewrite.next <= d
        /\ Rewriting => day <= d
    BY <1>1, <1>5, <2>1, <2>3 DEF TrackInv, DaysTracked, At
  <2>5. Rewriting' => Rewriting
    BY <1>1, <1>2 DEF Rewriting, At
  <2>6. Rewriting => day + 1 <= d
    BY <1>3, <2>1, <2>4
  <2> QED
    BY <1>1, <1>2, <2>4, <2>5, <2>6
<1>6. store'.status = store.status
  BY <1>1, <1>3, TrackIs, TrackTyped
<1>7. site'.mapped \/ (BeforeTheChain' /\ \A d \in Day : chain.status[d] # "imported")
  BY <1>1, StaysMapped DEF BeforeTheChain
<1> QED
  BY <1>1, <1>2, <1>5, <1>6, <1>7, TrackKept

\* A day written anew is covered by the rewrite's progress, or recorded next.
LEMMA WriteRowsTrack ==
  ASSUME TrackInv, SumInv', GapInv', WriteRows
  PROVE  TrackInv'
<1> DEFINE day    == run.day
           amount == run.cache[day].amount
           r      == [state |-> amount, sum |-> Baseline(day) + amount]
<1>1. run.pc = "rows" /\ UNCHANGED <<amber, site, store, chain>>
  BY DEF WriteRows, setup, usage, At
<1>2. /\ day \in Day /\ day \in Nat /\ day > 0 /\ ~Unread(run.cache[day])
      /\ run.rewriting => Rewriting
      /\ ~run.rewriting => chain.marker < day
  <2>1. Readable /\ (run.rewriting => Rewriting) /\ (~run.rewriting => chain.marker < day)
    BY <1>1, AtTheRewritesDay, AtTheWalksDay, TrackTyped
  <2>2. \A d \in Day : d \in Nat /\ d > 0
    BY DEF Day
  <2> QED
    BY <2>1, <2>2 DEF Readable, Unread
<1>3. rows' = [rows EXCEPT ![day] = r] /\ run' = [run EXCEPT !.pc = "mark"]
  BY <1>2, PrevHasRow, TrackTyped DEF WriteRows, Goto
<1>4. \A d \in Day : rows'[d] = IF d = day THEN r ELSE rows[d]
  <2> HIDE DEF r
  <2> QED
    BY <1>2, <1>3, TrackTyped DEF StateOK
<1>5. r.state = amount
  OBVIOUS
<1> HIDE DEF r
<1>6. /\ run'.pc = "mark" /\ run'.day = day /\ run'.rewriting = run.rewriting
      /\ run'.cache = run.cache
  BY <1>3, TrackTyped DEF RunRecord
<1>7. ASSUME NEW d \in Day, chain.status[d] = "imported", ~Tracked(d)'
      PROVE  /\ chain.rewrite # NoRewrite /\ chain.rewrite.next <= d
             /\ Rewriting' => day <= d
  <2>1. CASE d # day
    <3>1. ~Tracked(d)
      BY <1>1, <1>4, <1>7, <2>1 DEF Tracked
    <3>2. Rewriting' <=> Rewriting
      BY <1>1, <1>6 DEF Rewriting, At
    <3> QED
      BY <1>1, <1>7, <3>1, <3>2, DueIsStored
  <2>2. CASE d = day
    <3>1. d <= chain.marker
      BY <1>7, TrackTyped DEF ChainInv, Records
    <3>2. run.rewriting
      BY <1>2, <2>2, <3>1, TrackTyped, Numbers
    <3>3. chain.rewrite.next = day
      BY <1>1, <1>2, <3>2, TrackTyped DEF SumInv, RewriteCovers, At
    <3>4. chain.rewrite # NoRewrite
      BY <1>2, <3>3 DEF NoRewrite, NoDay
    <3> QED
      BY <1>2, <2>2, <3>3, <3>4
  <2> QED
    BY <2>1, <2>2
<1>8. DaysTracked'
  BY <1>1, <1>6, <1>7 DEF DaysTracked
<1>9. Unmapped'
  BY <1>1 DEF TrackInv, Unmapped, BeforeTheChain
<1>10. FetchedFinal' /\ WrittenRow'
  BY <1>1, <1>4, <1>5, <1>6 DEF TrackInv, FetchedFinal, WrittenRow
<1>11. WrittenAhead'
  <2> SUFFICES ASSUME NEW d \in Day, site.mode = "full", store.status[d] \in {"none", "empty"}
               PROVE  /\ Unread(run.cache[d]) \/ run.cache[d].amount = amber[d].amount
                      /\ chain.status[d] = "imported" => rows'[d].state = amber[d].amount
    BY <1>1, <1>6 DEF WrittenAhead, Unread, Empty
  <2>1. /\ Unread(run.cache[d]) \/ run.cache[d].amount = amber[d].amount
        /\ chain.status[d] = "imported" => rows[d].state = amber[d].amount
    BY DEF TrackInv, WrittenAhead
  <2> QED
    BY <1>2, <1>4, <1>5, <2>1
<1> QED
  BY <1>8, <1>9, <1>10, <1>11 DEF TrackInv

LEMMA MarkDayWrittenTrack ==
  ASSUME TrackInv, SumInv', GapInv', MarkDayWritten
  PROVE  TrackInv'
<1> DEFINE day == run.day
<1>1. /\ run.pc = "mark" /\ UNCHANGED <<amber, site, store, rows>>
      /\ chain' = MarkWritten(chain, day) /\ run' = [run EXCEPT !.pc = "track"]
  BY DEF MarkDayWritten, Goto, setup, usage, At
<1>2. /\ day \in Day /\ day \in Nat /\ day > 0 /\ ~Unread(run.cache[day])
      /\ run.rewriting => Rewriting
  <2>1. Readable /\ (run.rewriting => Rewriting)
    BY <1>1, AtTheRewritesDay, AtTheWalksDay, TrackTyped
  <2>2. \A d \in Day : d \in Nat /\ d > 0
    BY DEF Day
  <2> QED
    BY <2>1, <2>2 DEF Readable, Unread
<1>3. /\ chain'.rewrite = chain.rewrite
      /\ \A d \in Day : chain'.status[d] = IF d = day THEN "imported" ELSE chain.status[d]
  <2> DEFINE n == MarkWritten(chain, day)
  <2>1. /\ n.rewrite = chain.rewrite
        /\ \A d \in Day : n.status[d] = IF d = day THEN "imported" ELSE chain.status[d]
    BY <1>2, TrackTyped, MarkWrittenFields
  <2>2. chain' = n
    BY <1>1
  <2> HIDE DEF n
  <2> QED
    BY <2>1, <2>2
<1>4. /\ run'.pc = "track" /\ run'.day = day /\ run'.rewriting = run.rewriting
      /\ run'.cache = run.cache
  BY <1>1, TrackTyped DEF RunRecord
<1>5. \A d \in Day : Tracked(d)' <=> Tracked(d)
  BY <1>1 DEF Tracked
<1>6. DaysTracked'
  <2> SUFFICES ASSUME NEW d \in Day, chain'.status[d] = "imported", ~Tracked(d)
               PROVE  \/ ~run.rewriting /\ d = day
                      \/ /\ chain.rewrite # NoRewrite /\ chain.rewrite.next <= d
                         /\ Rewriting' => day <= d
    BY <1>3, <1>4, <1>5 DEF DaysTracked, At
  <2>1. CASE d # day
    <3>1. Rewriting' <=> Rewriting
      BY <1>1, <1>4 DEF Rewriting, At
    <3> QED
      BY <1>1, <1>3, <2>1, <3>1, DueIsStored
  <2>2. CASE d = day /\ run.rewriting
    <3>1. chain.rewrite.next = day
      BY <1>1, <1>2, <2>2, TrackTyped DEF SumInv, RewriteCovers, At
    <3>2. chain.rewrite # NoRewrite
      BY <1>2, <3>1 DEF NoRewrite, NoDay
    <3> QED
      BY <1>2, <2>2, <3>1, <3>2
  <2> QED
    BY <2>1, <2>2
<1>7. Unmapped'
  BY <1>1 DEF TrackInv, Unmapped, BeforeTheChain
<1>8. FetchedFinal' /\ WrittenRow'
  BY <1>1, <1>4 DEF TrackInv, FetchedFinal, WrittenRow
<1>9. WrittenAhead'
  <2> SUFFICES ASSUME NEW d \in Day, site.mode = "full", store.status[d] \in {"none", "empty"}
               PROVE  /\ Unread(run.cache[d]) \/ run.cache[d].amount = amber[d].amount
                      /\ chain'.status[d] = "imported" => rows[d].state = amber[d].amount
    BY <1>1, <1>4 DEF WrittenAhead, Unread, Empty
  <2>1. /\ Unread(run.cache[d]) \/ run.cache[d].amount = amber[d].amount
        /\ chain.status[d] = "imported" => rows[d].state = amber[d].amount
    BY DEF TrackInv, WrittenAhead
  <2>2. d = day => rows[d].state = run.cache[d].amount
    BY <1>1 DEF TrackInv, WrittenRow
  <2> QED
    BY <1>2, <1>3, <2>1, <2>2
<1> QED
  BY <1>6, <1>7, <1>8, <1>9 DEF TrackInv

\* Saving the progress of a rewrite leaves the days before it out, which were rewritten.
LEMMA RewriteDayTrack ==
  ASSUME TrackInv, SumInv', GapInv', RewriteDay
  PROVE  TrackInv'
<1> DEFINE day   == run.day
           cache == CacheWith(day, run.last)
<1>1. /\ run.pc = "rewrite" /\ UNCHANGED <<amber, site, store, rows>> /\ day \in Day /\ day \in Nat
      /\ chain'.rewrite.next = day /\ chain'.rewrite # NoRewrite
      /\ \A d \in Day : chain'.status[d] = "imported" <=> chain.status[d] = "imported"
      /\ \/ run'.pc = "rewrite" /\ run'.day = day + 1 /\ chain.status[day] # "imported"
         \/ run'.pc = "rows" /\ run'.day = day
         \/ run'.pc = "idle"
  <2>1. UNCHANGED <<amber, site, store>>
    BY DEF RewriteDay, setup, usage
  <2> QED
    BY <2>1, RewriteDayIs, TrackTyped
<1>2. \A d \in Day : run'.cache[d] \in {run.cache[d], Usage(d), Unfetched}
  <2>1. run.last \in 0..MaxDay
    BY TrackTyped DEF RunRecord
  <2>2. \A d \in Day : cache[d] \in {run.cache[d], Usage(d)}
    BY <1>1, <2>1, CacheWithIs, TrackTyped
  <2>3. run'.cache \in {run.cache, cache, Idle.cache}
    BY TrackTyped DEF RewriteDay, EndRun, RunRecord
  <2> HIDE DEF cache
  <2> QED
    BY <2>2, <2>3, IdleFields
<1>3. ASSUME NEW d \in Day, chain.status[d] = "imported", ~Tracked(d)'
      PROVE  chain'.rewrite.next <= d /\ (Rewriting' => run'.day <= d)
  <2>1. ~Tracked(d)
    BY <1>1, <1>3 DEF Tracked
  <2>2. day <= d
    BY <1>1, <1>3, <2>1 DEF TrackInv, DaysTracked, Rewriting, At
  <2>3. chain.status[day] # "imported" => day + 1 <= d
    BY <1>1, <1>3, <2>2, Constants
  <2>4. run'.pc = "idle" => ~Rewriting'
    BY DEF Rewriting, At
  <2> QED
    BY <1>1, <2>2, <2>3, <2>4
<1>4. site'.mapped \/ (BeforeTheChain' /\ \A d \in Day : chain.status[d] # "imported")
  BY <1>1, StaysMapped DEF BeforeTheChain
<1> QED
  BY <1>1, <1>2, <1>3, <1>4, TrackKept

\* A rewrite that is done has reached every imported day.
LEMMA RewriteDoneTrack ==
  ASSUME TrackInv, SumInv', GapInv', RewriteDone
  PROVE  TrackInv'
<1>1. /\ run.pc = "rewrite" /\ UNCHANGED <<amber, site, store, rows>> /\ run.last < run.day
      /\ chain' = EndRewrite(chain) /\ run'.cache = run.cache
      /\ run'.pc \in {"checked", "start", "walk"}
  <2>1. run.last \in Nat /\ run.day \in Nat
    BY TrackTyped, Constants DEF RunRecord
  <2> QED
    BY <2>1, TrackTyped DEF RewriteDone, RunRecord, setup, usage, At
<1>2. chain'.status = chain.status
  BY <1>1, EndRewriteFields, TrackTyped
<1>3. ASSUME NEW d \in Day, chain.status[d] = "imported"
      PROVE  Tracked(d)'
  <2>1. Rewriting
    BY <1>1 DEF Rewriting, At
  <2>2. d <= chain.lastWritten /\ chain.lastWritten <= run.last
    BY <1>3, <2>1, TrackTyped DEF SumInv, RewriteCovers, ChainInv, Records
  <2>3. ~Tracked(d) => run.day <= d
    BY <1>1, <1>3, <2>1 DEF TrackInv, DaysTracked, At
  <2>4. d \in Nat /\ chain.lastWritten \in Nat /\ run.last \in Nat /\ run.day \in Nat
    <3>1. run.last \in 0..MaxDay /\ run.day \in 0..(MaxDay + 1)
      BY TrackTyped DEF RunRecord
    <3> QED
      BY <3>1, Constants, Numbers, TrackTyped
  <2>5. Tracked(d)
    BY <1>1, <2>2, <2>3, <2>4
  <2> QED
    BY <1>1, <2>5 DEF Tracked
<1>4. site'.mapped \/ (BeforeTheChain' /\ \A d \in Day : chain.status[d] # "imported")
  BY <1>1, StaysMapped DEF BeforeTheChain
<1> QED
  BY <1>1, <1>2, <1>3, <1>4, TrackKept

-----------------------------------------------------------------------------
(* Revisions: Amber, the stops and the user *)

\* What Amber publishes or revises was not its last word, and is not among the days only the
\* chain has.
LEMMA PublishTrack ==
  ASSUME TrackInv, SumInv', GapInv', NEW day \in Day, Publish(day), lapses' = {}
  PROVE  TrackInv'
<1>1. PICK a \in Answer \ {Nothing, amber[day]} :
        /\ amber' = [amber EXCEPT ![day] = a]
        /\ \/ Empty(amber[day])
           \/ a.amount = amber[day].amount
           \/ ~Ahead(day)
  BY DEF Publish, Revised, Lapse
<1>2. /\ run.pc \in {"idle", "guard"} /\ amber[day].quality # "actual"
      /\ UNCHANGED <<site, store, chain, rows, run>>
  BY DEF Publish, usage
<1>3. \A d \in Day : amber'[d] = IF d = day THEN a ELSE amber[d]
  BY <1>1, TrackTyped DEF StateOK
<1>4. DaysTracked'
  <2> SUFFICES ASSUME NEW d \in Day, chain.status[d] = "imported", ~Tracked(d)'
               PROVE  chain.rewrite # NoRewrite /\ chain.rewrite.next <= d /\ ~Rewriting'
    BY <1>2 DEF DaysTracked
  <2>1. ~Tracked(d)
    BY <1>2, <1>3 DEF Tracked
  <2> QED
    BY <1>2, <2>1, DueIsStored DEF Rewriting, At
<1>5. Unmapped' /\ WrittenRow'
  BY <1>2 DEF TrackInv, Unmapped, BeforeTheChain, WrittenRow
<1>6. FetchedFinal'
  BY <1>2, <1>3 DEF TrackInv, FetchedFinal
<1>7. WrittenAhead'
  <2> SUFFICES ASSUME NEW d \in Day, site.mode = "full", store.status[d] \in {"none", "empty"}
               PROVE  /\ Unread(run.cache[d]) \/ run.cache[d].amount = amber'[d].amount
                      /\ chain.status[d] = "imported" => rows[d].state = amber'[d].amount
    BY <1>2 DEF WrittenAhead, Unread, Empty
  <2>1. /\ Unread(run.cache[d]) \/ run.cache[d].amount = amber[d].amount
        /\ chain.status[d] = "imported" => rows[d].state = amber[d].amount
    BY DEF TrackInv, WrittenAhead
  <2>2. CASE d # day \/ a.amount = amber[day].amount
    BY <1>3, <2>1, <2>2
  <2>3. CASE d = day /\ Empty(amber[day])
    <3>1. Unread(run.cache[d])
      BY <2>3, TrackTyped DEF ChainInv, Fetches, Unread
    <3>2. chain.status[d] # "imported"
      BY <2>3, TrackTyped DEF ChainInv, Lasting, Given
    <3> QED
      BY <3>1, <3>2
  <2>4. CASE d = day /\ ~Ahead(day)
    <3>1. run.pc = "idle" /\ chain.status[d] # "imported"
      BY <2>4 DEF Ahead, At
    <3>2. run = Idle
      BY <3>1, TrackTyped DEF ChainInv, Fetches, At
    <3> QED
      BY <3>1, <3>2, IdleFields DEF Unread
  <2> QED
    BY <1>1, <2>2, <2>3, <2>4
<1> QED
  BY <1>4, <1>5, <1>6, <1>7 DEF TrackInv

\* A run is not cut off before what it has still to rewrite is stored, nor between a day's
\* record and its fingerprint.
LEMMA CrashTrack ==
  ASSUME TrackInv, SumInv', GapInv', "track" \notin CrashPoints, Crash, lapses' = {}
  PROVE  TrackInv'
<1>1. /\ run.pc # "track" /\ ~Unsaved /\ run' = Idle
      /\ UNCHANGED <<amber, site, store, chain, rows>>
  BY DEF Crash, EndRun, Lapse, usage
<1>2. /\ run'.pc = "idle" /\ \A d \in Day : run'.cache[d] = Unfetched
  BY <1>1, IdleFields
<1>3. ASSUME NEW d \in Day, chain.status[d] = "imported", ~Tracked(d)'
      PROVE  chain'.rewrite # NoRewrite /\ chain'.rewrite.next <= d
  <2>1. ~Tracked(d)
    BY <1>1, <1>3 DEF Tracked
  <2>2. CASE run.pc # "rewrite"
    BY <1>1, <1>3, <2>1, <2>2, DueIsStored
  <2>3. CASE run.pc = "rewrite"
    <3>1. chain.rewrite # NoRewrite /\ ~(run.day < chain.rewrite.next)
      BY <1>1, <2>3 DEF Unsaved, At
    <3>2. run.day <= d
      BY <1>3, <2>1, <2>3 DEF TrackInv, DaysTracked, Rewriting, At
    <3>3. d \in Nat /\ run.day \in Nat /\ chain.rewrite.next \in Nat
      BY <2>3, AtTheRewrite, TrackTyped, Constants
    <3> QED
      BY <1>1, <3>1, <3>2, <3>3
  <2> QED
    BY <2>2, <2>3
<1>4. site'.mapped \/ (BeforeTheChain' /\ \A d \in Day : chain.status[d] # "imported")
  BY <1>1, <1>2, StaysMapped DEF BeforeTheChain
<1>5. ~Rewriting'
  BY <1>2 DEF Rewriting, At
<1> QED
  BY <1>1, <1>2, <1>3, <1>4, <1>5, TrackKept

LEMMA RemoveTrack ==
  ASSUME TrackInv, SumInv', GapInv', RemoveMapping
  PROVE  TrackInv'
<1>1. /\ run.pc = "idle" /\ run' = run /\ chain' = NewChain
  BY DEF RemoveMapping, At
<1>2. run = Idle
  BY <1>1, TrackTyped DEF ChainInv, Fetches, At
<1>3. \A d \in Day : chain'.status[d] # "imported"
  BY <1>1, NewChainFields
<1>4. DaysTracked' /\ Unmapped' /\ WrittenRow'
  BY <1>1, <1>3 DEF DaysTracked, Unmapped, WrittenRow, BeforeTheChain
<1>5. FetchedFinal' /\ WrittenAhead'
  <2>1. \A d \in Day : run'.cache[d] = Unfetched
    BY <1>1, <1>2, IdleFields
  <2> QED
    BY <1>3, <2>1 DEF FetchedFinal, WrittenAhead, Unread, Unfetched, Empty
<1> QED
  BY <1>4, <1>5 DEF TrackInv

LEMMA TrackNext ==
  ASSUME TrackInv, NoneReplaced, AheadInReach, "track" \notin CrashPoints, [Next]_vars,
         lapses' = {}
  PROVE  TrackInv'
<1>1. SumInv'
  BY SumsNext, TrackTyped DEF RecoveryKept
<1>2. CASE UNCHANGED vars
  <2>1. UNCHANGED <<today, amber, store, site, chain, rows, run>>
    BY <1>2 DEF vars, setup, usage
  <2>2. GapInv'
    <3>1. HistInv'
      BY <1>2, HistStutter, TrackTyped DEF GapInv
    <3> QED
      BY <2>1, <3>1, TrackTyped DEF GapInv, Shared, GapsAgree
  <2>3. DaysTracked' /\ Unmapped' /\ FetchedFinal' /\ WrittenAhead' /\ WrittenRow'
    BY <2>1 DEF TrackInv, DaysTracked, Tracked, Unmapped, FetchedFinal, WrittenAhead, Unread,
                Empty, WrittenRow, Rewriting, BeforeTheChain, At
  <2> QED
    BY <1>1, <2>2, <2>3 DEF TrackInv
<1>3. CASE Next
  <2>1. GapInv'
    BY <1>3, GapsNext, TrackTyped
  <2>2. CASE StartRun \/ Environment \/ User
    BY <1>1, <2>1, <2>2, StartTrack, SetupTrack, PublishTrack, CrashTrack, RemoveTrack
       DEF Environment, User
  <2>3. CASE Revise \/ UsageStep
    BY <1>1, <2>1, <2>3, CheckRevisionsTrack, RewriteAfterRevisionTrack, EarlyTrack,
       ImportUsageDayTrack, SkipUnavailableUsageTrack DEF Revise, UsageStep
  <2>4. CASE ChainStep
    BY <1>1, <2>1, <2>4, GuardTrack, EarlyTrack, ResumeRewriteTrack, ChainFirstDayTrack,
       ChainReadyTrack, WalkEmptyTrack, WalkDayTrack, WalkDoneTrack, WriteRowsTrack,
       MarkDayWrittenTrack, TrackDayTrack, RewriteDayTrack, RewriteDoneTrack DEF ChainStep
  <2> QED
    BY <1>3, <2>2, <2>3, <2>4 DEF Next, RunStep
<1> QED
  BY <1>2, <1>3

LEMMA TrackInit ==
  ASSUME Init
  PROVE  TrackInv
<1>1. SumInv
  BY SumsInit
<1>2. /\ run = Idle /\ chain = NewChain /\ store = EmptyStore({})
      /\ \A d \in Day : run.cache[d] = Unfetched
  BY IdleFields DEF Init
<1>3. \A d \in Day : /\ store.emptySeen[d] = {} /\ store.status[d] = "none"
                     /\ chain.status[d] = "none"
  BY <1>2, NewChainFields DEF EmptyStore
<1>4. GapInv
  BY <1>3, HistInit DEF GapInv, Shared, GapsAgree
<1>5. site.mapped
  BY DEF Init
<1>6. DaysTracked /\ Unmapped /\ FetchedFinal /\ WrittenAhead /\ WrittenRow
  BY <1>2, <1>3, <1>5, IdleFields
     DEF DaysTracked, Unmapped, FetchedFinal, WrittenAhead, WrittenRow, Unread, Unfetched
<1> QED
  BY <1>1, <1>4, <1>6 DEF TrackInv

\* As long as nothing has lapsed: where no run stops between recording a day and entering it in
\* the revision set, no revision replaces an interrupted rewrite, and no day the chain wrote
\* ahead leaves Amber's retention before the usage chain has it, a day of the chain that is no
\* longer what Amber holds is in the revision set under its old amount, or covered by a rewrite
\* that is to be resumed
\* (_async_track_revision and the revision check of manager.py).
THEOREM ChainStaleDaysAreTracked ==
  ASSUME "track" \notin CrashPoints
  PROVE  Spec /\ []NoneReplaced /\ []AheadInReach => []ChainStaleIsTracked
<1>1. Init => TrackInv
  BY TrackInit
<1>2. (lapses = {} => TrackInv) /\ NoneReplaced /\ AheadInReach /\ [Next]_vars
        => (lapses = {} => TrackInv)'
  BY TrackNext, LapsesGrow
<1>3. (lapses = {} => TrackInv) => ChainStaleIsTracked
  <2> SUFFICES ASSUME TrackInv, At("idle"), NEW d \in Day, chain.status[d] = "imported",
                      rows[d].state # amber[d].amount, store.revisions[d].hash # rows[d].state
               PROVE  chain.rewrite.next # NoDay /\ d \in chain.rewrite.next..chain.rewrite.to
    BY DEF ChainStaleIsTracked
  <2>1. ~Tracked(d)
    BY DEF Tracked
  <2>2. chain.rewrite # NoRewrite /\ chain.rewrite.next <= d
    BY <2>1, DueIsStored DEF At
  <2>3. chain.rewrite.next \in Day
    BY <2>2, TrackTyped DEF ChainInv, Progress
  <2>4. d <= chain.lastWritten /\ chain.lastWritten <= chain.rewrite.to
    BY <2>2, TrackTyped DEF SumInv, RewriteCovers, ChainInv, Records
  <2>5. d \in Nat /\ chain.lastWritten \in Nat /\ chain.rewrite.to \in Nat
    BY TrackTyped, Typed, Numbers, Constants
  <2> QED
    BY <2>2, <2>3, <2>4, <2>5, Constants
<1> QED
  BY <1>1, <1>2, <1>3, PTL DEF Spec
=============================================================================

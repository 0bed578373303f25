--------------------------- MODULE RetentionProofs ---------------------------
(***************************************************************************)
(* Proofs about Retention and CallBudget, for every limit, reserve, cap of *)
(* calls and number of lost responses, reloads and probes.                 *)
(***************************************************************************)
EXTENDS RetentionProperties, TLAPS

-----------------------------------------------------------------------------
(* The budget's operators *)

\* A refused budget is one whose last figure is below the reserve, in a window not over.
Holds(seen) == Low(seen) /\ seen.window # "over"

LEMMA AllowedIsNotHeld ==
  ASSUME NEW b, Allows(b)
  PROVE  ~Holds(b.seen)
BY DEF Allows, Holds

LEMMA ChargeTypes ==
  ASSUME NEW b \in Budget, Allows(b)
  PROVE  Charge(b) \in Budget
<1>1. b.calls + 1 \in 0..MaxCalls
  BY CallBudgetAssumption DEF Budget, Allows
<1>2. [b.seen EXCEPT !.remaining = "unseen"] \in Seen
  BY DEF Budget, Seen, Figure
<1> QED
  BY <1>1, <1>2 DEF Charge, Budget

LEMMA RecordTypes ==
  ASSUME NEW b \in Budget, NEW n \in Nat
  PROVE  /\ Record(b, n) \in Budget
         /\ n < Reserve => Holds(Record(b, n).seen)
<1>1. FigureOf(n) \in Figure /\ (n < Reserve => FigureOf(n) = "low")
  BY DEF FigureOf, Figure
<1>2. [remaining |-> FigureOf(n), window |-> "open"] \in Seen
  BY <1>1 DEF Seen, Window
<1> QED
  BY <1>1, <1>2 DEF Record, Budget, Holds, Low

LEMMA WindowOverTypes ==
  ASSUME NEW seen \in Seen
  PROVE  WindowOver(seen) \in Seen
BY DEF WindowOver, Seen, Window

LEMMA FreshBudget ==
  /\ NotSeen \in Seen
  /\ \A seen \in Seen : Start(seen) \in Budget /\ Start(seen).seen = seen
BY CallBudgetAssumption DEF NotSeen, Seen, Figure, Window, Start, Budget

-----------------------------------------------------------------------------
(* The inductive invariant *)

\* The figure the next request is judged by: the run's, or between runs the remembered one.
Current == IF run.pc = "idle" THEN client.last ELSE client.budget.seen

\* What lost responses and reloads may have cost.
Unseen == account.lost + (MaxReload - left.reload)

BudgetTypes ==
  /\ client \in [budget : Budget, last : Seen]
  /\ account \in [remaining : Nat, lost : Nat]
  /\ "reload" \in DOMAIN left /\ left.reload \in Int /\ left.reload <= MaxReload
  /\ "pc" \in DOMAIN run

\* When no more than the reserve's last request is missing from it, the figure shows it.
Shown ==
  account.remaining + Unseen < Reserve =>
    /\ account.remaining + Unseen = Reserve - 1
    /\ Holds(Current)

BudgetInv == BudgetTypes /\ Shown

LEMMA ShownIsKept == BudgetInv => ReserveKept
BY CallBudgetAssumption, RetentionAssumption
   DEF BudgetInv, BudgetTypes, Shown, ReserveKept, Unseen

LEMMA InitBudget == Init => BudgetInv
<1> SUFFICES ASSUME Init PROVE BudgetInv
  OBVIOUS
<1>1. BudgetTypes
  BY FreshBudget, CallBudgetAssumption, RetentionAssumption DEF Init, BudgetTypes, Idle
<1>2. Shown
  BY CallBudgetAssumption, RetentionAssumption DEF Init, Shown, Unseen
<1> QED
  BY <1>1, <1>2 DEF BudgetInv

-----------------------------------------------------------------------------
(* What a step can do to the budget *)

\* Neither the figures nor Amber's count change, nor whether a run is active.
LEMMA Undisturbed ==
  ASSUME BudgetInv, client' = client, account' = account,
         "reload" \in DOMAIN left', left'.reload = left.reload,
         "pc" \in DOMAIN run', run'.pc = "idle" <=> run.pc = "idle"
  PROVE  BudgetInv'
BY DEF BudgetInv, BudgetTypes, Shown, Unseen, Current

\* A run starts with the figures remembered.
LEMMA Started ==
  ASSUME BudgetInv, run.pc = "idle", client' = [client EXCEPT !.budget = Start(client.last)],
         account' = account, "reload" \in DOMAIN left', left'.reload = left.reload,
         "pc" \in DOMAIN run', run'.pc # "idle"
  PROVE  BudgetInv'
<1>1. client.last \in Seen /\ client \in [budget : Budget, last : Seen]
  BY DEF BudgetInv, BudgetTypes
<1>2. client' \in [budget : Budget, last : Seen] /\ client'.budget.seen = client.last
  BY <1>1, FreshBudget
<1> QED
  BY <1>2 DEF BudgetInv, BudgetTypes, Shown, Unseen, Current

\* A run ends and its figures are remembered.
LEMMA Ended ==
  ASSUME BudgetInv, run.pc # "idle", EndRun,
         account' = account, "reload" \in DOMAIN left', left'.reload = left.reload
  PROVE  BudgetInv'
<1>1. client.budget.seen \in Seen
  BY DEF BudgetInv, BudgetTypes, Budget
<1>2. client' \in [budget : Budget, last : Seen] /\ client'.last = client.budget.seen
  BY <1>1, FreshBudget DEF EndRun
<1>3. "pc" \in DOMAIN run' /\ run'.pc = "idle"
  BY DEF EndRun, Idle
<1> QED
  BY <1>2, <1>3 DEF BudgetInv, BudgetTypes, Shown, Unseen, Current

\* A request that is answered: the answer shows what it has cost.
LEMMA AnsweredTypes ==
  ASSUME BudgetInv, Allows(client.budget), NEW n \in Nat
  PROVE  /\ Charge(client.budget) \in Budget
         /\ Record(Charge(client.budget), n) \in Budget
         /\ n < Reserve => Holds(Record(Charge(client.budget), n).seen)
<1>1. Charge(client.budget) \in Budget
  BY ChargeTypes DEF BudgetInv, BudgetTypes
<1> QED
  BY <1>1, RecordTypes

\* Where a request is allowed, the reserve is whole, but for what nobody saw.
LEMMA AllowedLeavesReserve ==
  ASSUME BudgetInv, run.pc # "idle", Allows(client.budget)
  PROVE  account.remaining + Unseen >= Reserve
<1>1. ~Holds(Current)
  BY AllowedIsNotHeld DEF Current
<1> QED
  BY <1>1, CallBudgetAssumption, RetentionAssumption
     DEF BudgetInv, BudgetTypes, Shown, Unseen

LEMMA Sent ==
  ASSUME BudgetInv, run.pc # "idle", Send,
         "reload" \in DOMAIN left', left'.reload = left.reload,
         "pc" \in DOMAIN run', run'.pc # "idle"
  PROVE  BudgetInv'
<1>1. account.remaining - 1 \in Nat /\ account' \in [remaining : Nat, lost : Nat]
      /\ account'.remaining = account.remaining - 1 /\ account'.lost = account.lost
  BY DEF Send, BudgetInv, BudgetTypes
<1> DEFINE b == Record(Charge(client.budget), account.remaining - 1)
<1>2. b \in Budget /\ (account.remaining - 1 < Reserve => Holds(b.seen))
  BY <1>1, AnsweredTypes DEF Send
<1> HIDE DEF b
<1>3. client' \in [budget : Budget, last : Seen] /\ client'.budget = b
  BY <1>2 DEF Send, BudgetInv, BudgetTypes, b
<1>4. BudgetTypes'
  BY <1>1, <1>3 DEF BudgetInv, BudgetTypes
<1>5. account.remaining + Unseen >= Reserve
  BY AllowedLeavesReserve DEF Send
<1>6. Current' = b.seen /\ Unseen' = Unseen /\ Unseen \in Int /\ account.lost \in Nat
  BY <1>1, <1>3, RetentionAssumption DEF Current, Unseen, BudgetInv, BudgetTypes
<1>7. Shown'
  <2> SUFFICES ASSUME account'.remaining + Unseen' < Reserve
               PROVE  account'.remaining + Unseen' = Reserve - 1 /\ Holds(Current')
    BY DEF Shown
  <2>1. account.remaining \in Nat /\ Reserve \in Nat
    BY CallBudgetAssumption DEF BudgetInv, BudgetTypes
  <2>2. account'.remaining + Unseen' = Reserve - 1
    BY <1>1, <1>5, <1>6, <2>1
  <2>3. account.remaining - 1 < Reserve
    BY <1>1, <1>6, <2>1, <2>2, RetentionAssumption DEF Unseen, BudgetInv, BudgetTypes
  <2> QED
    BY <1>2, <1>6, <2>2, <2>3
<1> QED
  BY <1>4, <1>7 DEF BudgetInv

\* A response that is lost: Amber's count falls, and what nobody saw grows by as much.
LEMMA Lost ==
  ASSUME BudgetInv, run.pc # "idle", SendLost, "pc" \in DOMAIN run', run'.pc # "idle"
  PROVE  BudgetInv'
<1>1. /\ account' \in [remaining : Nat, lost : Nat]
      /\ account'.remaining = account.remaining - 1 /\ account'.lost = account.lost + 1
  BY DEF SendLost, BudgetInv, BudgetTypes
<1>2. "reload" \in DOMAIN left' /\ left'.reload = left.reload
  BY DEF SendLost, BudgetInv, BudgetTypes
<1>3. Charge(client.budget) \in Budget
  BY ChargeTypes DEF SendLost, BudgetInv, BudgetTypes
<1>4. client' \in [budget : Budget, last : Seen]
  BY <1>3 DEF SendLost, BudgetInv, BudgetTypes
<1>5. BudgetTypes'
  BY <1>1, <1>2, <1>4 DEF BudgetInv, BudgetTypes
<1>6. account.remaining + Unseen >= Reserve
  BY AllowedLeavesReserve DEF SendLost
<1>7. account'.remaining + Unseen' = account.remaining + Unseen
  BY <1>1, <1>2, RetentionAssumption DEF Unseen, BudgetInv, BudgetTypes
<1>8. account.remaining + Unseen \in Int
  BY RetentionAssumption DEF Unseen, BudgetInv, BudgetTypes
<1>9. Shown'
  BY <1>6, <1>7, <1>8, CallBudgetAssumption DEF Shown
<1> QED
  BY <1>5, <1>9 DEF BudgetInv

\* A request that is limited: nothing remains, and the response says so.
LEMMA Limited ==
  ASSUME BudgetInv, run.pc # "idle", SendLimited, left' = left,
         "pc" \in DOMAIN run', run'.pc # "idle"
  PROVE  BudgetInv'
<1> DEFINE b == Record(Charge(client.budget), 0)
<1>1. b \in Budget /\ Holds(b.seen)
  BY AnsweredTypes, CallBudgetAssumption DEF SendLimited
<1> HIDE DEF b
<1>2. client' \in [budget : Budget, last : Seen] /\ client'.budget = b
  BY <1>1 DEF SendLimited, BudgetInv, BudgetTypes, b
<1>3. BudgetTypes'
  BY <1>2 DEF SendLimited, BudgetInv, BudgetTypes
<1>4. account.remaining + Unseen >= Reserve
  BY AllowedLeavesReserve DEF SendLimited
<1>5. account.remaining + Unseen \in Int
  BY RetentionAssumption DEF Unseen, BudgetInv, BudgetTypes
<1>6. Unseen' = Unseen /\ account' = account
  BY DEF SendLimited, Unseen
<1>7. Shown'
  BY <1>4, <1>5, <1>6, CallBudgetAssumption DEF Shown
<1> QED
  BY <1>3, <1>7 DEF BudgetInv

\* A rejected key: answered, and the run is over at once.
LEMMA Rejected ==
  ASSUME BudgetInv, ProbeRejected
  PROVE  BudgetInv'
<1> DEFINE b == Record(Charge(client.budget), account.remaining - 1)
<1>1. run.pc # "idle"
  BY DEF ProbeRejected, Probing
<1>2. /\ account.remaining - 1 \in Nat /\ account' \in [remaining : Nat, lost : Nat]
      /\ account'.remaining = account.remaining - 1 /\ account'.lost = account.lost
  BY DEF ProbeRejected, BudgetInv, BudgetTypes
<1>3. "reload" \in DOMAIN left' /\ left'.reload = left.reload
  BY DEF ProbeRejected, BudgetInv, BudgetTypes
<1>4. b \in Budget /\ (account.remaining - 1 < Reserve => Holds(b.seen))
  BY <1>2, AnsweredTypes DEF ProbeRejected
<1> HIDE DEF b
<1>5. b.seen \in Seen
  BY <1>4 DEF Budget
<1>6. client' \in [budget : Budget, last : Seen] /\ client'.last = b.seen
  BY <1>5, FreshBudget DEF ProbeRejected, b
<1>7. "pc" \in DOMAIN run' /\ run'.pc = "idle"
  BY DEF ProbeRejected, Idle
<1>8. BudgetTypes'
  BY <1>2, <1>3, <1>6, <1>7 DEF BudgetInv, BudgetTypes
<1>9. account.remaining + Unseen >= Reserve
  BY <1>1, AllowedLeavesReserve DEF ProbeRejected
<1>10. Current' = b.seen /\ Unseen' = Unseen /\ Unseen \in Nat
  BY <1>2, <1>3, <1>6, <1>7, RetentionAssumption
     DEF Current, Unseen, BudgetInv, BudgetTypes
<1>11. account.remaining \in Nat /\ Reserve \in Nat
  BY CallBudgetAssumption DEF BudgetInv, BudgetTypes
<1>12. Shown'
  BY <1>2, <1>4, <1>9, <1>10, <1>11 DEF Shown
<1> QED
  BY <1>8, <1>12 DEF BudgetInv

\* After a search or a failure a run goes on to its work, or a service call ends.
LEMMA WentOn ==
  ASSUME BudgetInv, run.pc # "idle", GoOn, account' = account, left' = left
  PROVE  BudgetInv'
<1>0. "reload" \in DOMAIN left' /\ left'.reload = left.reload
  BY DEF BudgetInv, BudgetTypes
<1>1. CASE EndRun
  BY <1>0, <1>1, Ended
<1>2. CASE run' = [Idle EXCEPT !.pc = "work"] /\ UNCHANGED client
  <2>1. "pc" \in DOMAIN run' /\ run'.pc # "idle"
    BY <1>2 DEF Idle
  <2> QED
    BY <1>0, <1>2, <2>1, Undisturbed
<1> QED
  BY <1>1, <1>2 DEF GoOn

-----------------------------------------------------------------------------
(* Every step keeps the invariant *)

LEMMA StartsKeep ==
  ASSUME BudgetInv, StartRun \/ ProbeRetention
  PROVE  BudgetInv'
<1>1. run.pc = "idle" /\ account' = account
  BY DEF StartRun, ProbeRetention
<1>2. "reload" \in DOMAIN left' /\ left'.reload = left.reload
  BY DEF StartRun, ProbeRetention, BudgetInv, BudgetTypes
<1>3. /\ client' = [client EXCEPT !.budget = Start(client.last)]
      /\ "pc" \in DOMAIN run' /\ run'.pc # "idle"
  BY DEF StartRun, ProbeRetention, BeginSearch, BeginWork, Idle
<1> QED
  BY <1>1, <1>2, <1>3, Started

LEMMA ProbesKeep ==
  ASSUME BudgetInv, Probe
  PROVE  BudgetInv'
<1>0. "pc" \in DOMAIN run /\ "reload" \in DOMAIN left
  BY DEF BudgetInv, BudgetTypes
<1>1. CASE ProbeKnown
  <2>1. "pc" \in DOMAIN run' /\ run'.pc = run.pc
    BY <1>0, <1>1 DEF ProbeKnown
  <2> QED
    BY <1>0, <1>1, <2>1, Undisturbed DEF ProbeKnown
<1>2. CASE ProbeAsk
  <2>1. "pc" \in DOMAIN run' /\ run'.pc = run.pc /\ run.pc # "idle"
    BY <1>0, <1>2 DEF ProbeAsk, Probing
  <2> QED
    BY <1>0, <1>2, <2>1, Sent DEF ProbeAsk
<1>3. CASE ProbeLost
  <2>1. "pc" \in DOMAIN run' /\ run'.pc # "idle" /\ run.pc # "idle"
    BY <1>3 DEF ProbeLost, Probing, Idle
  <2> QED
    BY <1>3, <2>1, Lost DEF ProbeLost
<1>4. CASE ProbeLimited
  <2>1. "pc" \in DOMAIN run' /\ run'.pc # "idle" /\ run.pc # "idle"
    BY <1>4 DEF ProbeLimited, Probing, Idle
  <2> QED
    BY <1>4, <2>1, Limited DEF ProbeLimited
<1>5. CASE ProbeRejected
  BY <1>5, Rejected
<1>6. CASE ProbeRefused
  BY <1>0, <1>6, Ended, WentOn DEF ProbeRefused, Probing
<1>7. CASE AfterFailure
  BY <1>7, WentOn DEF AfterFailure
<1> QED
  BY <1>1, <1>2, <1>3, <1>4, <1>5, <1>6, <1>7 DEF Probe

LEMMA EndsKeep ==
  ASSUME BudgetInv, Conclude \/ WorkEnds \/ WorkRequest
  PROVE  BudgetInv'
<1>0. "pc" \in DOMAIN run /\ "reload" \in DOMAIN left
  BY DEF BudgetInv, BudgetTypes
<1>1. CASE FoundBoundary
  BY <1>1, WentOn DEF FoundBoundary, Searched
<1>2. CASE NothingBracketed
  BY <1>2, WentOn DEF NothingBracketed, Searched
<1>3. CASE VerifyNotFound
  BY <1>3, WentOn DEF VerifyNotFound, Searched
<1>4. CASE WorkEnds
  BY <1>0, <1>4, Ended DEF WorkEnds
<1>5. CASE WorkRequest
  BY <1>0, <1>5, Sent DEF WorkRequest
<1> QED
  BY <1>1, <1>2, <1>3, <1>4, <1>5 DEF Conclude

\* A window that ends fills Amber's count up.
LEMMA WindowKeeps ==
  ASSUME BudgetInv, WindowEnds
  PROVE  BudgetInv'
<1>1. client \in [budget : Budget, last : Seen] /\ client.budget.seen \in Seen
  BY DEF BudgetInv, BudgetTypes, Budget
<1>2. WindowOver(client.budget.seen) \in Seen /\ WindowOver(client.last) \in Seen
  BY <1>1, WindowOverTypes
<1>3. client' \in [budget : Budget, last : Seen]
  BY <1>1, <1>2 DEF WindowEnds, Budget
<1>4. /\ account' \in [remaining : Nat, lost : Nat]
      /\ account'.remaining = Limit /\ account'.lost = account.lost
  BY CallBudgetAssumption DEF WindowEnds, BudgetInv, BudgetTypes
<1>5. left' = left /\ run' = run
  BY DEF WindowEnds
<1>6. BudgetTypes'
  BY <1>3, <1>4, <1>5 DEF BudgetInv, BudgetTypes
<1>7. Shown'
  BY <1>4, <1>5, CallBudgetAssumption, RetentionAssumption
     DEF Shown, Unseen, BudgetInv, BudgetTypes
<1> QED
  BY <1>6, <1>7 DEF BudgetInv

\* A reload forgets the figures, which may cost what they would have held back.
LEMMA ReloadKeeps ==
  ASSUME BudgetInv, Reload
  PROVE  BudgetInv'
<1>1. client' \in [budget : Budget, last : Seen]
  BY FreshBudget DEF Reload
<1>2. /\ "reload" \in DOMAIN left' /\ left'.reload = left.reload - 1
      /\ account' = account /\ run' = run
  BY DEF Reload, BudgetInv, BudgetTypes
<1>3. BudgetTypes'
  BY <1>1, <1>2, RetentionAssumption DEF BudgetInv, BudgetTypes
<1>4. account'.remaining + Unseen' = account.remaining + Unseen + 1
  BY <1>2, RetentionAssumption DEF Unseen, BudgetInv, BudgetTypes
<1>5. account.remaining + Unseen \in Int /\ account.remaining + Unseen >= Reserve - 1
  BY CallBudgetAssumption, RetentionAssumption DEF Shown, Unseen, BudgetInv, BudgetTypes
<1>6. Shown'
  BY <1>4, <1>5, CallBudgetAssumption DEF Shown
<1> QED
  BY <1>3, <1>6 DEF BudgetInv

LEMMA TickKeeps ==
  ASSUME BudgetInv, NEW days \in Outages, Tick(days)
  PROVE  BudgetInv'
<1>1. "reload" \in DOMAIN left' /\ left'.reload = left.reload
  BY DEF Tick, BudgetInv, BudgetTypes
<1>2. client' = client /\ account' = account /\ run' = run /\ "pc" \in DOMAIN run
  BY DEF Tick, BudgetInv, BudgetTypes
<1> QED
  BY <1>1, <1>2, Undisturbed

LEMMA NextBudget == BudgetInv /\ [Next]_vars => BudgetInv'
<1> SUFFICES ASSUME BudgetInv, [Next]_vars
             PROVE  BudgetInv'
  OBVIOUS
<1>1. CASE UNCHANGED vars
  BY <1>1, Undisturbed DEF vars, BudgetInv, BudgetTypes
<1>2. CASE StartRun \/ ProbeRetention
  BY <1>2, StartsKeep
<1>3. CASE Step
  BY <1>3, ProbesKeep, EndsKeep DEF Step
<1>4. CASE WorkRequest
  BY <1>4, EndsKeep
<1>5. CASE \E days \in Outages : Tick(days)
  BY <1>5, TickKeeps
<1>6. CASE WindowEnds
  BY <1>6, WindowKeeps
<1>7. CASE Reload
  BY <1>7, ReloadKeeps
<1> QED
  BY <1>1, <1>2, <1>3, <1>4, <1>5, <1>6, <1>7 DEF Next

\* Runs leave Amber's reserve alone, for every limit, reserve and number of runs, although
\* each run counts its requests afresh: only responses that are lost and reloads, which
\* forget the figures, cost one request each (RunBudget, AmberClient.begin_run, end_run).
THEOREM ReserveIsKept == Spec => []ReserveKept
<1>1. Init => BudgetInv
  BY InitBudget
<1>2. BudgetInv /\ [Next]_vars => BudgetInv'
  BY NextBudget
<1>3. BudgetInv => ReserveKept
  BY ShownIsKept
<1> QED
  BY <1>1, <1>2, <1>3, PTL DEF Spec
-----------------------------------------------------------------------------
(* The inductive invariant of a search *)

\* An answer "no" of a search: to a day asked, or to one before the site's start date.
Refused(d, noes) == d \in noes \/ (activeFrom # NoDay /\ d < activeFrom)

\* Answers were given on the run's date or the day after, and Amber's usage starts no
\* earlier than when they were.
Answers ==
  /\ \A d \in run.yeses : d > 0 /\ d < today /\ d >= activeFrom
  /\ \A d \in run.yeses : run.date = today => held <= d
  /\ missing = NoDay => \A d \in run.noes : d < held \/ d >= run.date

\* So many days lie between the ends of a bisection after so many requests that the
\* eighth request is the last it needs.
Fits(width, calls) ==
  \/ calls <= 3 /\ width <= 32
  \/ calls <= 4 /\ width <= 16
  \/ calls <= 5 /\ width <= 8
  \/ calls <= 6 /\ width <= 4
  \/ calls <= 7 /\ width <= 2

\* What is known, and the requests sent at most, when a question is asked; x is the run.
DiscoverySound(x) ==
  LET s == x.search  n == x.calls  g == Guess(x.date) IN
  /\ s.ask = "start"  => n <= 0 /\ YoungSite(x.date)
  /\ s.ask = "guess"  => n <= 0
  /\ s.ask = "before" => n <= 1 /\ g \in x.yeses
  /\ s.ask = "lo"     => n <= 2 /\ g - 1 \in x.yeses
  /\ s.ask = "after"  => n <= 1 /\ Refused(g, x.noes)
  /\ s.ask = "hi"     => n <= 2 /\ Refused(g, x.noes) /\ Refused(g + 1, x.noes)

DailySound(x) ==
  LET s == x.search  n == x.calls  b == store.boundary IN
  /\ s.ask = "at"             => n <= 0
  /\ s.ask = "at_before"      =>
       n <= 1 /\ (s.yes => b \in x.yeses) /\ (~s.yes => Refused(b, x.noes))
  /\ s.ask = "forward"        => n <= 2 /\ Refused(b, x.noes)
  /\ s.ask = "forward_end"    => n <= 3 /\ Refused(b + 1, x.noes)
  /\ s.ask = "rolling"        => n <= 4
  /\ s.ask = "rolling_before" => n <= 5 /\ s.hi \in x.yeses
  /\ s.ask = "back"           => n <= 2 /\ b - 1 \in x.yeses
  /\ s.ask = "back_end"       => n <= 3 /\ b - 2 \in x.yeses

BisectSound(x) ==
  LET s == x.search IN
  s.ask = "bisect" =>
    /\ s.hi \in x.yeses /\ Refused(s.lo, x.noes)
    /\ s.hi - s.lo > 1 /\ Fits(s.hi - s.lo, x.calls)

DoneSound(x) ==
  LET s == x.search  b == store.boundary IN
  s.ask = "done" =>
    /\ s.exact => s.found \in x.yeses /\ Refused(s.found - 1, x.noes)
    /\ s.found # NoDay => s.found \in x.yeses \/ (~x.discovery /\ s.found = b)
    /\ ~s.exact /\ s.found # NoDay /\ ~x.discovery => s.found <= b
    /\ x.discovery /\ s.found = NoDay =>
         YoungSite(x.date) \/ Refused(Guess(x.date), x.noes)

DiscoveryAsks == {"start", "guess", "before", "lo", "after", "hi"}
DailyAsks == {"at", "at_before", "forward", "forward_end", "rolling", "rolling_before",
              "back", "back_end"}

Sound(x) ==
  /\ x.search.ask \in DiscoveryAsks => x.discovery
  /\ x.search.ask \in DailyAsks => ~x.discovery
  /\ DiscoverySound(x) /\ DailySound(x) /\ BisectSound(x) /\ DoneSound(x)

\* While a search goes on.
Searching ==
  run.pc = "probe" =>
    /\ FirstDate <= run.date /\ run.date <= today /\ today <= run.date + 1
    /\ run.service => run.discovery /\ run.previous = store
    /\ ~run.discovery => store.boundary # NoDay
    /\ Answers
    /\ Sound(run)

Searches == [ask : Questions \cup {"done"}, lo : Int, hi : Int, yes : BOOLEAN,
             found : Nat, exact : BOOLEAN]
Records == [boundary : Nat, measured : Nat, verified : Nat,
            needs : BOOLEAN, provisional : BOOLEAN]
Runs == [pc : {"idle", "probe", "conclude", "work"}, service : BOOLEAN,
         discovery : BOOLEAN, date : Nat, search : Searches, yeses : SUBSET Int,
         noes : SUBSET Int, calls : 0..MaxProbes, previous : Records]

WorldTypes ==
  /\ today \in Nat /\ FirstDate <= today
  /\ held \in Nat /\ held > 0 /\ missing \in Nat
  /\ activeFrom \in Nat /\ activeFrom <= today

StoreTypes ==
  /\ store \in Records
  /\ store.boundary <= today /\ store.verified <= today /\ store.measured <= today
  /\ store.boundary = NoDay <=> store.verified = NoDay
  /\ store.boundary # NoDay => store.boundary >= activeFrom

AccountTypes == account.remaining \in 0..Limit /\ account.lost \in 0..Requests

RetentionInv ==
  BudgetInv /\ AccountTypes /\ WorldTypes /\ StoreTypes /\ run \in Runs /\ Searching

-----------------------------------------------------------------------------
(* What follows an answer *)

LEMMA FoundFields ==
  ASSUME NEW d \in Nat
  PROVE  /\ Found(d) \in Searches /\ FoundEnd(d) \in Searches
         /\ Found(d).ask = "done" /\ Found(d).found = d /\ Found(d).exact = TRUE
         /\ FoundEnd(d).ask = "done" /\ FoundEnd(d).found = d /\ FoundEnd(d).exact = FALSE
<1> DEFINE s == Search("done", 0, 0)
           r == [s EXCEPT !.found = d]
<1>1. s \in Searches /\ s.ask = "done" /\ s.exact = FALSE
  BY DEF Search, Searches, NoDay
<1> HIDE DEF s
<1>2. r \in Searches /\ r.ask = "done" /\ r.found = d /\ r.exact = FALSE
  BY <1>1 DEF Searches
<1>3. FoundEnd(d) = r /\ Found(d) = [r EXCEPT !.exact = TRUE]
  BY DEF FoundEnd, Found, s
<1> HIDE DEF r
<1> QED
  BY <1>2, <1>3 DEF Searches

LEMMA OtherFields ==
  /\ NotFound \in Searches /\ NotFound.ask = "done" /\ NotFound.found = NoDay
  /\ NotFound.exact = FALSE
  /\ [Search("at_before", 0, 0) EXCEPT !.yes = TRUE] \in Searches
  /\ [Search("at_before", 0, 0) EXCEPT !.yes = TRUE].ask = "at_before"
  /\ [Search("at_before", 0, 0) EXCEPT !.yes = TRUE].yes = TRUE
<1>1. /\ NotFound \in Searches /\ NotFound.ask = "done" /\ NotFound.found = NoDay
      /\ NotFound.exact = FALSE
  BY DEF Search, NotFound, Searches, NoDay
<1> DEFINE s == Search("at_before", 0, 0)
<1>2. s \in Searches /\ s.ask = "at_before"
  BY DEF Search, Searches, Questions, NoDay
<1> HIDE DEF s
<1>3. [s EXCEPT !.yes = TRUE] \in Searches
      /\ [s EXCEPT !.yes = TRUE].ask = "at_before" /\ [s EXCEPT !.yes = TRUE].yes = TRUE
  BY <1>2 DEF Searches
<1> QED
  BY <1>1, <1>3 DEF s

\* The middle of two days that are not neighbours halves what lies between them.
LEMMA Halves ==
  ASSUME NEW lo \in Int, NEW hi \in Int, hi - lo > 1, NEW n \in Nat, Fits(hi - lo, n)
  PROVE  /\ lo + (hi - lo) \div 2 \in Int
         /\ lo + (hi - lo) \div 2 > lo /\ hi > lo + (hi - lo) \div 2
         /\ hi - (lo + (hi - lo) \div 2) > 1 =>
              Fits(hi - (lo + (hi - lo) \div 2), n) /\ Fits(hi - (lo + (hi - lo) \div 2), n + 1)
         /\ (lo + (hi - lo) \div 2) - lo > 1 =>
              /\ Fits((lo + (hi - lo) \div 2) - lo, n)
              /\ Fits((lo + (hi - lo) \div 2) - lo, n + 1)
<1> DEFINE w == hi - lo
           h == w \div 2
<1>1. w \in Int /\ w > 1
  OBVIOUS
<1>2. h \in Int /\ (w = 2 * h \/ w = 2 * h + 1)
  BY <1>1
<1>3. Fits(w, n)
  OBVIOUS
<1>4. hi = lo + w
  OBVIOUS
<1> HIDE DEF h, w
<1>5. /\ h > 0 /\ w - h > 0
      /\ w - h > 1 => Fits(w - h, n) /\ Fits(w - h, n + 1)
      /\ h > 1 => Fits(h, n) /\ Fits(h, n + 1)
  BY <1>1, <1>2, <1>3 DEF Fits
<1>6. hi - (lo + h) = w - h /\ (lo + h) - lo = h
  BY <1>1, <1>2, <1>4
<1>7. lo + h \in Int /\ lo + h > lo /\ hi > lo + h
  BY <1>1, <1>2, <1>4, <1>5
<1>8. h = (hi - lo) \div 2
  BY DEF h, w
<1> QED
  BY <1>5, <1>6, <1>7, <1>8

\* A search that found its first day, one that ended at a day with usage, and one that
\* found nothing, are sound ends.
LEMMA FoundIsSound ==
  ASSUME NEW x, NEW d \in Int, d > 0, x.search = Found(d), d \in x.yeses,
         Refused(d - 1, x.noes)
  PROVE  x.search \in Searches /\ Sound(x)
<1>1. d \in Nat /\ d # NoDay
  BY DEF NoDay
<1>2. x.search \in Searches /\ x.search.ask = "done" /\ x.search.found = d
      /\ x.search.exact = TRUE
  BY <1>1, FoundFields
<1>3. Refused(x.search.found - 1, x.noes)
  BY <1>2
<1> QED
  BY <1>1, <1>2, <1>3 DEF Sound, DiscoveryAsks, DailyAsks,
                          DiscoverySound, DailySound, BisectSound, DoneSound

LEMMA EndIsSound ==
  ASSUME NEW x, NEW d \in Int, d > 0, x.search = FoundEnd(d),
         d \in x.yeses \/ (~x.discovery /\ d = store.boundary),
         ~x.discovery => d <= store.boundary
  PROVE  x.search \in Searches /\ Sound(x)
<1>1. d \in Nat /\ d # NoDay
  BY DEF NoDay
<1>2. x.search \in Searches /\ x.search.ask = "done" /\ x.search.found = d
      /\ x.search.exact = FALSE
  BY <1>1, FoundFields
<1> QED
  BY <1>1, <1>2 DEF Sound, DiscoveryAsks, DailyAsks,
                    DiscoverySound, DailySound, BisectSound, DoneSound

LEMMA NotFoundIsSound ==
  ASSUME NEW x, x.search = NotFound,
         x.discovery => YoungSite(x.date) \/ Refused(Guess(x.date), x.noes)
  PROVE  x.search \in Searches /\ Sound(x)
BY OtherFields DEF Sound, DiscoveryAsks, DailyAsks,
                   DiscoverySound, DailySound, BisectSound, DoneSound

\* What a new question holds.
LEMMA AskedFields ==
  ASSUME NEW z, NEW h \in Int
  PROVE  /\ z = Search("before", 0, 0) =>
              z \in Searches /\ z.ask = "before" /\ z.hi = 0 /\ z.yes = FALSE
         /\ z = Search("lo", 0, 0) =>
              z \in Searches /\ z.ask = "lo" /\ z.hi = 0 /\ z.yes = FALSE
         /\ z = Search("after", 0, 0) =>
              z \in Searches /\ z.ask = "after" /\ z.hi = 0 /\ z.yes = FALSE
         /\ z = Search("hi", 0, 0) =>
              z \in Searches /\ z.ask = "hi" /\ z.hi = 0 /\ z.yes = FALSE
         /\ z = Search("at_before", 0, 0) =>
              z \in Searches /\ z.ask = "at_before" /\ z.hi = 0 /\ z.yes = FALSE
         /\ z = Search("forward", 0, 0) =>
              z \in Searches /\ z.ask = "forward" /\ z.hi = 0 /\ z.yes = FALSE
         /\ z = Search("forward_end", 0, 0) =>
              z \in Searches /\ z.ask = "forward_end" /\ z.hi = 0 /\ z.yes = FALSE
         /\ z = Search("back", 0, 0) =>
              z \in Searches /\ z.ask = "back" /\ z.hi = 0 /\ z.yes = FALSE
         /\ z = Search("back_end", 0, 0) =>
              z \in Searches /\ z.ask = "back_end" /\ z.hi = 0 /\ z.yes = FALSE
         /\ z = Search("rolling", 0, h) =>
              z \in Searches /\ z.ask = "rolling" /\ z.hi = h /\ z.yes = FALSE
         /\ z = Search("rolling_before", 0, h) =>
              z \in Searches /\ z.ask = "rolling_before" /\ z.hi = h /\ z.yes = FALSE
<1>1. ASSUME z = Search("before", 0, 0)
      PROVE  z \in Searches /\ z.ask = "before" /\ z.hi = 0 /\ z.yes = FALSE
  BY <1>1 DEF Search, Searches, Questions, NoDay
<1>2. ASSUME z = Search("lo", 0, 0)
      PROVE  z \in Searches /\ z.ask = "lo" /\ z.hi = 0 /\ z.yes = FALSE
  BY <1>2 DEF Search, Searches, Questions, NoDay
<1>3. ASSUME z = Search("after", 0, 0)
      PROVE  z \in Searches /\ z.ask = "after" /\ z.hi = 0 /\ z.yes = FALSE
  BY <1>3 DEF Search, Searches, Questions, NoDay
<1>4. ASSUME z = Search("hi", 0, 0)
      PROVE  z \in Searches /\ z.ask = "hi" /\ z.hi = 0 /\ z.yes = FALSE
  BY <1>4 DEF Search, Searches, Questions, NoDay
<1>5. ASSUME z = Search("at_before", 0, 0)
      PROVE  z \in Searches /\ z.ask = "at_before" /\ z.hi = 0 /\ z.yes = FALSE
  BY <1>5 DEF Search, Searches, Questions, NoDay
<1>6. ASSUME z = Search("forward", 0, 0)
      PROVE  z \in Searches /\ z.ask = "forward" /\ z.hi = 0 /\ z.yes = FALSE
  BY <1>6 DEF Search, Searches, Questions, NoDay
<1>7. ASSUME z = Search("forward_end", 0, 0)
      PROVE  z \in Searches /\ z.ask = "forward_end" /\ z.hi = 0 /\ z.yes = FALSE
  BY <1>7 DEF Search, Searches, Questions, NoDay
<1>8. ASSUME z = Search("back", 0, 0)
      PROVE  z \in Searches /\ z.ask = "back" /\ z.hi = 0 /\ z.yes = FALSE
  BY <1>8 DEF Search, Searches, Questions, NoDay
<1>9. ASSUME z = Search("back_end", 0, 0)
      PROVE  z \in Searches /\ z.ask = "back_end" /\ z.hi = 0 /\ z.yes = FALSE
  BY <1>9 DEF Search, Searches, Questions, NoDay
<1>10. ASSUME z = Search("rolling", 0, h)
      PROVE  z \in Searches /\ z.ask = "rolling" /\ z.hi = h /\ z.yes = FALSE
  BY <1>10 DEF Search, Searches, Questions, NoDay
<1>11. ASSUME z = Search("rolling_before", 0, h)
      PROVE  z \in Searches /\ z.ask = "rolling_before" /\ z.hi = h /\ z.yes = FALSE
  BY <1>11 DEF Search, Searches, Questions, NoDay
<1> QED
  BY <1>1, <1>2, <1>3, <1>4, <1>5, <1>6, <1>7, <1>8, <1>9, <1>10, <1>11

LEMMA RollingFields ==
  ASSUME NEW z
  PROVE  z = Search("rolling", 0, Rolling) /\ Rolling \in Int =>
           z \in Searches /\ z.ask = "rolling"
<1> DEFINE r == Rolling
<1> HIDE DEF r
<1>1. z = Search("rolling", 0, r) /\ r \in Int => z \in Searches /\ z.ask = "rolling"
  BY DEF Search, Searches, Questions, NoDay
<1> QED
  BY <1>1 DEF r

\* A question other than a bisection's is sound for what is known when it is asked.
LEMMA AskIsSound ==
  ASSUME NEW x, x.search \in Searches, x.search.ask \in DiscoveryAsks \cup DailyAsks,
         x.search.ask \in DiscoveryAsks => x.discovery /\ DiscoverySound(x),
         x.search.ask \in DailyAsks => ~x.discovery /\ DailySound(x)
  PROVE  x.search \in Searches /\ Sound(x)
BY DEF Sound, DiscoveryAsks, DailyAsks, DiscoverySound, DailySound, BisectSound, DoneSound

\* A bisection starts, or goes on, or has found its day.
LEMMA BisectIsSound ==
  ASSUME NEW x, NEW lo \in Int, NEW hi \in Int, x.calls \in Nat, x.search = Bisect(lo, hi),
         hi \in x.yeses, Refused(lo, x.noes), \A d \in x.yeses : d > 0,
         hi - lo > 0, hi - lo > 1 => Fits(hi - lo, x.calls)
  PROVE  x.search \in Searches /\ Sound(x)
<1>1. CASE hi - lo > 1
  <2>1. x.search = [ask |-> "bisect", lo |-> lo, hi |-> hi, yes |-> FALSE,
                    found |-> NoDay, exact |-> FALSE]
    BY <1>1 DEF Bisect, Search
  <2> QED
    BY <1>1, <2>1 DEF Sound, Searches, Questions, NoDay, DiscoveryAsks, DailyAsks,
                      DiscoverySound, DailySound, BisectSound, DoneSound
<1>2. CASE ~(hi - lo > 1)
  <2>1. x.search = Found(hi) /\ hi - 1 = lo /\ hi > 0
    BY <1>2 DEF Bisect
  <2>2. Refused(hi - 1, x.noes)
    BY <2>1
  <2> QED
    BY <2>1, <2>2, FoundIsSound
<1> QED
  BY <1>1, <1>2

\* A search goes on from a sound question to a sound question or to a sound end.
LEMMA FollowedIsSound ==
  ASSUME NEW x, x.search \in Searches, x.calls \in Nat, x.date \in Nat, x.date = run.date,
         x.discovery \in BOOLEAN, x.yeses \subseteq Int,
         Sound(x), x.search.ask # "done",
         ~x.discovery => store.boundary # NoDay, store.boundary \in Nat, activeFrom \in Nat,
         today \in Nat, store.verified \in Nat,
         NEW y, y.calls \in Nat, y.calls <= x.calls + 1, y.date = x.date,
         y.discovery = x.discovery, x.yeses \subseteq y.yeses, x.noes \subseteq y.noes,
         \A d \in y.yeses : d \in Int /\ d > 0,
         NEW answer \in BOOLEAN,
         answer => DayAsked(x.search) \in y.yeses,
         ~answer => Refused(DayAsked(x.search), y.noes),
         y.search = IF answer THEN AfterYes(x.search) ELSE AfterNo(x.search)
  PROVE  y.search \in Searches /\ Sound(y)
<1> DEFINE s == x.search
           b == store.boundary
           g == Guess(x.date)
<1>1. /\ b \in Nat /\ g \in Int /\ activeFrom \in Nat
      /\ YoungSite(x.date) => activeFrom # NoDay
  BY DEF Guess, FallbackDays, YoungSite
<1>2. \A d : Refused(d, x.noes) => Refused(d, y.noes)
  BY DEF Refused
<1>3. y.discovery = x.discovery /\ (x.search.ask \in DiscoveryAsks => x.discovery)
      /\ (x.search.ask \in DailyAsks => ~x.discovery)
  BY DEF Sound
<1>4. (answer \/ ~answer) /\ s.lo \in Int /\ s.hi \in Int /\ 0 \in Int
      /\ \A a \in DiscoveryAsks \cup DailyAsks : a \in Questions
      /\ {"before", "lo", "after", "hi"} \subseteq DiscoveryAsks
      /\ {"at_before", "forward", "forward_end", "rolling", "rolling_before", "back",
          "back_end"} \subseteq DailyAsks
  BY DEF Searches, DiscoveryAsks, DailyAsks, Questions
<1>5. CASE s.ask = "start"
  <2>1. s.ask = "start" /\ x.search.ask = "start"
    BY <1>5
  <2>2. DayAsked(s) = activeFrom
    BY <1>1, <2>1 DEF DayAsked
  <2>3. CASE answer
    <3>1. y.search = Found(activeFrom)
      BY <1>1, <2>1, <2>3 DEF AfterYes
    <3>2. activeFrom \in y.yeses /\ Refused(activeFrom - 1, y.noes)
      BY <1>1, <1>2, <2>1, <2>2, <2>3
         DEF Sound, DiscoverySound, DailySound, DayAsked, Refused, NoDay
    <3> QED
      BY <1>1, <3>1, <3>2, FoundIsSound
  <2>4. CASE ~answer
    <3>1. y.search = NotFound
      BY <1>1, <2>1, <2>4 DEF AfterNo
    <3> QED
      BY <1>1, <1>2, <1>3, <2>1, <3>1, NotFoundIsSound
         DEF Sound, DiscoverySound, DiscoveryAsks, DailyAsks
  <2> QED
    BY <1>4, <2>3, <2>4
<1>6. CASE s.ask = "guess"
  <2>1. s.ask = "guess" /\ x.search.ask = "guess"
    BY <1>6
  <2>2. DayAsked(s) = g
    BY <1>1, <2>1 DEF DayAsked
  <2>3. CASE answer
    <3>1. y.search = Search("before", 0, 0)
      BY <1>1, <2>1, <2>3 DEF AfterYes
    <3>2. y.search \in Searches /\ y.search.ask = "before" /\ y.search.hi = 0
          /\ y.search.yes = FALSE
      BY <1>4, <3>1, AskedFields
    <3>3. y.calls <= 1 /\ g \in y.yeses
      BY <1>1, <1>2, <2>1, <2>2, <2>3 DEF Sound, DiscoverySound
    <3>4. DiscoverySound(y)
      BY <1>3, <3>2, <3>3 DEF DiscoverySound
    <3> QED
      BY <1>3, <2>1, <3>2, <3>4, AskIsSound DEF DiscoveryAsks, DailyAsks
  <2>4. CASE ~answer
    <3>1. y.search = Search("after", 0, 0)
      BY <1>1, <2>1, <2>4 DEF AfterNo
    <3>2. y.search \in Searches /\ y.search.ask = "after" /\ y.search.hi = 0
          /\ y.search.yes = FALSE
      BY <1>4, <3>1, AskedFields
    <3>3. y.calls <= 1 /\ Refused(g, y.noes)
      BY <1>1, <1>2, <2>1, <2>2, <2>4 DEF Sound, DiscoverySound
    <3>4. DiscoverySound(y)
      BY <1>3, <3>2, <3>3 DEF DiscoverySound
    <3> QED
      BY <1>3, <2>1, <3>2, <3>4, AskIsSound DEF DiscoveryAsks, DailyAsks
  <2> QED
    BY <1>4, <2>3, <2>4
<1>7. CASE s.ask = "before"
  <2>1. s.ask = "before" /\ x.search.ask = "before"
    BY <1>7
  <2>2. DayAsked(s) = g - 1
    BY <1>1, <2>1 DEF DayAsked
  <2>3. CASE answer
    <3>1. y.search = Search("lo", 0, 0)
      BY <1>1, <2>1, <2>3 DEF AfterYes
    <3>2. y.search \in Searches /\ y.search.ask = "lo" /\ y.search.hi = 0
          /\ y.search.yes = FALSE
      BY <1>4, <3>1, AskedFields
    <3>3. y.calls <= 2 /\ g - 1 \in y.yeses
      BY <1>1, <1>2, <2>1, <2>2, <2>3 DEF Sound, DiscoverySound
    <3>4. DiscoverySound(y)
      BY <1>3, <3>2, <3>3 DEF DiscoverySound
    <3> QED
      BY <1>3, <2>1, <3>2, <3>4, AskIsSound DEF DiscoveryAsks, DailyAsks
  <2>4. CASE ~answer
    <3>1. y.search = Found(g)
      BY <1>1, <2>1, <2>4 DEF AfterNo
    <3>2. g \in y.yeses /\ Refused(g - 1, y.noes)
      BY <1>1, <1>2, <2>1, <2>2, <2>4
         DEF Sound, DiscoverySound, DailySound, DayAsked, Refused, NoDay
    <3> QED
      BY <1>1, <3>1, <3>2, FoundIsSound
  <2> QED
    BY <1>4, <2>3, <2>4
<1>8. CASE s.ask = "lo"
  <2>1. s.ask = "lo" /\ x.search.ask = "lo"
    BY <1>8
  <2>2. DayAsked(s) = g - 1 - BracketDays
    BY <1>1, <2>1 DEF DayAsked
  <2>3. CASE answer
    <3>1. y.search = FoundEnd(g - 1 - BracketDays) /\ g - 1 - BracketDays \in y.yeses
      BY <1>1, <2>1, <2>2, <2>3 DEF AfterYes, DayAsked
    <3> QED
      BY <1>1, <1>3, <2>1, <3>1, EndIsSound
         DEF BracketDays, Reverify, DiscoveryAsks, DailyAsks
  <2>4. CASE ~answer
    <3>1. y.search = Bisect(g - 1 - BracketDays, g - 1)
      BY <1>1, <2>1, <2>4 DEF AfterNo
    <3>2. g - 1 \in y.yeses /\ Refused(g - 1 - BracketDays, y.noes)
      BY <1>1, <1>2, <2>1, <2>2, <2>4 DEF Sound, DiscoverySound, DailySound, DayAsked
    <3>3. Fits((g - 1) - (g - 1 - BracketDays), y.calls) /\ (g - 1) - (g - 1 - BracketDays) > 0
      BY <1>1, <2>1 DEF Sound, DiscoverySound, DailySound, Fits, BracketDays, Reverify
    <3>4. g - 1 \in Int /\ g - 1 - BracketDays \in Int
      BY <1>1, <2>1 DEF BracketDays, Reverify
    <3> QED
      BY <3>1, <3>2, <3>3, <3>4, BisectIsSound
  <2> QED
    BY <1>4, <2>3, <2>4
<1>9. CASE s.ask = "after"
  <2>1. s.ask = "after" /\ x.search.ask = "after"
    BY <1>9
  <2>2. DayAsked(s) = g + 1
    BY <1>1, <2>1 DEF DayAsked
  <2>3. CASE answer
    <3>1. y.search = Found(g + 1)
      BY <1>1, <2>1, <2>3 DEF AfterYes
    <3>2. g + 1 \in y.yeses /\ Refused(g + 1 - 1, y.noes)
      BY <1>1, <1>2, <2>1, <2>2, <2>3
         DEF Sound, DiscoverySound, DailySound, DayAsked, Refused, NoDay
    <3> QED
      BY <1>1, <3>1, <3>2, FoundIsSound
  <2>4. CASE ~answer
    <3>1. y.search = Search("hi", 0, 0)
      BY <1>1, <2>1, <2>4 DEF AfterNo
    <3>2. y.search \in Searches /\ y.search.ask = "hi" /\ y.search.hi = 0
          /\ y.search.yes = FALSE
      BY <1>4, <3>1, AskedFields
    <3>3. y.calls <= 2 /\ Refused(g, y.noes) /\ Refused(g + 1, y.noes)
      BY <1>1, <1>2, <2>1, <2>2, <2>4 DEF Sound, DiscoverySound
    <3>4. DiscoverySound(y)
      BY <1>3, <3>2, <3>3 DEF DiscoverySound
    <3> QED
      BY <1>3, <2>1, <3>2, <3>4, AskIsSound DEF DiscoveryAsks, DailyAsks
  <2> QED
    BY <1>4, <2>3, <2>4
<1>10. CASE s.ask = "hi"
  <2>1. s.ask = "hi" /\ x.search.ask = "hi"
    BY <1>10
  <2>2. DayAsked(s) = g + 1 + BracketDays
    BY <1>1, <2>1 DEF DayAsked
  <2>3. CASE answer
    <3>1. y.search = Bisect(g + 1, g + 1 + BracketDays)
      BY <1>1, <2>1, <2>3 DEF AfterYes
    <3>2. g + 1 + BracketDays \in y.yeses /\ Refused(g + 1, y.noes)
      BY <1>1, <1>2, <2>1, <2>2, <2>3 DEF Sound, DiscoverySound, DailySound, DayAsked
    <3>3. Fits((g + 1 + BracketDays) - (g + 1), y.calls) /\ (g + 1 + BracketDays) - (g + 1) > 0
      BY <1>1, <2>1 DEF Sound, DiscoverySound, DailySound, Fits, BracketDays, Reverify
    <3>4. g + 1 + BracketDays \in Int /\ g + 1 \in Int
      BY <1>1, <2>1 DEF BracketDays, Reverify
    <3> QED
      BY <3>1, <3>2, <3>3, <3>4, BisectIsSound
  <2>4. CASE ~answer
    <3>1. y.search = NotFound
      BY <1>1, <2>1, <2>4 DEF AfterNo
    <3> QED
      BY <1>1, <1>2, <1>3, <2>1, <3>1, NotFoundIsSound
         DEF Sound, DiscoverySound, DiscoveryAsks, DailyAsks
  <2> QED
    BY <1>4, <2>3, <2>4
<1>11. CASE s.ask = "at"
  <2>1. s.ask = "at" /\ x.search.ask = "at"
    BY <1>11
  <2>2. DayAsked(s) = b
    BY <1>1, <2>1 DEF DayAsked
  <2>3. CASE answer
    <3>1. y.search = [Search("at_before", 0, 0) EXCEPT !.yes = TRUE]
      BY <1>1, <2>1, <2>3 DEF AfterYes
    <3>2. y.search \in Searches /\ y.search.ask = "at_before" /\ y.search.yes = TRUE
      BY <3>1, OtherFields
    <3>3. y.calls <= 1 /\ b \in y.yeses
      BY <1>1, <1>2, <2>1, <2>2, <2>3 DEF Sound, DailySound
    <3>4. DailySound(y)
      BY <1>3, <3>2, <3>3 DEF DailySound
    <3> QED
      BY <1>3, <2>1, <3>2, <3>4, AskIsSound DEF DiscoveryAsks, DailyAsks
  <2>4. CASE ~answer
    <3>1. y.search = Search("at_before", 0, 0)
      BY <1>1, <2>1, <2>4 DEF AfterNo
    <3>2. y.search \in Searches /\ y.search.ask = "at_before" /\ y.search.hi = 0
          /\ y.search.yes = FALSE
      BY <1>4, <3>1, AskedFields
    <3>3. y.calls <= 1 /\ Refused(b, y.noes)
      BY <1>1, <1>2, <2>1, <2>2, <2>4 DEF Sound, DailySound
    <3>4. DailySound(y)
      BY <1>3, <3>2, <3>3 DEF DailySound
    <3> QED
      BY <1>3, <2>1, <3>2, <3>4, AskIsSound DEF DiscoveryAsks, DailyAsks
  <2> QED
    BY <1>4, <2>3, <2>4
<1>12. CASE s.ask = "at_before"
  <2>1. s.ask = "at_before" /\ x.search.ask = "at_before"
    BY <1>12
  <2>2. DayAsked(s) = b - 1
    BY <1>1, <2>1 DEF DayAsked
  <2>3. CASE answer /\ s.yes
    <3>1. y.search = Search("back", 0, 0)
      BY <1>1, <2>1, <2>3 DEF AfterYes
    <3>2. y.search \in Searches /\ y.search.ask = "back" /\ y.search.hi = 0
      BY <1>4, <3>1, AskedFields
    <3>3. y.calls <= 2 /\ b - 1 \in y.yeses
      BY <1>1, <1>2, <2>1, <2>2, <2>3 DEF Sound, DailySound
    <3>4. DailySound(y)
      BY <1>3, <3>2, <3>3 DEF DailySound
    <3> QED
      BY <1>3, <2>1, <3>2, <3>4, AskIsSound DEF DiscoveryAsks, DailyAsks
  <2>4. CASE answer /\ ~s.yes
    <3>1. y.search = FoundEnd(b) /\ ~y.discovery /\ b > 0
      BY <1>1, <1>3, <2>1, <2>4 DEF AfterYes, DailyAsks, NoDay
    <3> QED
      BY <1>1, <3>1, EndIsSound
  <2>5. CASE ~answer /\ s.yes
    <3>1. y.search = Found(b)
      BY <1>1, <2>1, <2>5 DEF AfterNo
    <3>2. b \in y.yeses /\ Refused(b - 1, y.noes)
      BY <1>1, <2>1, <2>2, <2>5 DEF Sound, DailySound
    <3> QED
      BY <1>1, <3>1, <3>2, FoundIsSound
  <2>6. CASE ~answer /\ ~s.yes
    <3>1. y.search = Search("forward", 0, 0)
      BY <1>1, <2>1, <2>6 DEF AfterNo
    <3>2. y.search \in Searches /\ y.search.ask = "forward" /\ y.search.hi = 0
      BY <1>4, <3>1, AskedFields
    <3>3. y.calls <= 2 /\ Refused(b, y.noes)
      BY <1>1, <1>2, <2>1, <2>2, <2>6 DEF Sound, DailySound
    <3>4. DailySound(y)
      BY <1>3, <3>2, <3>3 DEF DailySound
    <3> QED
      BY <1>3, <2>1, <3>2, <3>4, AskIsSound DEF DiscoveryAsks, DailyAsks
  <2> QED
    BY <1>4, <2>3, <2>4, <2>5, <2>6
<1>13. CASE s.ask = "forward"
  <2>1. s.ask = "forward" /\ x.search.ask = "forward"
    BY <1>13
  <2>2. DayAsked(s) = b + 1
    BY <1>1, <2>1 DEF DayAsked
  <2>3. CASE answer
    <3>1. y.search = Found(b + 1)
      BY <1>1, <2>1, <2>3 DEF AfterYes
    <3>2. b + 1 \in y.yeses /\ Refused(b + 1 - 1, y.noes)
      BY <1>1, <1>2, <2>1, <2>2, <2>3
         DEF Sound, DiscoverySound, DailySound, DayAsked, Refused, NoDay
    <3> QED
      BY <1>1, <3>1, <3>2, FoundIsSound
  <2>4. CASE ~answer
    <3>1. y.search = Search("forward_end", 0, 0)
      BY <1>1, <2>1, <2>4 DEF AfterNo
    <3>2. y.search \in Searches /\ y.search.ask = "forward_end" /\ y.search.hi = 0
          /\ y.search.yes = FALSE
      BY <1>4, <3>1, AskedFields
    <3>3. y.calls <= 3 /\ Refused(b + 1, y.noes)
      BY <1>1, <1>2, <2>1, <2>2, <2>4 DEF Sound, DailySound
    <3>4. DailySound(y)
      BY <1>3, <3>2, <3>3 DEF DailySound
    <3> QED
      BY <1>3, <2>1, <3>2, <3>4, AskIsSound DEF DiscoveryAsks, DailyAsks
  <2> QED
    BY <1>4, <2>3, <2>4
<1>14. CASE s.ask = "forward_end"
  <2>1. s.ask = "forward_end" /\ x.search.ask = "forward_end"
    BY <1>14
  <2>2. DayAsked(s) = b + 1 + Reverify
    BY <1>1, <2>1 DEF DayAsked
  <2>3. CASE answer
    <3>1. y.search = Bisect(b + 1, b + 1 + Reverify)
      BY <1>1, <2>1, <2>3 DEF AfterYes
    <3>2. b + 1 + Reverify \in y.yeses /\ Refused(b + 1, y.noes)
      BY <1>1, <1>2, <2>1, <2>2, <2>3 DEF Sound, DiscoverySound, DailySound, DayAsked
    <3>3. Fits((b + 1 + Reverify) - (b + 1), y.calls) /\ (b + 1 + Reverify) - (b + 1) > 0
      BY <1>1, <2>1 DEF Sound, DiscoverySound, DailySound, Fits, BracketDays, Reverify
    <3>4. b + 1 + Reverify \in Int /\ b + 1 \in Int
      BY <1>1, <2>1 DEF BracketDays, Reverify
    <3> QED
      BY <3>1, <3>2, <3>3, <3>4, BisectIsSound
  <2>4. CASE ~answer
    <3>1. y.search = TryRolling(b + 1 + Reverify)
      BY <1>1, <2>1, <2>4 DEF AfterNo
    <3>2. CASE y.search = NotFound
      BY <1>3, <2>1, <3>2, NotFoundIsSound DEF DailyAsks
    <3>3. CASE y.search = Search("rolling", 0, Rolling)
      <4>1. Rolling \in Int
        BY <1>1 DEF Rolling
      <4>2. y.search \in Searches /\ y.search.ask = "rolling"
        BY <3>3, <4>1, RollingFields
      <4>3. y.calls <= 4
        BY <1>1, <2>1 DEF Sound, DailySound
      <4>4. DailySound(y)
        BY <1>3, <4>2, <4>3 DEF DailySound
      <4> QED
        BY <1>3, <2>1, <4>2, <4>4, AskIsSound DEF DiscoveryAsks, DailyAsks
    <3> QED
      BY <3>1, <3>2, <3>3 DEF TryRolling
  <2> QED
    BY <1>4, <2>3, <2>4
<1>15. CASE s.ask = "rolling"
  <2>1. s.ask = "rolling" /\ x.search.ask = "rolling"
    BY <1>15
  <2>2. DayAsked(s) = s.hi
    BY <1>1, <2>1 DEF DayAsked
  <2>3. CASE answer
    <3>1. y.search = Search("rolling_before", 0, s.hi)
      BY <1>1, <2>1, <2>3 DEF AfterYes
    <3>2. y.search \in Searches /\ y.search.ask = "rolling_before" /\ y.search.hi = s.hi
          /\ y.search.yes = FALSE
      BY <1>4, <3>1, AskedFields
    <3>3. y.calls <= 5 /\ s.hi \in y.yeses
      BY <1>1, <1>2, <2>1, <2>2, <2>3 DEF Sound, DailySound
    <3>4. DailySound(y)
      BY <1>3, <3>2, <3>3 DEF DailySound
    <3> QED
      BY <1>3, <2>1, <3>2, <3>4, AskIsSound DEF DiscoveryAsks, DailyAsks
  <2>4. CASE ~answer
    <3>1. y.search = NotFound
      BY <1>1, <2>1, <2>4 DEF AfterNo
    <3> QED
      BY <1>1, <1>2, <1>3, <2>1, <3>1, NotFoundIsSound
         DEF Sound, DiscoverySound, DiscoveryAsks, DailyAsks
  <2> QED
    BY <1>4, <2>3, <2>4
<1>16. CASE s.ask = "rolling_before"
  <2>1. s.ask = "rolling_before" /\ x.search.ask = "rolling_before"
    BY <1>16
  <2>2. DayAsked(s) = s.hi - 1
    BY <1>1, <2>1 DEF DayAsked
  <2>3. CASE answer
    <3>1. y.search = NotFound
      BY <1>1, <2>1, <2>3 DEF AfterYes
    <3> QED
      BY <1>1, <1>2, <1>3, <2>1, <3>1, NotFoundIsSound
         DEF Sound, DiscoverySound, DiscoveryAsks, DailyAsks
  <2>4. CASE ~answer
    <3>1. y.search = Found(s.hi)
      BY <1>1, <2>1, <2>4 DEF AfterNo
    <3>2. s.hi \in y.yeses /\ Refused(s.hi - 1, y.noes)
      BY <1>1, <1>2, <2>1, <2>2, <2>4
         DEF Sound, DiscoverySound, DailySound, DayAsked, Refused, NoDay
    <3> QED
      BY <1>1, <3>1, <3>2, FoundIsSound
  <2> QED
    BY <1>4, <2>3, <2>4
<1>17. CASE s.ask = "back"
  <2>1. s.ask = "back" /\ x.search.ask = "back"
    BY <1>17
  <2>2. DayAsked(s) = b - 2
    BY <1>1, <2>1 DEF DayAsked
  <2>3. CASE answer
    <3>1. y.search = Search("back_end", 0, 0)
      BY <1>1, <2>1, <2>3 DEF AfterYes
    <3>2. y.search \in Searches /\ y.search.ask = "back_end" /\ y.search.hi = 0
          /\ y.search.yes = FALSE
      BY <1>4, <3>1, AskedFields
    <3>3. y.calls <= 3 /\ b - 2 \in y.yeses
      BY <1>1, <1>2, <2>1, <2>2, <2>3 DEF Sound, DailySound
    <3>4. DailySound(y)
      BY <1>3, <3>2, <3>3 DEF DailySound
    <3> QED
      BY <1>3, <2>1, <3>2, <3>4, AskIsSound DEF DiscoveryAsks, DailyAsks
  <2>4. CASE ~answer
    <3>1. y.search = Found(b - 1)
      BY <1>1, <2>1, <2>4 DEF AfterNo
    <3>2. b - 1 \in y.yeses /\ Refused(b - 1 - 1, y.noes)
      BY <1>1, <1>2, <2>1, <2>2, <2>4
         DEF Sound, DiscoverySound, DailySound, DayAsked, Refused, NoDay
    <3> QED
      BY <1>1, <3>1, <3>2, FoundIsSound
  <2> QED
    BY <1>4, <2>3, <2>4
<1>18. CASE s.ask = "back_end"
  <2>1. s.ask = "back_end" /\ x.search.ask = "back_end"
    BY <1>18
  <2>2. DayAsked(s) = b - 2 - Reverify
    BY <1>1, <2>1 DEF DayAsked
  <2>3. CASE answer
    <3>1. y.search = FoundEnd(b - 2 - Reverify) /\ b - 2 - Reverify \in y.yeses
      BY <1>1, <2>1, <2>2, <2>3 DEF AfterYes, DayAsked
    <3> QED
      BY <1>1, <1>3, <2>1, <3>1, EndIsSound
         DEF BracketDays, Reverify, DiscoveryAsks, DailyAsks
  <2>4. CASE ~answer
    <3>1. y.search = Bisect(b - 2 - Reverify, b - 2)
      BY <1>1, <2>1, <2>4 DEF AfterNo
    <3>2. b - 2 \in y.yeses /\ Refused(b - 2 - Reverify, y.noes)
      BY <1>1, <1>2, <2>1, <2>2, <2>4 DEF Sound, DiscoverySound, DailySound, DayAsked
    <3>3. Fits((b - 2) - (b - 2 - Reverify), y.calls) /\ (b - 2) - (b - 2 - Reverify) > 0
      BY <1>1, <2>1 DEF Sound, DiscoverySound, DailySound, Fits, BracketDays, Reverify
    <3>4. b - 2 \in Int /\ b - 2 - Reverify \in Int
      BY <1>1, <2>1 DEF BracketDays, Reverify
    <3> QED
      BY <3>1, <3>2, <3>3, <3>4, BisectIsSound
  <2> QED
    BY <1>4, <2>3, <2>4
<1>19. CASE s.ask = "bisect"
  <2> DEFINE m == Midpoint(s)
  <2>1. DayAsked(s) = m /\ s.hi \in y.yeses /\ Refused(s.lo, y.noes)
    BY <1>2, <1>19 DEF DayAsked, Sound, BisectSound
  <2>2. s.hi - s.lo > 1 /\ Fits(s.hi - s.lo, x.calls)
    BY <1>19 DEF Sound, BisectSound
  <2>3. /\ m \in Int /\ m > s.lo /\ s.hi > m
        /\ s.hi - m > 1 => Fits(s.hi - m, x.calls) /\ Fits(s.hi - m, x.calls + 1)
        /\ m - s.lo > 1 => Fits(m - s.lo, x.calls) /\ Fits(m - s.lo, x.calls + 1)
    BY <1>4, <2>2, Halves DEF Midpoint
  <2>4. y.search = IF answer THEN Bisect(s.lo, m) ELSE Bisect(m, s.hi)
    BY <1>19 DEF AfterYes, AfterNo
  <2> HIDE DEF m
  <2>5. \A w \in Int : Fits(w, x.calls) /\ Fits(w, x.calls + 1) => Fits(w, y.calls)
    BY DEF Fits
  <2>6. /\ s.hi - m \in Int /\ m - s.lo \in Int /\ s.hi - m > 0 /\ m - s.lo > 0
        /\ s.hi - m > 1 => Fits(s.hi - m, y.calls)
        /\ m - s.lo > 1 => Fits(m - s.lo, y.calls)
    BY <1>4, <2>3, <2>5
  <2>7. CASE answer
    BY <1>4, <2>1, <2>3, <2>4, <2>6, <2>7, BisectIsSound
  <2>8. CASE ~answer
    BY <1>4, <2>1, <2>3, <2>4, <2>6, <2>8, BisectIsSound
  <2> QED
    BY <2>7, <2>8
<1>20. s.ask \in Questions
  BY DEF Searches
<1> QED
  BY <1>5, <1>6, <1>7, <1>8, <1>9, <1>10, <1>11, <1>12,
     <1>13, <1>14, <1>15, <1>16, <1>17, <1>18, <1>19, <1>20 DEF Questions

-----------------------------------------------------------------------------
(* Every step keeps the invariant of searches *)

LEMMA IdleRuns ==
  /\ Idle \in Runs /\ Idle.pc = "idle" /\ Idle.calls = 0
  /\ [Idle EXCEPT !.pc = "work"] \in Runs /\ [Idle EXCEPT !.pc = "work"].pc = "work"
  /\ \A v \in BOOLEAN :
       /\ [Idle EXCEPT !.pc = "conclude", !.service = v] \in Runs
       /\ [Idle EXCEPT !.pc = "conclude", !.service = v].pc = "conclude"
<1>1. Nothing \in Records
  BY DEF Nothing, Records, NoDay
<1>2. Idle \in Runs /\ Idle.pc = "idle" /\ Idle.calls = 0
  BY <1>1, OtherFields DEF Idle, Runs, NoDay, MaxProbes
<1>3. [Idle EXCEPT !.pc = "work"] \in Runs /\ [Idle EXCEPT !.pc = "work"].pc = "work"
  BY <1>2 DEF Runs
<1>4. ASSUME NEW v \in BOOLEAN
      PROVE  /\ [Idle EXCEPT !.pc = "conclude", !.service = v] \in Runs
             /\ [Idle EXCEPT !.pc = "conclude", !.service = v].pc = "conclude"
  BY <1>2 DEF Runs
<1> QED
  BY <1>2, <1>3, <1>4

LEMMA InitRetention == Init => RetentionInv
<1> SUFFICES ASSUME Init
             PROVE  RetentionInv
  OBVIOUS
<1>1. BudgetInv
  BY InitBudget
<1>2. AccountTypes
  BY CallBudgetAssumption DEF Init, AccountTypes
<1>3. WorldTypes
  BY RetentionAssumption DEF Init, WorldTypes, FallbackDays
<1>4. StoreTypes
  BY <1>3 DEF Init, StoreTypes, Nothing, Records, NoDay, WorldTypes
<1>5. run \in Runs /\ Searching
  BY IdleRuns DEF Init, Searching
<1> QED
  BY <1>1, <1>2, <1>3, <1>4, <1>5 DEF RetentionInv

LEMMA AccountKept ==
  ASSUME RetentionInv, [Next]_vars
  PROVE  AccountTypes'
<1>1. /\ account \in [remaining : Nat, lost : Nat]
      /\ account.remaining \in 0..Limit /\ account.lost \in 0..Requests
  BY DEF RetentionInv, BudgetInv, BudgetTypes, AccountTypes
<1>2. CASE account' = account
  BY <1>1, <1>2 DEF AccountTypes
<1>3. CASE Send
  BY <1>1, <1>3, CallBudgetAssumption DEF Send, AccountTypes
<1>4. CASE SendLost
  BY <1>1, <1>4, CallBudgetAssumption DEF SendLost, AccountTypes
<1>5. CASE WindowEnds
  BY <1>1, <1>5, CallBudgetAssumption DEF WindowEnds, AccountTypes
<1>6. CASE ProbeRejected
  BY <1>1, <1>6, CallBudgetAssumption DEF ProbeRejected, AccountTypes
<1>7. account' = account \/ Send \/ SendLost \/ WindowEnds \/ ProbeRejected
  BY DEF Next, vars, Step, Probe, Conclude, StartRun, ProbeRetention, ProbeKnown, ProbeAsk,
         ProbeLost, ProbeLimited, ProbeRefused, AfterFailure, FoundBoundary,
         NothingBracketed, VerifyNotFound, WorkEnds, WorkRequest, Tick, Reload, SendLimited
<1> QED
  BY <1>2, <1>3, <1>4, <1>5, <1>6, <1>7

\* The world changes only when the date moves on.
LEMMA WorldChanges ==
  ASSUME [Next]_vars
  PROVE  UNCHANGED world \/ \E days \in Outages : Tick(days)
BY DEF Next, vars, Step, Probe, Conclude, StartRun, ProbeRetention, ProbeKnown, ProbeAsk,
       ProbeLost, ProbeLimited, ProbeRejected, ProbeRefused, AfterFailure, FoundBoundary,
       NothingBracketed, VerifyNotFound, WorkEnds, WorkRequest, WindowEnds, Reload

LEMMA WorldKept ==
  ASSUME RetentionInv, [Next]_vars
  PROVE  WorldTypes'
<1>1. CASE UNCHANGED world
  BY <1>1 DEF RetentionInv, WorldTypes, world
<1>2. ASSUME NEW days \in Outages, Tick(days)
      PROVE  WorldTypes'
  <2>1. days \in Nat /\ FirstDate \in Nat /\ \A h \in HeldFrom : h \in Nat /\ h > 0
    BY RetentionAssumption
  <2>2. today' = today + days /\ missing' = missing /\ activeFrom' = activeFrom
    BY <1>2 DEF Tick
  <2>3. held' = held \/ held' = held + days \/ held' \in HeldFrom
    BY <1>2 DEF Tick
  <2>4. held' \in Nat /\ held' > 0
    BY <2>1, <2>3 DEF RetentionInv, WorldTypes
  <2> QED
    BY <2>1, <2>2, <2>4 DEF RetentionInv, WorldTypes
<1> QED
  BY <1>1, <1>2, WorldChanges

-----------------------------------------------------------------------------
(* What is stored *)

LEMMA StoredTypes ==
  ASSUME WorldTypes, today' = today, activeFrom' = activeFrom,
         NEW b \in Nat, b # NoDay, b <= today, NEW needs \in BOOLEAN,
         NEW provisional \in BOOLEAN, NEW v \in Nat, v # NoDay, v <= today,
         StoreRetention(b, needs, provisional, v)
  PROVE  StoreTypes' /\ store'.boundary = FromStart(b)
<1>1. FromStart(b) \in Nat /\ FromStart(b) # NoDay /\ FromStart(b) <= today
      /\ FromStart(b) >= activeFrom
  BY DEF FromStart, WorldTypes, NoDay
<1>2. store' = [boundary |-> FromStart(b), measured |-> today, verified |-> v,
                needs |-> needs, provisional |-> provisional]
  BY DEF StoreRetention
<1>3. today \in Nat
  BY DEF WorldTypes
<1> HIDE DEF StoreRetention
<1> QED
  BY <1>1, <1>2, <1>3 DEF StoreTypes, Records

\* The days a fallback stores.
LEMMA FallbackFits ==
  ASSUME RetentionInv, run.pc = "probe"
  PROVE  /\ Guess(run.date) \in Nat /\ Guess(run.date) # NoDay /\ Guess(run.date) < today
         /\ today \in Nat /\ today # NoDay
         /\ YoungSite(run.date) =>
              activeFrom \in Nat /\ activeFrom # NoDay /\ activeFrom <= today
BY RetentionAssumption
   DEF RetentionInv, Searching, WorldTypes, Guess, FallbackDays, NoDay, YoungSite, Runs

LEMMA StoredToday ==
  ASSUME WorldTypes, today' = today, activeFrom' = activeFrom, today # NoDay,
         NEW b \in Nat, b # NoDay, b <= today,
         \/ StoreRetention(b, FALSE, FALSE, today)
         \/ StoreRetention(b, TRUE, TRUE, today)
  PROVE  StoreTypes' /\ store'.boundary = FromStart(b)
<1>1. today \in Nat /\ today <= today
  BY DEF WorldTypes
<1>2. CASE StoreRetention(b, FALSE, FALSE, today)
  BY <1>1, <1>2, StoredTypes
<1>3. CASE StoreRetention(b, TRUE, TRUE, today)
  BY <1>1, <1>3, StoredTypes
<1> QED
  BY <1>2, <1>3

LEMMA UnresolvedTypes ==
  ASSUME RetentionInv, UNCHANGED world, store.boundary # NoDay, VerifyUnresolved
  PROVE  StoreTypes' /\ store'.boundary = store.boundary
<1>1. /\ store.boundary \in Nat /\ store.boundary <= today
      /\ store.verified \in Nat /\ store.verified # NoDay /\ store.verified <= today
      /\ store.boundary >= activeFrom /\ activeFrom \in Nat
  BY DEF RetentionInv, StoreTypes, Records, WorldTypes
<1>2. StoreTypes' /\ store'.boundary = FromStart(store.boundary)
  BY <1>1, StoredTypes DEF VerifyUnresolved, RetentionInv, world
<1>3. FromStart(store.boundary) = store.boundary
  BY <1>1 DEF FromStart
<1> QED
  BY <1>2, <1>3

\* After a failure the boundary that was stored stays; without one the fallback is stored.
LEMMA FailureTypes ==
  ASSUME RetentionInv, UNCHANGED world, run.pc = "probe", NEW fatal \in BOOLEAN, Fails(fatal)
  PROVE  /\ StoreTypes'
         /\ store.boundary # NoDay => store'.boundary = store.boundary
<1>0. /\ store \in Records /\ StoreTypes /\ today \in Nat /\ today' = today
      /\ activeFrom' = activeFrom /\ WorldTypes
      /\ run.service => run.previous = store
      /\ ~run.discovery => store.boundary # NoDay
  BY DEF RetentionInv, StoreTypes, WorldTypes, Searching, world
<1>1. CASE store' = store
  BY <1>0, <1>1 DEF StoreTypes
<1>2. CASE store' = KeepRetention
  <2>1. /\ store' \in Records /\ store'.boundary = store.boundary
        /\ store'.verified = store.verified /\ store'.measured = today
    BY <1>0, <1>2 DEF KeepRetention, Records
  <2> QED
    BY <1>0, <2>1 DEF StoreTypes
<1>3. CASE store.boundary = NoDay /\ StoreRetention(activeFrom, TRUE, TRUE, today)
           /\ YoungSite(run.date)
  BY <1>0, <1>3, FallbackFits, StoredToday
<1>4. CASE store.boundary = NoDay /\ StoreRetention(Guess(run.date), TRUE, TRUE, today)
  <2>1. Guess(run.date) <= today
    BY FallbackFits DEF Guess, RetentionInv, Runs, FallbackDays
  <2> QED
    BY <1>0, <1>4, <2>1, FallbackFits, StoredToday
<1>5. CASE ~run.discovery /\ VerifyUnresolved
  BY <1>0, <1>5, UnresolvedTypes
<1>6. CASE DiscoveryFails(fatal)
  BY <1>0, <1>1, <1>2, <1>3, <1>4, <1>6 DEF DiscoveryFails
<1>7. CASE VerifyFails(fatal)
  BY <1>1, <1>5, <1>7 DEF VerifyFails
<1> QED
  BY <1>6, <1>7 DEF Fails

\* The day a search ends with.
LEMMA FoundFits ==
  ASSUME RetentionInv, Searched, run.search.found # NoDay
  PROVE  run.search.found \in Nat /\ run.search.found <= today
<1>1. /\ run.search.found \in Nat /\ store.boundary <= today /\ today \in Nat
      /\ run.search.found \in run.yeses \/ run.search.found = store.boundary
      /\ \A d \in run.yeses : d < today
  BY DEF RetentionInv, Searched, Searching, Answers, Sound, DoneSound, Runs, Searches,
         StoreTypes, WorldTypes
<1> QED
  BY <1>1

LEMMA ConcludeTypes ==
  ASSUME RetentionInv, Conclude
  PROVE  StoreTypes'
<1>0. WorldTypes /\ UNCHANGED world /\ today' = today /\ activeFrom' = activeFrom
  BY DEF RetentionInv, Conclude, FoundBoundary, NothingBracketed, VerifyNotFound, world
<1>1. CASE FoundBoundary
  <2>1. today \in Nat /\ today # NoDay
    BY <1>1, FallbackFits DEF FoundBoundary, Searched
  <2> QED
    BY <1>0, <1>1, <2>1, FoundFits, StoredToday DEF FoundBoundary
<1>2. CASE NothingBracketed
  <2>1. run.pc = "probe"
    BY <1>2 DEF NothingBracketed, Searched
  <2>2. Guess(run.date) <= today
    BY <2>1, FallbackFits DEF Guess, RetentionInv, Runs, FallbackDays
  <2>3. CASE YoungSite(run.date) /\ StoreRetention(activeFrom, FALSE, FALSE, today)
    BY <1>0, <2>1, <2>3, FallbackFits, StoredToday
  <2>4. CASE StoreRetention(Guess(run.date), TRUE, TRUE, today)
    BY <1>0, <2>1, <2>2, <2>4, FallbackFits, StoredToday
  <2> QED
    BY <1>2, <2>3, <2>4 DEF NothingBracketed
<1>3. CASE VerifyNotFound
  <2>1. store.boundary # NoDay
    BY <1>3 DEF VerifyNotFound, Searched, RetentionInv, Searching
  <2> QED
    BY <1>0, <1>3, <2>1, UnresolvedTypes DEF VerifyNotFound
<1> QED
  BY <1>1, <1>2, <1>3 DEF Conclude

\* What can happen to the record.
LEMMA StoreChanges ==
  ASSUME [Next]_vars
  PROVE  \/ store' = store
         \/ Conclude
         \/ /\ UNCHANGED world /\ Probing
            /\ Fails(TRUE) \/ Fails(FALSE)
<1>1. CASE ProbeRefused
  <2>1. (run.calls < MaxProbes) = TRUE \/ (run.calls < MaxProbes) = FALSE
    OBVIOUS
  <2> QED
    BY <1>1, <2>1 DEF ProbeRefused
<1>2. CASE ~ProbeRefused
  BY <1>2 DEF Next, vars, Step, Probe, StartRun, ProbeRetention, ProbeKnown, ProbeAsk,
       ProbeLost, ProbeLimited, ProbeRejected, AfterFailure,
       WorkEnds, WorkRequest, Tick, WindowEnds, Reload
<1> QED
  BY <1>1, <1>2

LEMMA StoreKept ==
  ASSUME RetentionInv, [Next]_vars
  PROVE  StoreTypes'
<1>1. CASE store' = store
  <2>1. activeFrom' = activeFrom /\ today \in Nat /\ today' \in Nat /\ today <= today'
    <3>1. CASE UNCHANGED world
      BY <3>1 DEF world, RetentionInv, WorldTypes
    <3>2. CASE \E days \in Outages : Tick(days)
      BY <3>2, RetentionAssumption DEF Tick, RetentionInv, WorldTypes
    <3> QED
      BY <3>1, <3>2, WorldChanges
  <2> QED
    BY <1>1, <2>1 DEF RetentionInv, StoreTypes, Records
<1>2. CASE Conclude
  BY <1>2, ConcludeTypes
<1>3. CASE UNCHANGED world /\ Probing /\ (Fails(TRUE) \/ Fails(FALSE))
  BY <1>3, FailureTypes DEF Probing
<1> QED
  BY <1>1, <1>2, <1>3, StoreChanges

-----------------------------------------------------------------------------
(* The run *)

\* A record and a start date that stay leave what is sound as it is.
LEMMA SoundPrimed ==
  ASSUME store' = store, activeFrom' = activeFrom, Sound(run')
  PROVE  Sound(run)'
BY DEF Sound, DiscoverySound, DailySound, BisectSound, DoneSound, Refused, YoungSite, Guess,
       Fits

LEMMA FirstQuestions ==
  ASSUME NEW z
  PROVE  /\ z = Search("start", 0, 0) => z \in Searches /\ z.ask = "start"
         /\ z = Search("guess", 0, 0) => z \in Searches /\ z.ask = "guess"
         /\ z = Search("at", 0, 0) => z \in Searches /\ z.ask = "at"
<1>1. z = Search("start", 0, 0) => z \in Searches /\ z.ask = "start"
  BY DEF Search, Searches, Questions, NoDay
<1>2. z = Search("guess", 0, 0) => z \in Searches /\ z.ask = "guess"
  BY DEF Search, Searches, Questions, NoDay
<1>3. z = Search("at", 0, 0) => z \in Searches /\ z.ask = "at"
  BY DEF Search, Searches, Questions, NoDay
<1> QED
  BY <1>1, <1>2, <1>3

\* A search begins with a question that needs nothing to be known.
LEMMA Begun ==
  ASSUME RetentionInv, UNCHANGED <<world, store>>, NEW service \in BOOLEAN,
         NEW discovery \in BOOLEAN, NEW search \in Searches,
         BeginSearch(service, discovery, search),
         service => discovery, ~discovery => store.boundary # NoDay,
         \/ discovery /\ search.ask = "start" /\ YoungSite(today)
         \/ discovery /\ search.ask = "guess"
         \/ ~discovery /\ search.ask = "at"
  PROVE  run' \in Runs /\ Searching'
<1>1. today \in Nat /\ FirstDate <= today /\ store \in Records /\ Nothing \in Records
  BY DEF RetentionInv, WorldTypes, StoreTypes, Nothing, Records, NoDay
<1> DEFINE before == IF service THEN store ELSE Nothing
<1>2. before \in Records /\ (service => before = store)
  BY <1>1
<1> HIDE DEF before
<1>3. run' = [Idle EXCEPT !.pc = "probe", !.service = service, !.date = today,
                          !.discovery = discovery, !.search = search, !.previous = before]
  BY DEF BeginSearch, before
<1>4. Idle \in Runs /\ Idle.yeses = {} /\ Idle.noes = {} /\ Idle.calls = 0
  BY IdleRuns DEF Idle
<1>5. /\ run' \in Runs /\ run'.pc = "probe" /\ run'.service = service
      /\ run'.date = today /\ run'.discovery = discovery /\ run'.search = search
      /\ run'.previous = before /\ run'.yeses = {} /\ run'.noes = {} /\ run'.calls = 0
  BY <1>1, <1>2, <1>3, <1>4 DEF Runs
<1>6. today' = today /\ store' = store /\ activeFrom' = activeFrom
  BY DEF world
<1>7. Sound(run')
  BY <1>5 DEF Sound, DiscoveryAsks, DailyAsks, DiscoverySound, DailySound, BisectSound,
              DoneSound
<1>8. Sound(run)'
  BY <1>6, <1>7, SoundPrimed
<1>9. Answers'
  BY <1>5 DEF Answers
<1> QED
  BY <1>1, <1>2, <1>5, <1>6, <1>8, <1>9 DEF Searching

LEMMA StartKept ==
  ASSUME RetentionInv, StartRun \/ ProbeRetention
  PROVE  run' \in Runs /\ Searching'
<1>0. UNCHANGED <<world, store>>
  BY DEF StartRun, ProbeRetention
<1>1. ASSUME NEW service \in BOOLEAN, BeginSearch(service, TRUE, DiscoverySearch(today))
      PROVE  run' \in Runs /\ Searching'
  <2> DEFINE z == DiscoverySearch(today)
  <2>1. (z = Search("start", 0, 0) /\ YoungSite(today)) \/ z = Search("guess", 0, 0)
    BY DEF DiscoverySearch
  <2> HIDE DEF z
  <2>2. z \in Searches /\ ((z.ask = "start" /\ YoungSite(today)) \/ z.ask = "guess")
    BY <2>1, FirstQuestions
  <2>3. BeginSearch(service, TRUE, z)
    BY <1>1 DEF z
  <2> QED
    BY <1>0, <2>2, <2>3, Begun
<1>2. CASE ~DiscoveryDue /\ BeginSearch(FALSE, FALSE, DailySearch)
  <2> DEFINE z == DailySearch
  <2>1. z = Search("at", 0, 0)
    BY DEF DailySearch
  <2> HIDE DEF z
  <2>2. z \in Searches /\ z.ask = "at"
    BY <2>1, FirstQuestions
  <2>3. BeginSearch(FALSE, FALSE, z) /\ store.boundary # NoDay
    BY <1>2 DEF z, DiscoveryDue
  <2> QED
    BY <1>0, <2>2, <2>3, Begun
<1>3. CASE BeginWork
  BY <1>3, IdleRuns DEF BeginWork, Searching
<1> QED
  BY <1>1, <1>2, <1>3 DEF StartRun, ProbeRetention, VerifyDue

\* The run after a probe that is not answered, a search that ended, and the work.
LEMMA NotProbing ==
  ASSUME run' \in Runs, run'.pc # "probe"
  PROVE  run' \in Runs /\ Searching'
BY DEF Searching

LEMMA RestKept ==
  ASSUME RetentionInv,
         \/ ProbeLost \/ ProbeLimited \/ ProbeRejected \/ ProbeRefused \/ AfterFailure
         \/ Conclude \/ WorkRequest \/ WorkEnds
  PROVE  run' \in Runs /\ Searching'
<1>1. CASE run' = Idle \/ run' = [Idle EXCEPT !.pc = "work"]
           \/ run' = [Idle EXCEPT !.pc = "conclude", !.service = run.service]
  <2>1. run.service \in BOOLEAN
    BY DEF RetentionInv, Runs
  <2> QED
    BY <1>1, <2>1, IdleRuns, NotProbing
<1>2. CASE run' = run /\ run.pc = "work"
  BY <1>2, NotProbing DEF RetentionInv
<1>3. CASE ProbeLost \/ ProbeLimited \/ ProbeRejected
  BY <1>1, <1>3 DEF ProbeLost, ProbeLimited, ProbeRejected
<1>4. CASE GoOn \/ EndRun
  BY <1>1, <1>4 DEF GoOn, EndRun
<1>5. CASE WorkRequest \/ WorkEnds
  BY <1>2, <1>4, <1>5 DEF WorkRequest, WorkEnds
<1>6. CASE ProbeRefused \/ AfterFailure \/ Conclude
  BY <1>4, <1>6 DEF ProbeRefused, AfterFailure, Conclude, FoundBoundary, NothingBracketed,
                    VerifyNotFound
<1> QED
  BY <1>3, <1>5, <1>6

\* A question that is answered, by Amber or from what is known already.
LEMMA AnsweredKept ==
  ASSUME RetentionInv, ProbeKnown \/ ProbeAsk
  PROVE  run' \in Runs /\ Searching'
<1>1. /\ run \in Runs /\ run.pc = "probe" /\ run.search.ask # "done"
      /\ Answers /\ Sound(run) /\ (~run.discovery => store.boundary # NoDay)
      /\ UNCHANGED <<world, store>>
  BY DEF RetentionInv, ProbeKnown, ProbeAsk, Probing, Searching
<1>2. /\ run.search \in Searches /\ run.calls \in 0..MaxProbes /\ run.date \in Nat
      /\ run.discovery \in BOOLEAN /\ run.yeses \subseteq Int /\ run.noes \subseteq Int
      /\ store.boundary \in Nat /\ activeFrom \in Nat /\ today \in Nat
      /\ store.verified \in Nat /\ MaxProbes \in Nat
      /\ run.date <= today /\ today <= run.date + 1
  BY <1>1 DEF RetentionInv, Runs, StoreTypes, Records, WorldTypes, MaxProbes, Searching
<1>3. Day \in Int
  <2>1. /\ run.search.lo \in Int /\ run.search.hi \in Int /\ run.search.ask \in Questions
    BY <1>1, <1>2 DEF Searches
  <2>2. Midpoint(run.search) \in Int
    BY <2>1 DEF Midpoint
  <2> QED
    BY <1>2, <2>1, <2>2 DEF Day, DayAsked, Questions, Guess, FallbackDays, BracketDays,
                            Reverify
<1>4. PICK answer \in BOOLEAN :
        /\ run' \in Runs \/ run'.search \notin Searches
        /\ run'.search = Follow(answer)
        /\ run'.calls \in Nat /\ run'.calls <= run.calls + 1
        /\ run'.pc = "probe" /\ run'.date = run.date /\ run'.discovery = run.discovery
        /\ run'.service = run.service /\ run'.previous = run.previous
        /\ run.yeses \subseteq run'.yeses /\ run.noes \subseteq run'.noes
        /\ run'.yeses \subseteq Int
        /\ answer => Day \in run'.yeses
        /\ ~answer => Refused(Day, run'.noes)
        /\ Answers'
  <2>1. CASE ProbeKnown
    <3> DEFINE known == Day \in run.yeses
    <3>1. known \in BOOLEAN /\ run' = [run EXCEPT !.search = Follow(known)]
          /\ (~known => Refused(Day, run.noes)) /\ (known => Day \in run.yeses)
      BY <2>1 DEF ProbeKnown, Known, Refused
    <3>2. Answers'
      BY <1>1, <1>2, <3>1 DEF Answers, world, Runs
    <3> HIDE DEF known
    <3>3. /\ run'.search = Follow(known) /\ run'.calls = run.calls
          /\ run'.pc = "probe" /\ run'.date = run.date /\ run'.discovery = run.discovery
          /\ run'.service = run.service /\ run'.previous = run.previous
          /\ run'.yeses = run.yeses /\ run'.noes = run.noes
          /\ run' \in Runs \/ run'.search \notin Searches
      BY <1>1, <3>1 DEF Runs
    <3> QED
      BY <1>2, <3>1, <3>2, <3>3
  <2>2. CASE ProbeAsk
    <3> DEFINE yes == HasUsage(Day)
    <3>1. yes \in BOOLEAN /\ run.calls + 1 \in 0..MaxProbes
          /\ run' = [run EXCEPT !.calls = @ + 1, !.search = Follow(yes),
                          !.yeses = IF yes THEN @ \cup {Day} ELSE @,
                          !.noes = IF yes THEN @ ELSE @ \cup {Day}]
      BY <1>2, <2>2 DEF ProbeAsk, HasUsage
    <3>2. /\ yes => held <= Day /\ Day < today /\ Day >= activeFrom
          /\ ~yes /\ missing = NoDay => Day < held \/ Day >= today
          /\ held \in Nat /\ held > 0
      BY <1>2, <1>3, <2>2 DEF ProbeAsk, HasUsage, Known, NoDay, RetentionInv, WorldTypes
    <3> HIDE DEF yes
    <3>3. /\ run'.search = Follow(yes) /\ run'.calls = run.calls + 1
          /\ run'.pc = "probe" /\ run'.date = run.date /\ run'.discovery = run.discovery
          /\ run'.service = run.service /\ run'.previous = run.previous
          /\ run'.yeses = IF yes THEN run.yeses \cup {Day} ELSE run.yeses
          /\ run'.noes = IF yes THEN run.noes ELSE run.noes \cup {Day}
          /\ run' \in Runs \/ run'.search \notin Searches
      BY <1>1, <1>2, <1>3, <3>1 DEF Runs
    <3>4. Answers'
      BY <1>1, <1>2, <1>3, <3>1, <3>2, <3>3 DEF Answers, world
    <3> QED
      <4>1. /\ yes \in BOOLEAN /\ run'.yeses \subseteq Int
            /\ run.yeses \subseteq run'.yeses /\ run.noes \subseteq run'.noes
            /\ run'.calls \in Nat /\ run'.calls <= run.calls + 1
        BY <1>2, <1>3, <3>1, <3>3
      <4>2. (yes => Day \in run'.yeses) /\ (~yes => Refused(Day, run'.noes))
        BY <3>1, <3>3 DEF Refused
      <4> QED
        BY <3>3, <3>4, <4>1, <4>2
  <2> QED
    BY <2>1, <2>2
<1>5. /\ today' = today /\ activeFrom' = activeFrom /\ store' = store
      /\ \A d \in run'.yeses : d > 0
  BY <1>1, <1>4 DEF world, Answers
<1>6. run'.search \in Searches /\ Sound(run')
  <2>1. run'.search = IF answer THEN AfterYes(run.search) ELSE AfterNo(run.search)
    BY <1>4 DEF Follow
  <2>2. /\ answer => DayAsked(run.search) \in run'.yeses
        /\ ~answer => Refused(DayAsked(run.search), run'.noes)
    BY <1>4 DEF Day
  <2>3. run.calls \in Nat /\ \A d \in run'.yeses : d \in Int /\ d > 0
    BY <1>2, <1>4, <1>5
  <2> QED
    BY <1>1, <1>2, <1>4, <2>1, <2>2, <2>3, FollowedIsSound
<1>7. Sound(run)'
  BY <1>5, <1>6, SoundPrimed
<1>8. FirstDate <= run.date /\ (run.service => run.discovery /\ run.previous = store)
  BY <1>1 DEF RetentionInv, Searching
<1> QED
  BY <1>1, <1>2, <1>4, <1>5, <1>6, <1>7, <1>8 DEF Searching

\* The date moves on, once during a search at most.
LEMMA TickSearching ==
  ASSUME RetentionInv, NEW days \in Outages, Tick(days)
  PROVE  run' \in Runs /\ Searching'
<1>1. run' = run /\ store' = store /\ activeFrom' = activeFrom /\ missing' = missing
      /\ run \in Runs
  BY DEF Tick, RetentionInv
<1>2. CASE run.pc # "probe"
  BY <1>1, <1>2 DEF Searching
<1>3. CASE run.pc = "probe"
  <2>1. /\ run.date = today /\ today \in Nat /\ days \in Nat /\ days <= 1
        /\ today' = today + days /\ (held' = held \/ held' = held + days)
        /\ held \in Nat
    BY <1>3, RetentionAssumption DEF Tick, RetentionInv, WorldTypes
  <2>2. Sound(run)'
    BY <1>1, <1>3, SoundPrimed DEF RetentionInv, Searching
  <2>3. Answers
    BY <1>3 DEF RetentionInv, Searching
  <2>4. run.yeses \subseteq Int /\ run.noes \subseteq Int /\ activeFrom \in Nat
    BY DEF RetentionInv, Runs, WorldTypes
  <2>5. Answers'
    BY <1>1, <2>1, <2>3, <2>4 DEF Answers
  <2>6. FirstDate <= run.date /\ FirstDate \in Nat
    BY <1>3, RetentionAssumption DEF RetentionInv, Searching
  <2> QED
    BY <1>1, <1>3, <2>1, <2>2, <2>5, <2>6 DEF RetentionInv, Searching
<1> QED
  BY <1>2, <1>3

LEMMA UnchangedSearching ==
  ASSUME RetentionInv, UNCHANGED <<world, store, run>>
  PROVE  run' \in Runs /\ Searching'
<1>1. run' = run /\ store' = store /\ activeFrom' = activeFrom /\ run \in Runs
      /\ missing' = missing /\ today' = today /\ held' = held
  BY DEF world, RetentionInv
<1>2. run.pc = "probe" => Sound(run)' /\ Answers'
  BY <1>1, SoundPrimed DEF RetentionInv, Searching, Answers
<1> QED
  BY <1>1, <1>2 DEF RetentionInv, Searching

LEMMA NextRetention == RetentionInv /\ [Next]_vars => RetentionInv'
<1> SUFFICES ASSUME RetentionInv, [Next]_vars
             PROVE  RetentionInv'
  OBVIOUS
<1>1. BudgetInv' /\ AccountTypes' /\ WorldTypes' /\ StoreTypes'
  BY NextBudget, AccountKept, WorldKept, StoreKept DEF RetentionInv
<1>2. run' \in Runs /\ Searching'
  <2>1. CASE UNCHANGED vars \/ WindowEnds \/ Reload
    BY <2>1, UnchangedSearching DEF vars, WindowEnds, Reload
  <2>2. CASE StartRun \/ ProbeRetention
    BY <2>2, StartKept
  <2>3. CASE Step \/ WorkRequest
    BY <2>3, RestKept, AnsweredKept DEF Step, Probe
  <2>4. CASE \E days \in Outages : Tick(days)
    BY <2>4, TickSearching
  <2> QED
    BY <2>1, <2>2, <2>3, <2>4 DEF Next
<1> QED
  BY <1>1, <1>2 DEF RetentionInv

-----------------------------------------------------------------------------
(* What the invariant shows *)

LEMMA RetentionAlways == Spec => []RetentionInv
<1>1. Init => RetentionInv
  BY InitRetention
<1>2. RetentionInv /\ [Next]_vars => RetentionInv'
  BY NextRetention
<1> QED
  BY <1>1, <1>2, PTL DEF Spec

\* The record, the budget and the run are always well formed: no date of the record is
\* later than today, and a boundary is stored exactly when it has been verified.
THEOREM RetentionTypeCorrect == Spec => []TypeOK
<1>1. RetentionInv => TypeOK
  <2> SUFFICES ASSUME RetentionInv
               PROVE  TypeOK
    OBVIOUS
  <2>1. /\ store.needs \in BOOLEAN /\ store.provisional \in BOOLEAN
        /\ store.boundary <= today /\ store.verified <= today /\ store.measured <= today
        /\ store.boundary = NoDay <=> store.verified = NoDay
    BY DEF RetentionInv, StoreTypes, Records
  <2>2. client.budget \in Budget /\ client.last \in Seen
    BY DEF RetentionInv, BudgetInv, BudgetTypes
  <2>3. account.remaining \in 0..Limit /\ account.lost \in 0..Requests
    BY DEF RetentionInv, AccountTypes
  <2>4. /\ run.pc \in {"idle", "probe", "conclude", "work"} /\ run.calls \in 0..MaxProbes
        /\ run.search.ask \in Questions \cup {"done"}
    BY DEF RetentionInv, Runs, Searches
  <2> QED
    BY <2>1, <2>2, <2>3, <2>4 DEF TypeOK
<1> QED
  BY <1>1, RetentionAlways, PTL

\* The cap of eight requests never ends a search, whatever Amber answers: discovery
\* brackets 30 days after three requests and the daily check 15 after four, and each
\* request of a bisection halves them (RETENTION_DISCOVERY_MAX_CALLS of const.py).
THEOREM SearchFitsItsCap == Spec => []ProbesFit
<1>1. RetentionInv => ProbesFit
  <2> SUFFICES ASSUME RetentionInv, Probing
               PROVE  run.calls < MaxProbes
    BY DEF ProbesFit
  <2>1. Sound(run) /\ run.search.ask \in Questions /\ run.calls \in Nat
    BY DEF RetentionInv, Searching, Probing, Runs, Searches
  <2>2. CASE run.search.ask \in DiscoveryAsks
    BY <2>1, <2>2 DEF Sound, DiscoverySound, DiscoveryAsks, MaxProbes
  <2>3. CASE run.search.ask \in DailyAsks
    BY <2>1, <2>3 DEF Sound, DailySound, DailyAsks, MaxProbes
  <2>4. CASE run.search.ask = "bisect"
    BY <2>1, <2>4 DEF Sound, BisectSound, Fits, MaxProbes
  <2> QED
    BY <2>1, <2>2, <2>3, <2>4 DEF Questions, DiscoveryAsks, DailyAsks
<1> QED
  BY <1>1, RetentionAlways, PTL

\* A bracketed end of a search is the first day with usage after a day without: when no
\* day is missing, Amber answers for no day before it.
LEMMA ExactIsFirst ==
  ASSUME RetentionInv, Searched, run.search.exact, missing = NoDay
  PROVE  /\ run.search.found # NoDay /\ run.search.found \in Nat
         /\ run.search.found >= activeFrom
         /\ run.date = today => held <= run.search.found
         /\ run.search.found - 1 < held \/ run.search.found - 1 < activeFrom
<1>1. /\ run.search.found \in run.yeses /\ Refused(run.search.found - 1, run.noes)
      /\ Answers /\ today <= run.date + 1 /\ run.date \in Nat /\ today \in Nat
      /\ run.search.found \in Nat
  BY DEF RetentionInv, Searched, Searching, Sound, DoneSound, Runs, Searches, WorldTypes
<1>2. /\ run.search.found > 0 /\ run.search.found < today
      /\ run.search.found >= activeFrom /\ (run.date = today => held <= run.search.found)
  BY <1>1 DEF Answers
<1>3. run.search.found - 1 \in run.noes =>
        run.search.found - 1 < held \/ run.search.found - 1 >= run.date
  BY <1>1 DEF Answers
<1> QED
  BY <1>1, <1>2, <1>3 DEF Refused, NoDay

\* When a search ends bracketed on the day it began and Amber's usage is in one piece, the
\* boundary that is stored is the first day Amber answers for, whatever that day is
\* (_async_bracket_boundary and _async_verify_retention of manager.py).
THEOREM BracketIsExact == Spec => BracketedIsFirst
<1>1. ASSUME RetentionInv, [Next]_vars, Searched, store' # store, run.search.exact,
             run.date = today, missing = NoDay
      PROVE  store'.boundary = FirstUsage
  <2>1. FoundBoundary
    BY <1>1, ExactIsFirst, StoreChanges
       DEF Conclude, NothingBracketed, VerifyNotFound, Searched, Probing
  <2>2. store'.boundary = FromStart(run.search.found)
    BY <2>1 DEF FoundBoundary, StoreRetention
  <2>3. /\ run.search.found \in Nat /\ run.search.found >= activeFrom
        /\ held <= run.search.found /\ held \in Nat /\ activeFrom \in Nat
        /\ run.search.found - 1 < held \/ run.search.found - 1 < activeFrom
    BY <1>1, ExactIsFirst DEF RetentionInv, WorldTypes
  <2> QED
    BY <2>2, <2>3 DEF FromStart, FirstUsage
<1>2. RetentionInv /\ [Next]_vars =>
        [Searched /\ store' # store /\ run.search.exact /\ run.date = today /\ missing = NoDay
           => store'.boundary = FirstUsage]_vars
  BY <1>1
<1> QED
  BY <1>2, RetentionAlways, PTL DEF Spec, BracketedIsFirst

\* A boundary that moves forward moves past no day Amber still answers for: not after an
\* outage, a failed check, a fallback or a midnight during the search (_store_retention,
\* _keep_retention and _async_verify_retention of manager.py).
THEOREM ForwardIsSafe == Spec => ForwardSkipsNoUsage
<1>1. ASSUME RetentionInv, [Next]_vars, missing = NoDay,
             store.boundary # NoDay, store'.boundary > store.boundary,
             ~(run.discovery /\ run.search.found # NoDay /\ ~run.search.exact),
             NEW d \in store.boundary..(store'.boundary - 1)
      PROVE  ~HasUsage(d) \/ d < activeFrom
  <2>0. /\ store.boundary \in Nat /\ store'.boundary \in Nat /\ d \in Int
        /\ store.boundary <= d /\ d < store'.boundary
        /\ held \in Nat /\ activeFrom \in Nat
    <3>1. store.boundary \in Nat /\ store'.boundary \in Nat
      BY <1>1, StoreKept DEF RetentionInv, StoreTypes, Records
    <3> QED
      BY <1>1, <3>1 DEF RetentionInv, WorldTypes
  <2>1. CASE store' = store
    BY <2>0, <2>1
  <2>2. CASE UNCHANGED world /\ Probing /\ (Fails(TRUE) \/ Fails(FALSE))
    <3>1. run.pc = "probe" /\ UNCHANGED world /\ (Fails(TRUE) \/ Fails(FALSE))
      BY <2>2 DEF Probing
    <3>2. store'.boundary = store.boundary
      BY <1>1, <3>1, FailureTypes
    <3> QED
      BY <2>0, <3>2
  <2>3. CASE VerifyNotFound
    <3>1. UNCHANGED world /\ VerifyUnresolved
      BY <2>3 DEF VerifyNotFound
    <3> QED
      BY <1>1, <2>0, <3>1, UnresolvedTypes
  <2>4. CASE FoundBoundary
    <3>1. /\ store'.boundary = FromStart(run.search.found)
          /\ run.search.found \in Nat /\ run.search.found # NoDay /\ Searched
      BY <1>1, <2>4 DEF FoundBoundary, StoreRetention, RetentionInv, Runs, Searches
    <3>2. d < run.search.found \/ d < activeFrom
      BY <2>0, <3>1 DEF FromStart
    <3>3. CASE run.search.exact
      <4>1. run.search.found - 1 < held \/ run.search.found - 1 < activeFrom
        BY <1>1, <3>1, <3>3, ExactIsFirst
      <4> QED
        BY <2>0, <3>1, <3>2, <4>1 DEF HasUsage
    <3>4. CASE ~run.search.exact
      <4>1. run.search.found <= store.boundary
        BY <1>1, <3>1, <3>4 DEF Searched, RetentionInv, Searching, Sound, DoneSound
      <4> QED
        BY <2>0, <3>1, <3>2, <4>1
    <3> QED
      BY <3>3, <3>4
  <2>5. CASE NothingBracketed
    <3> DEFINE g == Guess(run.date)
    <3>1. /\ ~YoungSite(run.date) => Refused(g, run.noes) /\ store'.boundary = FromStart(g)
          /\ YoungSite(run.date) => store'.boundary = FromStart(activeFrom)
      <4>1. run.pc = "probe" /\ run.search.ask = "done" /\ run.discovery
            /\ run.search.found = NoDay
        BY <2>5 DEF NothingBracketed, Searched
      <4>2. ~YoungSite(run.date) => Refused(g, run.noes)
        BY <1>1, <4>1 DEF RetentionInv, Searching, Sound, DoneSound
      <4>3. IF YoungSite(run.date) THEN store'.boundary = FromStart(activeFrom)
                                   ELSE store'.boundary = FromStart(g)
        BY <2>5 DEF NothingBracketed, StoreRetention
      <4> QED
        BY <4>2, <4>3
    <3>2. CASE YoungSite(run.date)
      BY <2>0, <3>1, <3>2 DEF FromStart
    <3>3. CASE ~YoungSite(run.date)
      <4>1. /\ Refused(g, run.noes) /\ store'.boundary = FromStart(g) /\ g \in Int
            /\ g < run.date /\ Answers /\ run.date \in Nat
        BY <1>1, <2>5, <3>1, <3>3 DEF Guess, FallbackDays, RetentionInv, Runs, Searching,
                                      NothingBracketed, Searched
      <4>2. g < held \/ g < activeFrom
        BY <1>1, <2>0, <4>1 DEF Answers, Refused
      <4> QED
        BY <2>0, <4>1, <4>2 DEF FromStart, HasUsage
    <3> QED
      BY <3>2, <3>3
  <2> QED
    BY <1>1, <2>1, <2>2, <2>3, <2>4, <2>5, StoreChanges DEF Conclude
<1>2. RetentionInv /\ [Next]_vars =>
        [(/\ missing = NoDay
          /\ store.boundary # NoDay /\ store'.boundary > store.boundary
          /\ ~(run.discovery /\ run.search.found # NoDay /\ ~run.search.exact))
           => \A d \in store.boundary..(store'.boundary - 1) :
                ~HasUsage(d) \/ d < activeFrom]_vars
  BY <1>1
<1> QED
  BY <1>2, RetentionAlways, PTL DEF Spec, ForwardSkipsNoUsage
=============================================================================

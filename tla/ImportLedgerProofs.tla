------------------------- MODULE ImportLedgerProofs -------------------------
(***************************************************************************)
(* What the ledger promises follows from its steps, for every number of    *)
(* days: the history has no hole, and what it says of a day is final.      *)
(***************************************************************************)
EXTENDS ImportLedger, TLAPS

LedgerInv == TypeOK /\ NoDayLeftBehind

\* The empty history has no hole.
LEMMA LedgerInit ==
  ASSUME MaxDay \in Nat, Init
  PROVE  LedgerInv
BY DEF Init, LedgerInv, TypeOK, NoDayLeftBehind, Resolved, NoDay, Day

\* A range of days that follows the history, or starts it, leaves no hole.
LEMMA ResolveKeepsHistory ==
  ASSUME MaxDay \in Nat, LedgerInv,
         NEW first \in Day, NEW last \in Day, NEW what \in {"imported", "skipped"},
         Resolve(first, last, what)
  PROVE  LedgerInv'
<1>1. TypeOK'
  BY DEF LedgerInv, TypeOK, Resolve, NoDay, Day
<1>2. marker' = last /\ marker' # NoDay /\ first \in 1..marker'
  BY DEF Resolve, NoDay, Day
<1>3. \A d \in Day : Resolved(d)' <=> d \in first..last \/ Resolved(d)
  BY DEF LedgerInv, TypeOK, Resolve, Resolved, Day
<1>4. CASE marker = NoDay
  <2>1. \A d \in Day : Resolved(d)' <=> d \in first..marker'
    BY <1>2, <1>3, <1>4 DEF LedgerInv, NoDayLeftBehind
  <2> QED
    BY <1>1, <1>2, <2>1 DEF LedgerInv, NoDayLeftBehind
<1>5. CASE marker # NoDay
  <2>1. PICK start \in 1..marker : \A d \in Day : Resolved(d) <=> d \in start..marker
    BY <1>5 DEF LedgerInv, NoDayLeftBehind
  <2>2. first = marker + 1 /\ first <= last
    BY <1>5 DEF Resolve
  <2>3. start \in 1..marker'
    BY <1>2, <1>5, <2>2 DEF LedgerInv, TypeOK, Day, NoDay
  <2>4. \A d \in Day : Resolved(d)' <=> d \in start..marker'
    BY <1>2, <1>3, <1>5, <2>1, <2>2 DEF LedgerInv, TypeOK, Day, NoDay
  <2> QED
    BY <1>1, <1>2, <2>3, <2>4 DEF LedgerInv, NoDayLeftBehind
<1> QED
  BY <1>4, <1>5

\* Every step of the ledger resolves such a range, or changes nothing.
LEMMA LedgerStep ==
  ASSUME MaxDay \in Nat, LedgerInv, [Next]_vars
  PROVE  LedgerInv'
<1>1. CASE \E day \in Day : Import(day)
  BY <1>1, ResolveKeepsHistory DEF Import
<1>2. CASE \E first, last \in Day : Skip(first, last)
  BY <1>2, ResolveKeepsHistory DEF Skip
<1>3. CASE UNCHANGED vars
  BY <1>3 DEF vars, LedgerInv, TypeOK, NoDayLeftBehind, Resolved
<1> QED
  BY <1>1, <1>2, <1>3 DEF Next

\* The days the ledger has passed form one range that ends at the marker: no day is
\* left behind (the marker of AmberStore is "the last resolved NEM day").
THEOREM HistoryHasNoHole ==
  ASSUME MaxDay \in Nat
  PROVE  Spec => []NoDayLeftBehind
<1>1. Init => LedgerInv
  BY LedgerInit
<1>2. LedgerInv /\ [Next]_vars => LedgerInv'
  BY LedgerStep
<1>3. LedgerInv => NoDayLeftBehind
  BY DEF LedgerInv
<1> QED
  BY <1>1, <1>2, <1>3, PTL DEF Spec

\* A step that resolves days leaves the resolved ones alone and moves the marker on.
LEMMA ResolveIsFinal ==
  ASSUME MaxDay \in Nat, LedgerInv,
         NEW first \in Day, NEW last \in Day, NEW what \in {"imported", "skipped"},
         Resolve(first, last, what)
  PROVE  /\ marker' >= marker
         /\ \A d \in Day : Resolved(d) => outcome'[d] = outcome[d]
<1>1. marker' >= marker
  BY DEF Resolve, LedgerInv, TypeOK, Day, NoDay
<1>2. ASSUME NEW d \in Day, Resolved(d)
      PROVE  d \notin first..last
  <2>1. marker # NoDay /\ first = marker + 1
    BY <1>2 DEF Resolve, LedgerInv, NoDayLeftBehind
  <2>2. d <= marker
    BY <1>2, <2>1 DEF LedgerInv, NoDayLeftBehind, TypeOK, Day
  <2> QED
    BY <2>1, <2>2 DEF LedgerInv, TypeOK, Day, NoDay
<1>3. \A d \in Day : Resolved(d) => outcome'[d] = outcome[d]
  BY <1>2 DEF Resolve
<1> QED
  BY <1>1, <1>3

\* An imported day stays imported, a skipped one stays skipped, and the marker never
\* moves back (async_mark_imported, async_mark_skipped).
THEOREM OutcomeOfADayIsFinal ==
  ASSUME MaxDay \in Nat
  PROVE  Spec => OutcomesAreFinal
<1> DEFINE Final == /\ marker' >= marker
                    /\ \A d \in Day : Resolved(d) => outcome'[d] = outcome[d]
<1>1. Init => LedgerInv
  BY LedgerInit
<1>2. LedgerInv /\ [Next]_vars => LedgerInv'
  BY LedgerStep
<1>3. ASSUME LedgerInv, Next
      PROVE  Final
  <2>1. CASE \E day \in Day : Import(day)
    BY <1>3, <2>1, ResolveIsFinal DEF Import
  <2>2. CASE \E first, last \in Day : Skip(first, last)
    BY <1>3, <2>2, ResolveIsFinal DEF Skip
  <2> QED
    BY <1>3, <2>1, <2>2 DEF Next
<1>4. LedgerInv /\ [Next]_vars => [Final]_vars
  BY <1>3
<1> QED
  BY <1>1, <1>2, <1>4, PTL DEF Spec, OutcomesAreFinal
=============================================================================

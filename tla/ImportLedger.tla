---------------------------- MODULE ImportLedger ----------------------------
(***************************************************************************)
(* What the import of a site promises about its days, whatever its runs,   *)
(* retries, crashes and recoveries do: the history starts at some day and  *)
(* grows at its end only, day by day; each day it passes is imported or    *)
(* skipped, once, and that outcome is final.                               *)
(***************************************************************************)
EXTENDS Integers

CONSTANT MaxDay     \* the last NEM day of the instance

NoDay == 0
Day == 1..MaxDay

VARIABLES
  marker,    \* the last resolved day
  outcome    \* what became of each day

vars == <<marker, outcome>>

TypeOK ==
  /\ marker \in Day \cup {NoDay}
  /\ outcome \in [Day -> {"open", "imported", "skipped"}]

Init ==
  /\ marker = NoDay
  /\ outcome = [d \in Day |-> "open"]

\* Days first..last follow the history (or start it) and all get one outcome.
Resolve(first, last, what) ==
  /\ first <= last
  /\ marker = NoDay \/ first = marker + 1
  /\ marker' = last
  /\ outcome' = [d \in Day |-> IF d \in first..last THEN what ELSE outcome[d]]

Import(day) == Resolve(day, day, "imported")
Skip(first, last) == Resolve(first, last, "skipped")

Next ==
  \/ \E day \in Day : Import(day)
  \/ \E first, last \in Day : Skip(first, last)

Spec == Init /\ [][Next]_vars

-----------------------------------------------------------------------------
(* What follows from the promise *)

Resolved(d) == outcome[d] # "open"

\* No day is left behind: the resolved days are those from the first one resolved to
\* the marker (AmberStore.marker, "the last resolved NEM day").
NoDayLeftBehind ==
  /\ marker = NoDay => \A d \in Day : ~Resolved(d)
  /\ marker # NoDay => \E first \in 1..marker : \A d \in Day : Resolved(d) <=> d \in first..marker

\* An imported day stays imported, a skipped one skipped, and the marker never moves
\* back (async_mark_imported and async_mark_skipped).
OutcomesAreFinal ==
  [][/\ marker' >= marker
     /\ \A d \in Day : Resolved(d) => outcome'[d] = outcome[d]]_vars
=============================================================================

----------------------------- MODULE CallBudget -----------------------------
(***************************************************************************)
(* RunBudget and the part of AmberClient that applies it (api.py): how     *)
(* many requests a run may still send, and what the next run inherits.     *)
(* One rate-limit counter is modelled (/usage and /sites); /prices has its *)
(* own, handled alike.  Amber's own count of the account is the `account`  *)
(* record: it resets when its window ends.                                 *)
(*                                                                         *)
(* The instants of a window are abstracted to how its end relates to now:  *)
(* not known, still to come ("open"), or passed ("over").                  *)
(***************************************************************************)
EXTENDS Integers

CONSTANTS
  Limit,      \* RateLimit-Limit: requests per window
  Reserve,    \* DEFAULT_RATE_LIMIT_RESERVE
  MaxCalls,   \* DEFAULT_MAX_CALLS_PER_COUNTER
  Requests    \* bound: requests of the instance that no response reports (MaxLost of them)

ASSUME CallBudgetAssumption ==
  /\ Limit \in Nat /\ Reserve \in Nat /\ MaxCalls \in Nat /\ Requests \in Nat
  /\ 0 < Reserve /\ Reserve <= Limit

\* The last RateLimit-Remaining seen: none, below the reserve, or not.
Figure == {"unseen", "low", "fine"}
Window == {"unknown", "open", "over"}

\* What a run knows of the counter, and what is remembered between runs.
Seen == [remaining : Figure, window : Window]
NotSeen == [remaining |-> "unseen", window |-> "unknown"]

Budget == [calls : 0..MaxCalls, seen : Seen]

\* A run starts with a fresh count and the last figures the previous run saw.
StartForgetful(last) == [calls |-> 0, seen |-> NotSeen]   \* mutant: nothing carried over
Start(last) == [calls |-> 0, seen |-> last]

Low(seen) == seen.remaining = "low"

\* RunBudget.check: may another request be sent?
AllowsUncounted(b) == Low(b.seen) => b.seen.window = "over"   \* mutant: calls without end
Allows(b) == b.calls < MaxCalls /\ (Low(b.seen) => b.seen.window = "over")

\* check forgets a figure whose window has ended; record_call counts the request.
Charge(b) ==
  [calls |-> b.calls + 1,
   seen |-> IF Low(b.seen) THEN [b.seen EXCEPT !.remaining = "unseen"] ELSE b.seen]

FigureOf(remaining) == IF remaining < Reserve THEN "low" ELSE "fine"

RecordNoWindow(b, remaining) ==   \* mutant: the end of the window is not kept
  [b EXCEPT !.seen = [remaining |-> FigureOf(remaining), window |-> "unknown"]]

\* record_rate_limit, of a response that carries RateLimit-Remaining and -Reset.
Record(b, remaining) ==
  [b EXCEPT !.seen = [remaining |-> FigureOf(remaining), window |-> "open"]]

\* The window known to a run ends.
WindowOver(seen) ==
  [seen EXCEPT !.window = IF @ = "open" THEN "over" ELSE @]
=============================================================================

------------------------ MODULE RetentionProperties ------------------------
(* What the retention boundary and the call budget promise. *)
EXTENDS Retention

\* The first day Amber answers for, by definition.
FirstUsage == IF activeFrom > held THEN activeFrom ELSE held

\* The cap of 8 requests is never what ends a search: neither discovery (89 days, a
\* bracket of 30) nor the daily check (a bracket of 15) ever needs a ninth.
ProbesFit == Probing /\ ~Known(Day) => run.calls < MaxProbes

\* The account keeps its reserve: runs never use Amber's last requests of a window,
\* although each run counts afresh.  A response that is lost and a client made anew by
\* a reload cost at most one request of the reserve each.
ReserveKept ==
  account.remaining + account.lost + (MaxReload - left.reload) >= Reserve - 1

\* A search that ends bracketed, with Amber's usage in one piece and the date unchanged,
\* stores exactly the first day Amber answers for.
BracketedIsFirst ==
  [][Searched /\ store' # store /\ run.search.exact /\ run.date = today /\ missing = NoDay
       => store'.boundary = FirstUsage]_vars

\* A stored boundary never moves forward past a day Amber still answers for (such days
\* would be skipped without being fetched): not after an outage, not after a failed
\* check, not over midnight.  Left out: a discovery that finds usage even at the far end
\* of its bracket, which stores that end.
ForwardSkipsNoUsage ==
  [][(/\ missing = NoDay
      /\ store.boundary # NoDay /\ store'.boundary > store.boundary
      /\ ~(run.discovery /\ run.search.found # NoDay /\ ~run.search.exact))
       => \A d \in store.boundary..(store'.boundary - 1) :
            ~HasUsage(d) \/ d < activeFrom]_vars

\* A boundary kept after a failed or unresolved check is looked for again, until it is
\* found or nothing in reach has usage (a fallback waits for the next day).  This needs
\* the budget to recover: a reserve that refuses requests lets go when its window ends.
KeptBoundaryIsRechecked ==
  store.needs /\ ~store.provisional ~> ~store.needs \/ store.provisional
=============================================================================

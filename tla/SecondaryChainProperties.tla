---------------------- MODULE SecondaryChainProperties ----------------------
(* What a secondary chain promises. *)
EXTENDS SecondaryChain

\* Through stops, skips, rewrites, retries and removals, a chain's guard stops it only after
\* the recovery of an interrupted append was lost: its day left Amber's retention, or a
\* rewrite came before the guard had read the pending day - a revision found before the
\* next run, or a second stop between a rewrite and the walk (_async_check_revisions runs
\* before _async_chain_guard, and _async_write of storage.py clears the pending day).
ChainNeverLocksOut ==
  "recovery" \notin lapses /\ At("guard") /\ site.mapped => ~ChainGuardStops

RowBefore(d) == MaxOf({e \in Day : e < d /\ HasRow(e)})

ContinuesFrom(d, e) == rows[d].sum - rows[d].state = IF e = NoDay THEN 0 ELSE rows[e].sum

Settled == At("idle") /\ chain.rewrite = NoRewrite

\* With no rewrite left to resume, each day the chain wrote continues the sum of the
\* row before it, through skips, revisions, retries and crashes.
ChainSumsContinuous ==
  Settled => \A d \in Day :
    /\ chain.status[d] = "imported"
    /\ RowBefore(d) = NoDay \/ chain.status[RowBefore(d)] = "imported"
    => HasRow(d) /\ ContinuesFrom(d, RowBefore(d))

\* A day whose chain statistics are no longer what Amber holds will be rewritten: it is
\* in the revision set under its old amount, or a rewrite that is to be resumed covers it.
\* (But for what lapses: a stop before a rewrite's first save, a revision of a day that the
\* usage chain does not have yet, and a chain that its guard stops.)
ChainStaleIsTracked ==
  lapses = {} /\ At("idle") => \A d \in Day :
    chain.status[d] = "imported" /\ rows[d].state # amber[d].amount =>
      \/ store.revisions[d].hash = rows[d].state
      \/ chain.rewrite.next # NoDay /\ d \in chain.rewrite.next..chain.rewrite.to

\* The chain gives up a day as a gap only after Patience dates on which it was empty, the
\* usage chain's and its own counted once: where it is ahead of the usage chain, which then
\* gives the day up as soon as it sees data behind it, the shared count is complete.
GapsAgree ==
  \A d \in Day : chain.status[d] = "gap" =>
    /\ d + Patience <= today
    /\ store.status[d] \in {"none", "empty"} => Cardinality(store.emptySeen[d]) >= Patience

\* A chain's history grows at its end only, and what it resolved stays: a day is passed
\* once, in order; an imported day stays imported; only the one-off retry turns a day
\* skipped for sensor data into an imported one.  (Removing the mapping forgets all.)
ChainKeepsHistory ==
  [][site'.mapped =>
       /\ chain'.marker >= chain.marker
       /\ \A d \in Day :
            /\ d <= chain.marker /\ chain.status[d] = "none" => chain'.status[d] = "none"
            /\ chain.status[d] = "imported" => chain'.status[d] = "imported"
            /\ chain.status[d] # chain'.status[d] /\ chain.status[d] # "none" =>
                 chain.status[d] = "sensor" /\ chain.rewrite.retry]_vars
=============================================================================

----------------------------- MODULE MCAccount -----------------------------
\* The instance for TLC: the events of one behaviour.
EXTENDS AccountProperties

Budget(crash, run_now, fail, reloads, mode, convert, remove) ==
  [crash |-> crash, run_now |-> run_now, fail |-> fail, reload |-> reloads, mode |-> mode,
   convert |-> convert, remove |-> remove]
MCBudgets == {Budget(1, 0, 0, 0, 0, 1, 0), Budget(1, 1, 1, 0, 0, 0, 0),
              Budget(0, 0, 1, 1, 0, 0, 1), Budget(0, 1, 0, 0, 1, 1, 0)}
=============================================================================

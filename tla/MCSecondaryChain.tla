-------------------------- MODULE MCSecondaryChain --------------------------
(* Model checking SecondaryChain. *)
EXTENDS SecondaryChainProperties

Budget(crash, revise, remove, toggle) ==
  [crash |-> crash, revise |-> revise, remove |-> remove, toggle |-> toggle]

MCBudgets == {Budget(2, 1, 0, 0), Budget(0, 0, 1, 1)}
=============================================================================

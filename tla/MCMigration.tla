---------------------------- MODULE MCMigration ----------------------------
\* The instance for TLC: what each day uses, and the events of one behaviour.
EXTENDS MigrationProperties

MCKitSign == -1

MCUse == [d \in Day |-> [import |-> 2 + (d % 2), export |-> d % 2]]

\* The kit has sold no energy on its first day yet.
MCCostFrom == [cost |-> 1, compensation |-> 2]

\* The events of one behaviour: a few of one kind, or two kinds together.
Budget(corrupt, pause, crash, stall, revise, undo, mismatch, charge) ==
  [corrupt |-> corrupt, pause |-> pause, crash |-> crash, stall |-> stall,
   revise |-> revise, undo |-> undo, mismatch |-> mismatch, charge |-> charge]
Budgets == {Budget(1, 0, 0, 0, 0, 1, 0, 0), Budget(1, 0, 0, 1, 0, 0, 0, 0),
            Budget(0, 1, 0, 0, 1, 0, 0, 0),
            Budget(0, 0, 1, 1, 0, 0, 0, 0), Budget(0, 0, 1, 0, 0, 1, 0, 0),
            Budget(0, 0, 0, 0, 0, 2, 1, 0), Budget(0, 0, 0, 0, 1, 0, 0, 1)}

\* The kit is in the Energy dashboard, or (with a stop and an undo) is not.
MCOpenings == [prefs : {"legacy"}, left : Budgets]
              \cup [prefs : {"none"}, left : {Budget(0, 0, 1, 0, 0, 1, 0, 0)}]
=============================================================================

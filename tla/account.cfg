SPECIFICATION FairSpec
CONSTANTS
  Slots = 7
  Daytime = {1, 3}
  Evening = {5}
  Days = 3
  Mappings = {"m1", "m2"}
  Budgets <- MCBudgets
INVARIANTS TypeOK ArmedForNextAttempt BehindIsReported KeptThrough UpgradedWhole
PROPERTIES InterruptedRunsAgain
CHECK_DEADLOCK FALSE

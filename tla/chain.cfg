CONSTANTS
  MaxDay = 4
  Amount = {1, 2}
  Stat = {}
  SolarAware = TRUE
  Modes = {"full", "pricing"}
  Patience = 2
  Retention = 2
  Gaps = {2}
  SensorFrom = {1, 6}
  Missing = {3}
  Nights = {1}
  CrashPoints = {"rows", "mark", "rewrite"}
  Budgets <- MCBudgets
SPECIFICATION Spec
INVARIANTS TypeOK ChainNeverLocksOut ChainSumsContinuous ChainStaleIsTracked GapsAgree
PROPERTIES ChainKeepsHistory

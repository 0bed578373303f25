CONSTANTS
  MaxDay = 3
  Amount = {1}
  e1 = e1
  b1 = b1
  Stat = {e1, b1}
  LateStat = {}
  Window = 2
  Patience = 2
  RevisionDays = 9
  Retention = 2
  Modes = {"full"}
  Quality = {"actual"}
  Gaps = {}
  Services = {"run_now", "backfill"}
  CrashPoints = {}
  Regress = FALSE
  MaxCrash = 0
  MaxFail = 0
  MaxCall = 1
  MaxSlow = 0
SPECIFICATION Spec
INVARIANTS SumsContinuous

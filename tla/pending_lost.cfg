CONSTANTS
  MaxDay = 2
  Amount = {1, 2}
  e1 = e1
  b1 = b1
  Stat = {e1, b1}
  LateStat = {}
  Window = 2
  Patience = 2
  RevisionDays = 9
  Retention = 9
  Modes = {"full"}
  Quality = {"estimated", "actual"}
  Gaps = {}
  Services = {"run_now"}
  CrashPoints = {"verify"}
  Regress = FALSE
  MaxCrash = 1
  MaxFail = 0
  MaxCall = 0
  MaxSlow = 0
SPECIFICATION Spec
SYMMETRY Symmetry
INVARIANTS GuardNeverLocksOut

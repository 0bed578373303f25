CONSTANTS
  MaxDay = 3
  Amount = {1, 2}
  e1 = e1
  b1 = b1
  Stat = {e1, b1}
  LateStat = {}
  Window = 2
  Patience = 2
  RevisionDays = 1
  Retention = 2
  Modes = {"full"}
  Quality = {"estimated", "actual"}
  Gaps = {3}
  Services = {"run_now"}
  CrashPoints = {"verify", "rewrite"}
  Regress = FALSE
  MaxCrash = 1
  MaxFail = 0
  MaxCall = 0
  MaxSlow = 0
SPECIFICATION Spec
SYMMETRY Symmetry
INVARIANTS SumsContinuous StatisticsMatch StaleDayIsTracked
PROPERTIES KeepsLedger

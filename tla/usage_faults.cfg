CONSTANTS
  MaxDay = 3
  Amount = {1}
  e1 = e1
  b1 = b1
  Stat = {e1, b1}
  LateStat = {}
  Window = 2
  Patience = 2
  RevisionDays = 9
  Retention = 9
  Modes = {"full"}
  Quality = {"partial","actual"}
  Gaps = {}
  Services = {"run_now"}
  CrashPoints = {}
  Regress = TRUE
  MaxCrash = 0
  MaxFail = 0
  MaxCall = 0
  MaxSlow = 2
SPECIFICATION Spec
SYMMETRY Symmetry
INVARIANTS SumsContinuous
PROPERTIES KeepsLedger

CONSTANTS
  MaxDay = 4
  Amount = {1}
  e1 = e1
  b1 = b1
  Stat = {e1, b1}
  LateStat = {}
  Window = 2
  Patience = 3
  RevisionDays = 9
  Retention = 9
  Modes = {"full"}
  Quality = {"actual"}
  Gaps = {2}
  Services = {"import_day", "run_now"}
  CrashPoints = {"write", "verify"}
  Regress = FALSE
  MaxCrash = 1
  MaxFail = 1
  MaxCall = 1
  MaxSlow = 0
SPECIFICATION Spec
SYMMETRY Symmetry
INVARIANTS TypeOK GuardNeverLocksOut SumsContinuous
PROPERTIES KeepsLedger GapOnlyAfterPatience

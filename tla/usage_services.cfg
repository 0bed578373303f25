CONSTANTS
  MaxDay = 3
  Amount = {1}
  e1 = e1
  b1 = b1
  Stat = {e1, b1}
  LateStat = {b1}
  Window = 2
  Patience = 2
  RevisionDays = 9
  Retention = 9
  Modes = {"full", "recovery", "pricing"}
  Quality = {"actual"}
  Gaps = {}
  Services = {"backfill", "run_now", "set_mode", "add_channels"}
  CrashPoints = {}
  Regress = FALSE
  MaxCrash = 0
  MaxFail = 0
  MaxCall = 2
  MaxSlow = 0
SPECIFICATION Spec
INVARIANTS SumsContinuous RestsUnlocked NoRowBeforeStart

CONSTANTS
  MaxDay = 4
  Amount = {1, 2}
  e1 = e1
  Stat = {e1}
  LateStat = {}
  Window = 2
  Patience = 2
  RevisionDays = 9
  Retention = 9
  Modes = {"full"}
  Quality = {"estimated", "actual"}
  Gaps = {2}
  Services = {}
  CrashPoints = {"verify"}
  Regress = FALSE
  MaxCrash = 1
  MaxFail = 0
  MaxCall = 0
  MaxSlow = 0
SPECIFICATION FairSpec
PROPERTIES CatchesUp HistoryConverges
CHECK_DEADLOCK FALSE

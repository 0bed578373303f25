SPECIFICATION Spec
CONSTANTS
  MaxDay = 6
  EnergyCap = 5
  CostCap = 10
  MinParityDays = 1
  Rules = "hourly"
  FirstDay = 4
  AmberGaps = {5}
  Use <- MCUse
  CostFrom <- MCCostFrom
  KitSign <- MCKitSign
  Big = 10
  Partial = {0, 3, 5}
  Charges = {1, 3}
  Openings <- MCOpenings
INVARIANTS Joined NetIsDifference CopiedIsPlausible OriginRestored
PROPERTIES FixedFollows MiscountIsRefused
CHECK_DEADLOCK FALSE

CONSTANTS
  Limit = 10
  Reserve = 2
  MaxCalls = 9
  Requests = 1
  FirstDate = 300
  Outages = {1, 20}
  HeldFrom <- MCHeldFrom
  Missing = {0, 214}
  ActiveFrom = {0, 216}
  MaxTick = 1
  MaxFail = 1
  MaxProbe = 1
  MaxReload = 1
SPECIFICATION FairSpec
INVARIANTS TypeOK ProbesFit ReserveKept
PROPERTIES BracketedIsFirst ForwardSkipsNoUsage KeptBoundaryIsRechecked

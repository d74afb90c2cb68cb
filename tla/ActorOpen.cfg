SPECIFICATION FairSpec
CONSTANTS
  c1 = c1
  c2 = c2
  Callers <- TwoCallers
  Ops <- AllOps
  Reactions <- Calm
  ReqCap = 1
  InCap = 1
  OutCap = 1
  WireCap = 1
  MaxCalls = 2
  MaxPeer = 1
INVARIANTS TypeOK
PROPERTIES CallsReturnOrDone
CHECK_DEADLOCK FALSE

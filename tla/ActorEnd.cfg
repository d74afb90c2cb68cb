SPECIFICATION FairSpec
CONSTANTS
  c1 = c1
  c2 = c2
  Callers <- OneCaller
  Ops <- BoundedOps
  Reactions <- Closing
  ReqCap = 3
  InCap = 1
  OutCap = 1
  WireCap = 1
  MaxCalls = 2
  MaxPeer = 1
INVARIANTS TombstoneFinal EndedMeansDone
PROPERTIES CloseShutsDown CallsReturn

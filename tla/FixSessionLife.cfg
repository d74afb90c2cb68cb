SPECIFICATION FairSpec
CONSTANTS
  HbInt = 1
  IdleCap = 6
  Strict = FALSE
  Roles <- Both
  PeerKinds <- LifeKinds
  Offsets <- LifeOffsets
  UserKinds <- None
  RawKinds <- None
  Resets <- None
  MaxReceives = 2
  MaxRequests = 0
  MaxOut = 13
INVARIANTS TypeOK
PROPERTIES EndsWhenPeerFallsSilent

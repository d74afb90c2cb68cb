SPECIFICATION Spec
CONSTANTS
  HbInt = 1
  IdleCap = 4
  Strict = FALSE
  Roles <- ServerOnly
  PeerKinds <- LifeKinds
  Offsets <- Here
  UserKinds <- None
  RawKinds <- None
  Resets <- None
  MaxReceives = 1
  MaxRequests = 0
  MaxOut = 6
INVARIANTS EstablishedMeansLogon

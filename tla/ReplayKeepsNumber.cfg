SPECIFICATION Spec
CONSTANTS
  HbInt = 1
  IdleCap = 4
  Strict = FALSE
  Roles <- ClientOnly
  PeerKinds <- StoreKinds
  Offsets <- Here
  UserKinds <- Order
  RawKinds <- None
  Resets <- None
  MaxReceives = 2
  MaxRequests = 2
  MaxOut = 0
INVARIANTS ReplayKeepsNumber

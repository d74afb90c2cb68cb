SPECIFICATION Spec
CONSTANTS
  HbInt = 1
  IdleCap = 4
  Strict = FALSE
  Roles <- ClientOnly
  PeerKinds <- NumberKinds
  Offsets <- NumberOffsets
  UserKinds <- Order
  RawKinds <- None
  Resets <- SomeResets
  MaxReceives = 4
  MaxRequests = 2
  MaxOut = 0
INVARIANTS NoSkip OutOfSyncWaits
PROPERTIES InSeqForward

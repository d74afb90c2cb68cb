SPECIFICATION Spec
CONSTANTS
  HbInt = 1
  IdleCap = 4
  Strict = TRUE
  Roles <- Both
  PeerKinds <- StoreKinds
  Offsets <- Here
  UserKinds <- Orders
  RawKinds <- AnyRaw
  Resets <- OutResets
  MaxReceives = 3
  MaxRequests = 2
  MaxOut = 0
INVARIANTS Recoverable StoreKeyed ReplayAccounts

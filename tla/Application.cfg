SPECIFICATION ApplicationSpec
CONSTANTS
  r1 = r1
  r2 = r2
  d1 = d1
  w1 = w1
  v1 = v1
  Resetters <- TwoResetters
  Dialers <- OneDialer
  Waiters <- OneWaiter
  Viewers <- OneViewer
  Names <- ThreeNames
  AliasNames <- TwoAliases
  Texts <- SomeTexts
  Params <- SomeParams
  MaxSessions = 3
  ChanCap = 1
INVARIANTS TypeOK ClosedOnce NoneLeftOpen ExpandsOrRefuses SetsOnlyWhatIsNamed
PROPERTIES PumpEndsToo ReplacedEnds

SPECIFICATION DataSpec
CONSTANTS
  h1 = h1
  h2 = h2
  x = x
  y = y
  Bad = Bad
  NoValue = NoValue
  NoKey = NoKey
  Missing = Missing
  Garbage = Garbage
  Handlers <- TwoHandlers
  Form <- TwoFields
  Aliases <- OneAlias
  Values <- SomeValues
  Paths <- SomePaths
  Default <- DefaultConfig
  Disk <- SomeDisks
  Asked <- SomeRequests
  MaxRequests = 4
  RawSpecs <- SomeSpecs
  MaxDepth = 3
  Routing <- OneRouting
  Options <- SomeOptions
  Counts <- SomeCounts
  MaxEdits = 1
  Messages <- FourMessages
  Operands <- TwoOperands
  Having <- SomeHaving
  Malformed <- OneMalformed
  MaxTokens = 6
  a = a
  b = b
  c = c
  Blank = Blank
  Size = 4
  Lines <- SomeLines
INVARIANTS SavedAtRest SamplesAreValid StrictIsTheLanguage SalvageRepairs MatchesGrammar EndsMeet
PROPERTIES AtomicSaves KeepsRecent

SPECIFICATION FairSpec
CONSTANTS
  Kinds <- AnyLine
  MaxLen = 7
INVARIANTS TypeOK EntryFound
PROPERTIES Structured CancelEnds

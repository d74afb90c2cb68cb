SPECIFICATION RunsSpec
CONSTANTS
  s1 = s1
  s2 = s2
  Streams <- TwoStreams
  Verbose <- OneVerbose
  SseCap = 1
  LogCap = 1
  MaxPrints = 1
  MaxLogs = 2
  Scripts <- OneScript
  Commands <- SomeCommands
  Msgs <- SomeMsgs
  Lenient <- Beats
  Outgoing <- OneOrder
  OnStart <- Starts
  OnMessage <- FromPeer
  OnTick <- FromTime
  TapCap = 2
  MaxCommands = 1
  MaxEvents = 2
INVARIANTS WaitTypeOK ClosedWhenQuiet DoneMeansAll
PROPERTIES EndsForBrowser ToldWhatWas GotWhatItWaitedFor CommandEnds

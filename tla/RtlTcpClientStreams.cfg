CONSTANTS
  s1 = s1
  s2 = s2
  Capacity = 2
  Block = FALSE
  MaxReceivers = 1
  MaxFills = 2
  Subscribers <- MCSubscribers
  DirectModes = {"I"}
  QueueSize = 1
  MaxCommands = 2
SPECIFICATION FairClientSpec
PROPERTY StreamsKeepConnection
\* Once every handle is dropped and the connection has ended, nothing is left to do.
CHECK_DEADLOCK FALSE

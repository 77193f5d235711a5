CONSTANTS
  CommandLength = 5
  Capacity = 3
  WriterCapacity = 4
  ChunkSizes = {1, 4}
  MaxInput = 10
  MaxSamples = 6
SPECIFICATION FairServerSpec
INVARIANTS ServerTypeOK CommandsAsSent SamplesAsYielded SampleBufferUsable
PROPERTIES ShutdownEndsAll CommandsAreHandled HangUpIsNoticed
\* Once the connection has ended and serve() has returned, nothing is left to do.
CHECK_DEADLOCK FALSE

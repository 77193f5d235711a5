CONSTANTS
  CommandLength = 3
  Capacity = 3
  WriterCapacity = 4
  ChunkSizes = {2, 5}
  MaxInput = 3
  MaxSamples = 7
  HeaderLength = 4
SPECIFICATION ConnectionSpec
INVARIANT ServerSendsMagic
\* Once the connection has ended and serve() has returned, nothing is left to do.
CHECK_DEADLOCK FALSE

CONSTANTS
  s1 = s1
  s2 = s2
  Capacity = 3
  Block = TRUE
  MaxReceivers = 3
  MaxFills = 5
  Subscribers <- MCSubscribers
SPECIFICATION FairSpec
INVARIANTS TypeOK CountersMatchHandles SlotsAreNewestBuffers NothingSkipped NoLostWakeup SleepingSenderHasNoReceiver
PROPERTIES BroadcastSpec SenderServesReceivers AwakeSenderStopsWhenAbandoned
\* Once every handle is dropped and the producer has stopped, nothing is left to do.
CHECK_DEADLOCK FALSE

CONSTANTS
  s1 = s1
  s2 = s2
  Capacity = 2
  Block = TRUE
  MaxReceivers = 2
  MaxFills = 3
  Subscribers <- MCSubscribers
  DirectModes = {"I"}
  Rates = {1}
SPECIFICATION SamplingSpec
SYMMETRY SubscriberSymmetry
INVARIANTS SamplingTypeOK NoChunkOverwritten SwitchWasSeenOrInFlight
PROPERTY DirectSamplesAreDirect
\* Once every handle is dropped and the producer has stopped, nothing is left to do.
CHECK_DEADLOCK FALSE

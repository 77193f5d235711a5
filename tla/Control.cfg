CONSTANTS
  c1 = c1
  c2 = c2
  d1 = d1
  d2 = d2
  Callers <- MCCallers
  Devices <- MCOneDevice
  QueueSize = 2
  OverflowChecks = TRUE
  MaxCalls = 2
SPECIFICATION FairControlSpec
INVARIANTS ControlTypeOK EffectsInCallOrder ResultBelongsToCall DeadThreadMeansNoEffect CachedGainModeIsReal
PROPERTY EveryCallReturns

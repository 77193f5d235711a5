CONSTANTS
  c1 = c1
  c2 = c2
  Clones <- MCClones
  Half = 4
  TunerGains <- MCTunerGains
  UserCalls <- MCCalls
  MaxCalls = 2
SPECIFICATION CallsSpec
SYMMETRY MCSymmetry
INVARIANTS CallsTypeOK AppliedAsCalled GainIsNearest
\* When all calls are made, nothing is left to do.
CHECK_DEADLOCK FALSE

SPECIFICATION Spec
CONSTANTS
  k1 = k1
  k2 = k2
  Keys = {k1, k2}
  Settled = {k2}
  NoKey = NoKey
  Rpm <- MCRpm
  Second = 2
  Seconds = 3
  Horizon = 5
  Slots = {s1}
INVARIANT RunsWithoutDatabase

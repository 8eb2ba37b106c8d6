SPECIFICATION FairSpec
CONSTANTS
  s1 = s1
  s2 = s2
  o1 = o1
  k1 = k1
  Keys = {k1}
  Streams = {s1}
  Others = {}
  SessionOf <- MCOneSession
  Uncounted = {s1}
  MaxDeltas = 2
  MaxDiffs = 1
  WantsUsage = {s1}
  Fragile = {s1}
  Leaving = {s1}
INVARIANT TouchedIsDone
PROPERTIES ImplementsWire StreamsEnd
CHECK_DEADLOCK FALSE

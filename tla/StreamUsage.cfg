SPECIFICATION Spec
CONSTANTS
  s1 = s1
  s2 = s2
  o1 = o1
  k1 = k1
  Keys = {k1}
  Streams = {s1, s2}
  Others = {}
  SessionOf <- MCOneSession
  Uncounted = {s1}
  MaxDeltas = 1
  MaxDiffs = 0
  WantsUsage = {s1}
  Fragile = {}
  Leaving = {}
INVARIANT UsageIsOwn
CHECK_DEADLOCK FALSE

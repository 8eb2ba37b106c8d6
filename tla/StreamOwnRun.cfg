SPECIFICATION Spec
CONSTANTS
  s1 = s1
  s2 = s2
  o1 = o1
  k1 = k1
  Keys = {k1}
  Streams = {s1}
  Others = {o1}
  SessionOf <- MCOneSession
  Uncounted = {}
  MaxDeltas = 1
  MaxDiffs = 0
  WantsUsage = {}
  Fragile = {}
  Leaving = {}
INVARIANT CompletesOnOwnRun
CHECK_DEADLOCK FALSE

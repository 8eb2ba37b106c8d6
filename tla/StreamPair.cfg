SPECIFICATION Spec
CONSTANTS
  s1 = s1
  s2 = s2
  o1 = o1
  k1 = k1
  Keys = {k1}
  Streams = {s1, s2}
  Others = {}
  SessionOf <- MCOneSession
  Uncounted = {}
  MaxDeltas = 1
  MaxDiffs = 1
  WantsUsage = {}
  Fragile = {s1}
  Leaving = {}
INVARIANTS ChatTypeOK NothingIsMissed CompletedIsAnswered LiveHandlersExclude
PROPERTY StatusTellsPrompt
CHECK_DEADLOCK FALSE

SPECIFICATION FairSpec
CONSTANTS
  Requests = {r1, r2}
  MaxLives = 2
INVARIANT RowTellsUse
PROPERTIES ImplementsOutcome ShutdownEnds RequestsEnd
CHECK_DEADLOCK FALSE

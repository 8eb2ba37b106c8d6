SPECIFICATION FairSpec
CONSTANTS
  MaxFrameBytes = 4
  MaxParts = 2
  DataBytes = {1, 3}
  Types = {"", "own"}
  MaxLines = 6
  MaxWire = 2
INVARIANT LimitIsPerFrame
PROPERTIES ImplementsFeed BrokenFeedFails EventsArrive
CHECK_DEADLOCK FALSE

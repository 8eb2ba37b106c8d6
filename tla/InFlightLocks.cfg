SPECIFICATION FairLockSpec
CONSTANTS
  s1 = s1
  s2 = s2
  s3 = s3
  k1 = k1
  Keys = {k1}
  Streams = {s1, s2, s3}
  KeyOf <- MCKeyOf
INVARIANTS LockTypeOK TableMatchesHolders LiveExclusive
PROPERTIES ImplementsLease LocksAreFreed ReleasesReturn
CHECK_DEADLOCK FALSE

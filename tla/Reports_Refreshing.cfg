SPECIFICATION FairSpec
CONSTANTS
  ann = ann
  bob = bob
  w1 = w1
  w2 = w2
  hand = hand
  Person = {ann}
  Owner = ann
  Workers = {w1, w2}
  Hands = {}
  Interval <- MCInterval
  Kept = 1
  MaxVersion = 3
  MaxNow = 2
  MaxSnapshots = 3
INVARIANTS
  TurnTakenOncePerVersion
  NoCatchingUp
  SnapshotsBounded
  LatestSnapshotKept
PROPERTIES
  DueIsTaken
CHECK_DEADLOCK FALSE

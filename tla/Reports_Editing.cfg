SPECIFICATION Spec
CONSTANTS
  ann = ann
  bob = bob
  w1 = w1
  w2 = w2
  hand = hand
  Person = {ann, bob}
  Owner = ann
  Workers = {w1}
  Hands = {hand}
  Interval <- MCInterval
  Kept = 1
  MaxVersion = 3
  MaxNow = 1
  MaxSnapshots = 2
INVARIANTS
  TypeOK
  ScheduleHasNext
PROPERTIES
  KeepsChanges
CHECK_DEADLOCK FALSE

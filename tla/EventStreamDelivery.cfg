SPECIFICATION FairSpec
CONSTANTS
  Writers = {w1, w2}
  MaxEvents = 3
  MaxBreaks = 2
INVARIANTS
  TypeOK
PROPERTIES
  DeliversLog
  AllDelivered
CHECK_DEADLOCK FALSE

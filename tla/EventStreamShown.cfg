SPECIFICATION Spec
CONSTANTS
  Writers = {w1}
  MaxEvents = 2
  MaxBreaks = 1
INVARIANTS
  ShownSurvives
CHECK_DEADLOCK FALSE

CONSTANTS
  Rooms = {1, 2}
  Old = {1, 2}
  Direct = {2}
  Crowd = {1}
  Batch = 1
  MaxLogins = 2
  MaxStarts = 1
  Faults = {}
SPECIFICATION Spec
INVARIANT SweepCovers
CHECK_DEADLOCK FALSE

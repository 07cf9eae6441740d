CONSTANTS
  Rooms = {1, 2}
  Old = {1, 2}
  Direct = {2}
  Crowd = {1}
  Batch = 1
  MaxLogins = 2
  MaxStarts = 2
  Faults = {"request", "store"}
SPECIFICATION FairSpec
INVARIANTS TypeOK NoSleepThroughLogin SweepSkipsNothing
PROPERTIES SweepEnds

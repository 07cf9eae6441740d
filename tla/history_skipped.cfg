CONSTANTS
  Clients = {c1}
  MaxHead = 6
  Quiet = {}
  Hidden = {}
  Window = 2
  Page = 2
  None = none
  Legacy = FALSE
  Faults = {}
SPECIFICATION SeededSpec
INVARIANT HistoryWhole
CHECK_DEADLOCK FALSE

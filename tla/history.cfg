CONSTANTS
  Clients = {c1, c2}
  MaxHead = 6
  Quiet = {2, 3, 5}
  Hidden = {2, 3}
  Window = 2
  Page = 2
  None = none
  Legacy = TRUE
  Faults = {"sync", "page"}
SPECIFICATION FairSpec
INVARIANTS TypeOK Unbroken
PROPERTIES StartIsReached
CHECK_DEADLOCK FALSE

CONSTANTS
  Daemons = {d1, d2}
  Conns = {c1, c2, p}
  Probes = {p}
  None = none
  Tries = 2
  Faults = {"open", "crash", "slow"}
SPECIFICATION FairSpec
INVARIANTS TypeOK ServingIsFindable ProbesStopNothing
PROPERTIES LastReaderStopsIt StoppedDaemonsExit

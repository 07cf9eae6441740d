CONSTANTS
  Clients = {c1, c2}
  Devices = {d1, d2}
  Late = {d2}
  Reachable = {d1, d2}
  MaxSessions = 2
  MaxIndex = 2
  Faults = {"request", "write", "crash"}
SPECIFICATION Spec
SYMMETRY Symmetry
INVARIANTS TypeOK IndexNeverReused KeyBeforeMessage NoSecondOlm

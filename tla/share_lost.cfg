CONSTANTS
  Clients = {c1}
  Devices = {d1}
  Late = {}
  Reachable = {d1}
  MaxSessions = 1
  MaxIndex = 2
  Faults = {"request"}
SPECIFICATION Spec
INVARIANT EveryDeviceHasTheKey

CONSTANTS
  Clients = {c1}
  Devices = {d1, d2}
  None = none
  Target = 1
  MaxAccounts = 2
  MaxKeys = 2
  Faults = {"request", "crash"}
SPECIFICATION Spec
INVARIANTS TypeOK IdentityKept MarkedWereUploaded

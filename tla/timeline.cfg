CONSTANTS
  Events = {msg, edit1, edit2}
  Sessions = {s1}
  Clients = {c1}
  Sync = sync
  Clear = clear
  None = none
  msg = msg
  edit1 = edit1
  edit2 = edit2
  s1 = s1
  Kind <- MCKind
  Session <- MCSession
  Index <- MCIndex
  Target <- MCTarget
  Ts <- MCTs
  Unknown = 2
  Backup <- BackedUp
  Shares <- SharedLate
  PageLimit = 2
  SyncLimit = 2
  Legacy = {msg, edit1}
  Faults = TRUE
SPECIFICATION Spec
INVARIANTS TypeOK EditOutranks ReadableRowIsCurrent NothingSkipped
PROPERTIES CiphertextOutlivesLock EditsAreRegister

CONSTANTS
  MaxKeys = 2
  MaxMail = 2
  Mishaps = {"send", "sync", "crash", "timeout"}
SPECIFICATION FairSpec
INVARIANTS TypeOK NobodyVerifiesAlone TrustedOnlyWhenApproved BackupOnlyAfterVerification
PROPERTIES CalmCompletes
CHECK_DEADLOCK FALSE

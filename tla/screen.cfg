CONSTANTS
  Conns = {1, 2}
  Rows = {1, 2, 3, 4}
  First = 3
  Limit = 2
  Recent = 1
  Page = 2
  WindowMax = 3
  Cap = 2
  MaxVersion = 2
  MaxStores = 2
  MaxIds = 4
  MaxOpens = 1
  ScreenFaults = {"slow", "suspend", "request", "store"}
SPECIFICATION ScreenSpec
INVARIANTS ScreenTypeOK ScreenIsCurrent OwnAnswers NoRequestForgotten
CHECK_DEADLOCK FALSE

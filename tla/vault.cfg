CONSTANTS
  Keys = {k1, k2}
  Cells = {session, body}
  Session = session
  Texts = {hi, odd}
  Prefixed = {odd}
  None = none
  Torn = torn
  MaxLog = 5
  Faults = {"crash", "power", "disk", "wipe"}
SYMMETRY Swaps
SPECIFICATION Spec
INVARIANTS TypeOK AtRest OneKey ReadBack LogoutSticks
PROPERTIES Invisible

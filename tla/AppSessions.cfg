\* One device of each kind, two requests at a time, three pairs of tokens.
SPECIFICATION ClientSpec
CONSTANTS
  Calls = {c1, c2}
  Families = {f1, f2, f3}
  Passwords = {p1}
  MaxSessions = 2
VIEW View
SYMMETRY Symmetry
INVARIANTS SignedOutStaysOut LoneClientKeepsSession
CHECK_DEADLOCK FALSE

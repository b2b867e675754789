SPECIFICATION MCSpec
CONSTANTS
  Calls = {c1, c2}
  Families = {f1, f2, f3}
  Passwords = {p1, p2}
  MaxSessions = 2
VIEW SessionsView
SYMMETRY SessionsSymmetry
INVARIANTS TypeOK SpentIsDead InvalidationHolds SessionsCappedAlone SessionsFollowPasswordAlone RefreshKeepsOthersAlone
PROPERTIES NoResurrection
CHECK_DEADLOCK FALSE

\* Two overlapping calls, a password change among them; none is lost.
SPECIFICATION ReliableSpec
CONSTANTS
  Calls = {c1, c2}
  Families = {f1, f2, f3}
  Passwords = {p1, p2}
  MaxSessions = 2
INVARIANT SessionsFollowPassword
CHECK_DEADLOCK FALSE

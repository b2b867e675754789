\* A limit of three; two overlapping logins, two overlapping writes of three.
SPECIFICATION Spec
CONSTANTS
  Calls = {c1, c2}
  Limit = 3
  MaxFails = 4
  Writers = {w1, w2}
  MaxEntries = 3
INVARIANTS GuessesBounded LinksSaved ForksOverlap
PROPERTY LockEnds

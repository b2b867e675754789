\* Three transactions and two loads at once; two administrators and two steps of the
\* wizard; two custom services and two requests out; two calls about one employee.
SPECIFICATION Spec
CONSTANTS
  NTransactions = 3
  PageSize = 2
  Managers = {m1, m2, m3}
  Slots = {s1, s2}
  Admins = {a1, a2}
  NCategories = 2
  Endpoints = {e1, e2}
  Askers = {k1, k2}
  Callers = {b1, b2}
  MaxPasswords = 2
INVARIANTS TypeOK ListShowsSelection CompletedIsSetUp AnsweredIsStored KeyGoesToItsService OldPasswordStaysDead
PROPERTIES DecisionFinalAlone UnnamedKeptAlone
CHECK_DEADLOCK FALSE

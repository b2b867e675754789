\* Two overlapping calls at any time, any number of calls in all; a chain of
\* two steps; the manager or the finance employee is the requester.
SPECIFICATION Spec
CONSTANTS
  Requests = {r1}
  Calls = {c1, c2}
  emp = emp
  mgr = mgr
  fin = fin
  adm = adm
  Employees = {mgr, fin}
  RoleOf <- MCRoleOf
  Triggers = {"limit_exceeded"}
  Amounts = {100001}
SYMMETRY CallSymmetry
INVARIANTS TypeOK ChainRespected DecisionsEarned OrphanUndecided

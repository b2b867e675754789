\* One call at a time, one step.
SPECIFICATION Spec
CONSTANTS
  Requests = {r1}
  Calls = {c1}
  emp = emp
  mgr = mgr
  fin = fin
  adm = adm
  Employees = {emp, mgr, fin, adm}
  RoleOf <- MCRoleOf
  Triggers = {"limit_exceeded"}
  Amounts = {100000}

PROPERTY DecidedIsFinal

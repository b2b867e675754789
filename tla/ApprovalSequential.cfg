\* One call at a time, every trigger, the amounts on both sides of each
\* boundary of the chain, an approver for each role of the longest chain.
SPECIFICATION FairSpec
CONSTANTS
  Requests = {r1}
  Calls = {c1}
  emp = emp
  mgr = mgr
  fin = fin
  adm = adm
  Employees = {emp, mgr, fin, adm}
  RoleOf <- MCRoleOf
  Triggers = {"limit_exceeded", "restricted_category", "location_mismatch",
              "high_amount", "after_hours", "manual_flag"}
  Amounts = {100000, 100001, 500000, 500001}
INVARIANTS StepsTellProgress
PROPERTIES ImplementsWorkflow CallsAnswered

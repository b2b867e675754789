------------------------------ MODULE Employees ------------------------------
(***************************************************************************)
(* The row of an employee and the row of his card's policy, which           *)
(* administrators change by overlapping calls (modules/employees,           *)
(* modules/policies), and the password he changes himself (modules/auth).   *)
(*                                                                          *)
(* An update loads a copy of the row, assigns to it what the request names, *)
(* and saves it: the row is selected once more, and the columns in which    *)
(* the copy differs are updated, or the copy is inserted if the row is gone. *)
(* No transaction goes round these steps.                                   *)
(***************************************************************************)
EXTENDS Naturals

CONSTANTS
  Callers,       \* administrators, and the employee; one call each at a time
  MaxPasswords   \* a bound: the passwords ever set

ASSUME MaxPasswordsAssumption == MaxPasswords \in Nat

VARIABLES
  employee,      \* the row of the employee
  policy,        \* the row of his policy
  call,          \* the call in progress of each caller
  issued,        \* the passwords set so far
  retired,       \* history: passwords that were replaced
  registered     \* a bound: the employee is registered once

employeeVars == <<employee, policy, call, issued, retired, registered>>

EmployeeColumns == {"role", "profile", "password"}   \* profile: name, email, phone ...
PolicyColumns == {"monthlyLimit", "otherLimits"}

\* Values are named by the caller who wrote them.
NoEmployee == [role |-> "none", profile |-> "none", password |-> 0]
NoPolicy == [monthlyLimit |-> "none", otherLimits |-> "none"]
NotSelected == 0
NoCall == [pc |-> "idle", of |-> "employee", named |-> {}, copy |-> NoEmployee,
           changed |-> {}, alone |-> TRUE]

EmployeesInit ==
  /\ employee = NoEmployee /\ policy = NoPolicy
  /\ call = [a \in Callers |-> NoCall]
  /\ issued = 0 /\ retired = {} /\ registered = FALSE

\* alone: no other call overlaps this one (history).
Begin(a, new) ==
  /\ call[a] = NoCall
  /\ call' = [b \in Callers |->
       IF b = a THEN [new EXCEPT !.alone = \A other \in Callers : call[other] = NoCall]
       ELSE IF call[b] = NoCall THEN NoCall
       ELSE [call[b] EXCEPT !.alone = FALSE]]

Step(a, pc, changed) ==
  call' = [call EXCEPT ![a].pc = pc, ![a].changed = changed]
End(a) == call' = [call EXCEPT ![a] = NoCall]

NewPassword(named) ==
  IF "password" \in named THEN issued < MaxPasswords /\ issued' = issued + 1
                          ELSE UNCHANGED issued

-----------------------------------------------------------------------------
(***************************************************************************)
(* The employee.                                                            *)
(***************************************************************************)
\* create: the role is "employee" unless it is named.
Create(a, role) ==
  /\ ~registered /\ registered' = TRUE
  /\ NewPassword({"password"})
  /\ employee' = [role |-> role, profile |-> a, password |-> issued']
  /\ UNCHANGED <<policy, call, retired>>

\* Mutant of FindOne: the password is not left out of the selection.
FindOneWithPassword(row) == row

\* The column password is not selected.
FindOne(row) == [row EXCEPT !.password = NotSelected]

\* Mutant of Assign: a role that is not named gets the default of a new employee.
AssignDefault(copy, a, named, password) ==
  [k \in EmployeeColumns |->
     IF k \notin named THEN IF k = "role" THEN "employee" ELSE copy[k]
     ELSE IF k = "password" THEN password ELSE a]

\* Object.assign: the DTO has the fields that the request names.
Assign(copy, a, named, password) ==
  [k \in EmployeeColumns |->
     IF k \notin named THEN copy[k] ELSE IF k = "password" THEN password ELSE a]

\* update, to the call of save; a missing row is a 404.
Update(a, named) ==
  /\ employee # NoEmployee
  /\ NewPassword(named)
  /\ Begin(a, [NoCall EXCEPT !.pc = "assigned", !.named = named,
                 !.copy = Assign(FindOne(employee), a, named, issued')])
  /\ UNCHANGED <<employee, policy, retired, registered>>

Changed(copy, row) ==
  {k \in EmployeeColumns : copy[k] # row[k]}
    \ (IF copy.password = NotSelected THEN {"password"} ELSE {})

\* save selects the row: what differs will be updated.
SaveSelect(a) ==
  LET copy == call[a].copy IN
  /\ call[a].pc = "assigned" /\ call[a].of = "employee"
  /\ IF employee = NoEmployee THEN Step(a, "insert", {})
     ELSE Step(a, "update", Changed(copy, employee))
  /\ UNCHANGED <<employee, policy, issued, retired, registered>>

\* UPDATE ... WHERE id: nothing, if the row has gone since.
UpdateRow(a) ==
  /\ call[a].pc = "update" /\ call[a].of = "employee"
  /\ employee' = IF employee = NoEmployee THEN NoEmployee
       ELSE [k \in EmployeeColumns |->
               IF k \in call[a].changed THEN call[a].copy[k] ELSE employee[k]]
  /\ retired' = IF employee'.password # employee.password
                  THEN retired \cup {employee.password} ELSE retired
  /\ End(a)
  /\ UNCHANGED <<policy, issued, registered>>

\* INSERT: the employee who was removed is back, if the request named a password;
\* otherwise that column is null, and the insert refused.
Reinsert(a) ==
  /\ call[a].pc = "insert" /\ call[a].of = "employee"
  /\ employee' = IF employee = NoEmployee /\ "password" \in call[a].named
                   THEN call[a].copy ELSE employee
  /\ End(a)
  /\ UNCHANGED <<policy, issued, retired, registered>>

\* remove
Remove(a) ==
  /\ employee # NoEmployee
  /\ Begin(a, [NoCall EXCEPT !.pc = "delete"])
  /\ UNCHANGED <<employee, policy, issued, retired, registered>>

\* DELETE: the policy goes with the employee; or it is refused, for his transactions
\* (and, in a schema that was synchronised, for his policy).
Delete(a) ==
  /\ call[a].pc = "delete"
  /\ \/ employee' = NoEmployee /\ policy' = NoPolicy
     \/ UNCHANGED <<employee, policy>>
  /\ End(a)
  /\ UNCHANGED <<issued, retired, registered>>

\* changePassword, to the call of updatePassword, which is an UPDATE of the column.
ChangePassword(a) ==
  /\ employee # NoEmployee
  /\ NewPassword({"password"})
  /\ Begin(a, [NoCall EXCEPT !.pc = "update", !.named = {"password"},
                 !.changed = {"password"}, !.copy.password = issued'])
  /\ UNCHANGED <<employee, policy, retired, registered>>

-----------------------------------------------------------------------------
(***************************************************************************)
(* The policy.                                                              *)
(***************************************************************************)
\* create: the employee must be there.  A bound: one policy (the synchronised schema
\* has it unique, the migrated one does not).
CreatePolicy(a) ==
  /\ employee # NoEmployee /\ policy = NoPolicy
  /\ policy' = [monthlyLimit |-> a, otherLimits |-> a]
  /\ UNCHANGED <<employee, call, issued, retired, registered>>

\* update: here the DTO has every field, undefined if the request does not name it,
\* and save passes over what is undefined; so the copy is what is named.
UpdatePolicy(a, named) ==
  /\ policy # NoPolicy
  /\ Begin(a, [NoCall EXCEPT !.pc = "assigned", !.of = "policy", !.named = named])
  /\ UNCHANGED <<employee, policy, issued, retired, registered>>

\* The policy is gone only with the employee: the insert is refused then, unless he
\* is back (a third call, which the instance does not have).
SelectPolicy(a) ==
  /\ call[a].pc = "assigned" /\ call[a].of = "policy"
  /\ IF policy = NoPolicy THEN End(a)
     ELSE Step(a, "update", {k \in call[a].named : policy[k] # a})
  /\ UNCHANGED <<employee, policy, issued, retired, registered>>

UpdatePolicyRow(a) ==
  /\ call[a].pc = "update" /\ call[a].of = "policy"
  /\ policy' = IF policy = NoPolicy THEN NoPolicy
       ELSE [k \in PolicyColumns |-> IF k \in call[a].changed THEN a ELSE policy[k]]
  /\ End(a)
  /\ UNCHANGED <<employee, issued, retired, registered>>

EmployeesNext ==
  \E a \in Callers :
    \/ \E role \in {"employee", a} : Create(a, role)
    \/ \E named \in SUBSET EmployeeColumns : Update(a, named)
    \/ SaveSelect(a) \/ UpdateRow(a) \/ Reinsert(a)
    \/ Remove(a) \/ Delete(a) \/ ChangePassword(a)
    \/ CreatePolicy(a)
    \/ \E named \in SUBSET PolicyColumns : UpdatePolicy(a, named)
    \/ SelectPolicy(a) \/ UpdatePolicyRow(a)

EmployeesSpec == EmployeesInit /\ [][EmployeesNext]_employeeVars

-----------------------------------------------------------------------------
Names == Callers \cup {"employee", "none"}
Row == [role : Names, profile : Names, password : 0..MaxPasswords]

EmployeesTypeOK ==
  /\ employee \in Row
  /\ policy \in [PolicyColumns -> Names]
  /\ call \in [Callers ->
       [pc : {"idle", "assigned", "update", "insert", "delete"},
        of : {"employee", "policy"},
        named : SUBSET (EmployeeColumns \cup PolicyColumns), copy : Row,
        changed : SUBSET (EmployeeColumns \cup PolicyColumns), alone : BOOLEAN]]
  /\ issued \in 0..MaxPasswords /\ retired \subseteq 1..MaxPasswords
  /\ registered \in BOOLEAN

\* A password that was replaced is never in force again, also when an update that
\* loaded its copy of the row before the change is saved after it.
OldPasswordStaysDead == employee.password \notin retired

Writes(a, of) == call[a].pc = "update" /\ call[a].of = of /\ call'[a].pc = "idle"
NamedOrStale(a, k) == k \in call[a].named \/ (k # "password" /\ ~call[a].alone)

\* A save writes the columns that its request names: the password and the limits in
\* any interleaving, the other columns of an employee unless calls overlapped, when
\* a stale copy may be written back.
UnnamedKeptAlone ==
  [][/\ employee # NoEmployee /\ employee' # NoEmployee =>
          \A k \in EmployeeColumns : employee'[k] # employee[k] =>
            \E a \in Callers : Writes(a, "employee") /\ NamedOrStale(a, k)
     /\ policy # NoPolicy /\ policy' # NoPolicy =>
          \A k \in PolicyColumns : policy'[k] # policy[k] =>
            \E a \in Callers : Writes(a, "policy") /\ k \in call[a].named]_employeeVars
=============================================================================

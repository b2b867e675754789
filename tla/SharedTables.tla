---------------------------- MODULE SharedTables ----------------------------
(***************************************************************************)
(* What several clients read and write without a lock or a transaction: the *)
(* transactions, with the lists of the three apps; the settings, with the   *)
(* wizard and the page of the dashboard; the choice of the language model;  *)
(* and the rows of an employee.                                             *)
(*                                                                          *)
(* They share no state: no step of one reads or writes what another is      *)
(* made of.  A behaviour is about one of them (a bound), the others stay as *)
(* they were, so that their product is not explored.                        *)
(***************************************************************************)
EXTENDS TransactionListsProps, SettingsProps, LanguageModel, Employees

VARIABLE about   \* what this behaviour is about

vars == <<about, tableVars, listVars, settingsVars, modelVars, employeeVars>>

Init ==
  /\ ListInit
  /\ SettingsInit
  /\ ModelInit
  /\ EmployeesInit
  /\ about \in {"transactions", "settings", "model", "employees"}
  /\ about # "settings" => ~SetupRequired
  /\ about # "transactions" => app = "none" /\ \A t \in Ids : table[t].status = "approved"

Next ==
  /\ UNCHANGED about
  /\ \/ /\ about = "transactions" /\ ListNext
        /\ UNCHANGED <<settingsVars, modelVars, employeeVars>>
     \/ /\ about = "settings" /\ SettingsNext
        /\ UNCHANGED <<tableVars, listVars, modelVars, employeeVars>>
     \/ /\ about = "model" /\ ModelNext
        /\ UNCHANGED <<tableVars, listVars, settingsVars, employeeVars>>
     \/ /\ about = "employees" /\ EmployeesNext
        /\ UNCHANGED <<tableVars, listVars, settingsVars, modelVars>>

Spec == Init /\ [][Next]_vars

\* Types of all.
TypeOK == ListsTypeOK /\ SettingsTypeOK /\ ModelTypeOK /\ EmployeesTypeOK
=============================================================================

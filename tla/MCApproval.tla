----------------------------- MODULE MCApproval -----------------------------
(***************************************************************************)
(* Instances of the approval modules for TLC.  The employees and their      *)
(* roles are the ones of the e2e tests; the requester is one of them.       *)
(***************************************************************************)
EXTENDS ApprovalSequential, TLC

CONSTANTS emp, mgr, fin, adm

MCRoleOf ==
  [e \in Employees |-> CASE e = emp -> "employee" [] e = mgr -> "manager"
                         [] e = fin -> "finance" [] e = adm -> "admin"]

CallSymmetry == Permutations(Calls)
=============================================================================

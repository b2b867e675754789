-------------------------- MODULE ApprovalWorkflow --------------------------
(***************************************************************************)
(* What the approval workflow promises (test/e2e/approval-workflow.e2e-spec *)
(* and the descriptions in approval.controller.ts), with each decision as   *)
(* one atomic step: a request goes through its chain of roles in order; the *)
(* last approval approves it, a rejection at any step rejects it, and its   *)
(* requester may cancel it while it is open.                                *)
(*                                                                          *)
(* Lapse is the one departure from that text: the code lets a request that  *)
(* has outlived its expiry become `expired' from every status, decided ones *)
(* included.                                                                *)
(***************************************************************************)
EXTENDS Naturals, Sequences

CONSTANTS
  Requests,
  Roles,
  Chains    \* the chains of roles a request may be given, none of them empty

VARIABLE ticket   \* [status, passed, length, chain] for each request

Absent == [status |-> "none", passed |-> 0, length |-> 0, chain |-> << >>]
StillOpen == {"pending", "escalated"}

Init == ticket = [r \in Requests |-> Absent]

\* The request is known, and counts as pending, before its chain is.
Submit(r) ==
  /\ ticket[r] = Absent
  /\ \E chain \in Chains :
       ticket' = [ticket EXCEPT ![r] =
         [status |-> "pending", passed |-> 0, length |-> Len(chain), chain |-> << >>]]

Route(r) ==
  /\ ticket[r] # Absent
  /\ ticket[r].chain = << >>
  /\ \E chain \in Chains :
       /\ Len(chain) = ticket[r].length
       /\ ticket' = [ticket EXCEPT ![r].chain = chain]

\* The step the request waits at belongs to this role.
Awaits(r, role) ==
  /\ ticket[r].status \in StillOpen
  /\ ticket[r].passed + 1 \in DOMAIN ticket[r].chain
  /\ ticket[r].chain[ticket[r].passed + 1] = role

Approve(r, role) ==
  /\ Awaits(r, role)
  /\ ticket' = [ticket EXCEPT ![r] =
       IF ticket[r].passed + 1 = ticket[r].length
         THEN [ticket[r] EXCEPT !.status = "approved"]
         ELSE [ticket[r] EXCEPT !.status = "escalated", !.passed = ticket[r].passed + 1]]

Reject(r, role) ==
  /\ Awaits(r, role)
  /\ ticket' = [ticket EXCEPT ![r].status = "rejected"]

Cancel(r) ==
  /\ ticket[r].status \in StillOpen
  /\ ticket' = [ticket EXCEPT ![r].status = "cancelled"]

Lapse(r) ==
  /\ ticket[r] # Absent
  /\ ticket' = [ticket EXCEPT ![r].status = "expired"]

Next ==
  \E r \in Requests :
    \/ Submit(r) \/ Route(r) \/ Cancel(r) \/ Lapse(r)
    \/ \E role \in Roles : Approve(r, role) \/ Reject(r, role)

Spec == Init /\ [][Next]_ticket
=============================================================================

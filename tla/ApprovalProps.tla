---------------------------- MODULE ApprovalProps ----------------------------
(***************************************************************************)
(* What the approval workflow guarantees, whatever the interleaving of its  *)
(* calls.                                                                   *)
(***************************************************************************)
EXTENDS Approval

StepStatus == {"pending", "approved", "rejected"}
StepRow == [role : Roles, status : StepStatus]
RequestRow ==
  [status : Open \cup Decided, currentStep : Nat, totalSteps : Nat \ {0},
   requester : Employees]

\* A call that is creating a request, and one that processes or cancels it.
Creation ==
  [pc : {"insertSteps"}, op : {"create"}, user : Employees, req : Requests,
   row : {NoRequest}, steps : Seq(StepRow), dirty : {{}}, dirtySteps : {{}}]
Handling ==
  [pc : {"decide", "saveStep", "updateStep", "saveRequest", "updateRequest"},
   op : {"approve", "reject", "cancel"}, user : Employees, req : Requests,
   row : RequestRow, steps : Seq(StepRow),
   dirty : SUBSET {"status", "currentStep"}, dirtySteps : SUBSET Nat]

Act == [op : {"approve", "reject", "cancel"}, user : Employees, req : Requests, step : Nat]

TypeOK ==
  /\ request \in [Requests -> RequestRow \cup {NoRequest}]
  /\ steps \in [Requests -> Seq(StepRow)]
  /\ past \subseteq Requests
  /\ call \in [Calls -> {Idle} \cup Creation \cup Handling]
  /\ acts \subseteq Act

\* An employee who holds the role that step k of request r asks for took the
\* decision op on that step.
Took(op, r, k) ==
  \E a \in acts :
    /\ a.op = op /\ a.req = r /\ a.step = k
    /\ k \in DOMAIN steps[r] /\ steps[r][k].role = RoleOf[a.user]

\* No interleaving of stale saves, and no failed call, lets a request past a
\* step that no employee of the step's role approved (processStep).
ChainRespected ==
  \A r \in Requests :
    /\ \A k \in 1..request[r].currentStep : Took("approve", r, k)
    /\ request[r].status = "escalated" => Took("approve", r, 1)
    /\ request[r].status = "approved" =>
         \A k \in 1..request[r].totalSteps : Took("approve", r, k)

\* A request is rejected, cancelled or expired, and a step approved or
\* rejected, only through someone entitled to it: stale copies written back by
\* the cascade never invent a decision (processStep, cancelRequest).
DecisionsEarned ==
  \A r \in Requests :
    /\ request[r].status = "rejected" =>
         \E k \in 1..request[r].totalSteps : Took("reject", r, k)
    /\ request[r].status = "cancelled" =>
         [op |-> "cancel", user |-> request[r].requester, req |-> r, step |-> 0] \in acts
    /\ request[r].status = "expired" => r \in past
    /\ \A k \in DOMAIN steps[r] :
         /\ steps[r][k].status = "approved" => Took("approve", r, k)
         /\ steps[r][k].status = "rejected" => Took("reject", r, k)

\* A request whose steps are not (or, after a failure, never) inserted can be
\* cancelled or expire, but nobody can advance or decide it.
OrphanUndecided ==
  \A r \in Requests : Exists(r) /\ steps[r] = << >> =>
    /\ request[r].status \in {"pending", "cancelled", "expired"}
    /\ request[r].currentStep = 0
=============================================================================

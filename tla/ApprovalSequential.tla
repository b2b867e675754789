------------------------- MODULE ApprovalSequential -------------------------
(***************************************************************************)
(* The approval workflow when its calls do not overlap (one call in         *)
(* progress at a time), but may still die half way.                         *)
(***************************************************************************)
EXTENDS ApprovalProps

\* Each handler, once its request has arrived, runs to its answer: node
\* resumes a call when the query it awaits completes.
FairSpec == Spec /\ \A c \in Calls : WF_vars(Continue(c))

AllChains == {ApprovalChain(trigger, amount) : trigger \in Triggers, amount \in Amounts}

Workflow == INSTANCE ApprovalWorkflow WITH
  Chains <- AllChains,
  ticket <- [r \in Requests |->
    [status |-> request[r].status,
     passed |-> request[r].currentStep,
     length |-> request[r].totalSteps,
     chain |-> [k \in 1..Len(steps[r]) |-> steps[r][k].role]]]

\* Without overlap the two tables behave as the abstract workflow, failures
\* included: what a dying call leaves behind is a state the workflow could be in.
ImplementsWorkflow == Workflow!Spec

\* The step rows tell the same story as the request, up to the one step a
\* failed call may have decided without moving the request: all steps before
\* the current one are approved, all after it untouched, and a final status
\* agrees with its step (processStep saves the step, then the request).
StepsTellProgress ==
  \A r \in Requests : steps[r] # << >> =>
    LET here == request[r].currentStep + 1 IN
    /\ here \in DOMAIN steps[r]
    /\ \A k \in DOMAIN steps[r] :
         /\ k < here => steps[r][k].status = "approved"
         /\ k > here => steps[r][k].status = "pending"
    /\ request[r].status = "approved" =>
         here = Len(steps[r]) /\ steps[r][here].status = "approved"
    /\ request[r].status = "rejected" => steps[r][here].status = "rejected"

\* Every call is answered: no branch of a handler is left without an outcome.
CallsAnswered == \A c \in Calls : call[c].pc # "idle" ~> call[c].pc = "idle"

-----------------------------------------------------------------------------
(***************************************************************************)
(* Statements of the repository that the code does not keep.                *)
(***************************************************************************)

\* approval.controller.ts answers `already processed' for a decided request
\* (lines 70 and 91): its decision is never replaced by another.
DecidedIsFinal ==
  [][\A r \in Requests :
       request[r].status \in Decided => request'[r].status = request[r].status]_vars

\* GET /approvals/pending lists the requests that wait for the caller's role
\* (approval.controller.ts:36): with no call in progress, an open, unexpired
\* request is listed for the role of its current step (findPendingByRole).
Listed(r) ==
  LET here == request[r].currentStep + 1 IN
  here \in DOMAIN steps[r] /\ steps[r][here].status = "pending"

OpenRequestsListed ==
  \A r \in Requests :
    request[r].status \in Open /\ steps[r] # << >> /\ r \notin past /\ InFlight = {}
      => Listed(r)

\* Once cancelled (the requester has the 200 of POST :id/cancel, "cancelled"
\* in approval-workflow.e2e-spec.ts:300) a request is not approved any more, whatever calls overlap.
CancelledIsNotApproved ==
  [][\A r \in Requests :
       request[r].status = "cancelled" => request'[r].status \notin Open \cup {"approved"}]_vars
=============================================================================

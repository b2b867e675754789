------------------------------ MODULE Approval ------------------------------
(***************************************************************************)
(* The approval workflow of the API (modules/approval/approval.service.ts): *)
(* the tables approval_requests and approval_steps, and the HTTP calls that *)
(* create, process and cancel requests.                                     *)
(*                                                                          *)
(* The service uses no transaction, lock or version column.  Each call      *)
(* loads the request with its steps, decides on the loaded copy, and saves  *)
(* the copy: every `await' between is a point where other calls run, so a   *)
(* call is a process with a program counter.  A TypeORM save() is itself    *)
(* two round trips: a SELECT that finds the columns in which the entity     *)
(* differs from the row, and an UPDATE of those columns; saving a request   *)
(* also saves the loaded steps (cascade: true).                             *)
(*                                                                          *)
(* The wall clock is abstracted to the set of the requests whose expiresAt  *)
(* has passed: expiresAt never changes, and the code compares it with       *)
(* nothing but the current time.                                            *)
(***************************************************************************)
EXTENDS Integers, Sequences

CONSTANTS
  Requests,    \* ids of rows of approval_requests
  Calls,       \* the HTTP calls the server can have in progress at once
  Employees,   \* the employees that call the API
  RoleOf,      \* the role of each employee
  Triggers,    \* the triggers that requests are made for
  Amounts      \* the values of exceededAmount, in won

Roles == {"employee", "manager", "finance", "admin", "auditor"}

AllTriggers == {"limit_exceeded", "restricted_category", "location_mismatch",
                "high_amount", "after_hours", "manual_flag"}

ASSUME RoleOfAssumption == RoleOf \in [Employees -> Roles]
ASSUME TriggersAssumption == Triggers \subseteq AllTriggers
ASSUME AmountsAssumption == Amounts \subseteq Int

Open == {"pending", "escalated"}
Decided == {"approved", "rejected", "cancelled", "expired"}

(***************************************************************************)
(* The chain of approver roles a trigger asks for.                          *)
(***************************************************************************)
LimitExceededChain(amount) ==
  CASE amount <= 100000 -> <<"manager">>
    [] amount > 100000 /\ amount <= 500000 -> <<"manager", "finance">>
    [] amount > 500000 -> <<"manager", "finance", "admin">>

ApprovalChain(trigger, amount) ==
  CASE trigger = "limit_exceeded" -> LimitExceededChain(amount)
    [] trigger = "restricted_category" -> <<"admin">>
    [] trigger \notin {"limit_exceeded", "restricted_category"} -> <<"manager">>

\* RolesGuard on POST :id/process: @Roles(MANAGER, FINANCE, ADMIN) admits
\* every role whose level is at least the manager's.
RolesGuard(user) == RoleOf[user] \in {"manager", "finance", "admin"}

VARIABLES
  request,   \* table approval_requests: a row, or NoRequest
  steps,     \* table approval_steps: the steps of each request, in step order
  past,      \* the requests whose expiresAt has passed
  call,      \* the calls in progress, see Idle
  acts       \* history: the decisions taken, by whom and at which step

vars == <<request, steps, past, call, acts>>

NoRequest == [status |-> "none", currentStep |-> 0, totalSteps |-> 0]

\* What a call keeps between two awaits: where it is, what it was asked, the
\* request and steps it loaded and has changed since, and the columns in which
\* the save under way found them to differ from the tables.
Idle == [pc |-> "idle", op |-> "none", row |-> NoRequest, steps |-> << >>,
         dirty |-> {}, dirtySteps |-> {}]

Init ==
  /\ request = [r \in Requests |-> NoRequest]
  /\ steps = [r \in Requests |-> << >>]
  /\ past = {}
  /\ call = [c \in Calls |-> Idle]
  /\ acts = {}

Exists(r) == request[r] # NoRequest
InFlight == {c \in Calls : call[c].pc # "idle"}

At(c, label) == call[c].pc = label

\* The call answers, with a result or an exception, and its copy is gone.
Return(c) == call' = [call EXCEPT ![c] = Idle]

-----------------------------------------------------------------------------
(***************************************************************************)
(* POST /approvals.  The request row is inserted first, its steps in a      *)
(* second save: until then, or for ever when the call dies in between, the  *)
(* request has no steps.                                                    *)
(***************************************************************************)
Create(c, user, trigger, amount, r) ==
  LET chain == ApprovalChain(trigger, amount) IN
  /\ At(c, "idle")
  /\ ~Exists(r)
  /\ request' = [request EXCEPT ![r] =
       [status |-> "pending", currentStep |-> 0, totalSteps |-> Len(chain),
        requester |-> user]]
  /\ call' = [call EXCEPT ![c] =
       [pc |-> "insertSteps", op |-> "create", user |-> user, req |-> r,
        row |-> NoRequest, dirty |-> {}, dirtySteps |-> {},
        steps |-> [k \in 1..Len(chain) |-> [role |-> chain[k], status |-> "pending"]]]]
  /\ UNCHANGED <<steps, past, acts>>

InsertSteps(c) ==
  /\ At(c, "insertSteps")
  /\ steps' = [steps EXCEPT ![call[c].req] = call[c].steps]
  /\ Return(c)
  /\ UNCHANGED <<request, past, acts>>

(***************************************************************************)
(* POST :id/process and POST :id/cancel begin with findOne.  (A call that   *)
(* the guard refuses, or that names no request, changes nothing.)           *)
(***************************************************************************)
Load(c, user, op, r) ==
  /\ At(c, "idle")
  /\ op = "cancel" \/ RolesGuard(user)
  /\ Exists(r)
  /\ call' = [call EXCEPT ![c] =
       [pc |-> "decide", op |-> op, user |-> user, req |-> r,
        row |-> request[r], steps |-> steps[r], dirty |-> {}, dirtySteps |-> {}]]
  /\ UNCHANGED <<request, steps, past, acts>>

\* The loaded step whose order is the loaded request's current one, if any.
Current(c) == call[c].row.currentStep + 1
HasCurrent(c) == Current(c) \in DOMAIN call[c].steps
\* Mutant of IsCurrentApprover: the role of any step of the request will do.
IsSomeApprover(c) ==
  \E k \in DOMAIN call[c].steps : call[c].steps[k].role = RoleOf[call[c].user]

IsCurrentApprover(c) == call[c].steps[Current(c)].role = RoleOf[call[c].user]

Deciding(c, ops) == At(c, "decide") /\ call[c].op \in ops

\* The expiry test comes before the test for an earlier decision.
ProcessExpired(c) ==
  /\ Deciding(c, {"approve", "reject"})
  /\ call[c].req \in past
  /\ call' = [call EXCEPT ![c].row.status = "expired", ![c].pc = "saveRequest"]
  /\ UNCHANGED <<request, steps, past, acts>>

\* Mutant of MayAct: without the test for an earlier decision.
MayActAgain(c) == HasCurrent(c) /\ IsCurrentApprover(c)

MayAct(c) ==
  /\ call[c].row.status \notin Decided
  /\ HasCurrent(c)
  /\ IsCurrentApprover(c)

\* Mutant of ProcessRefused: no answer when the current step is missing.
ProcessRefusedWithStep(c) ==
  /\ Deciding(c, {"approve", "reject"})
  /\ call[c].req \notin past
  /\ ~MayAct(c) /\ HasCurrent(c)
  /\ Return(c)
  /\ UNCHANGED <<request, steps, past, acts>>

\* Mutant of ProcessRefused: a request without a current step has passed them all.
ProcessApprovedWithoutStep(c) ==
  /\ Deciding(c, {"approve", "reject"})
  /\ call[c].req \notin past
  /\ ~MayAct(c)
  /\ IF HasCurrent(c)
       THEN Return(c)
       ELSE call' = [call EXCEPT ![c].row.status = "approved", ![c].pc = "saveRequest"]
  /\ UNCHANGED <<request, steps, past, acts>>

\* Already decided, no current step, or the step of another role.
ProcessRefused(c) ==
  /\ Deciding(c, {"approve", "reject"})
  /\ call[c].req \notin past
  /\ ~MayAct(c)
  /\ Return(c)
  /\ UNCHANGED <<request, steps, past, acts>>

Record(c, k) ==
  acts' = acts \cup
    {[op |-> call[c].op, user |-> call[c].user, req |-> call[c].req, step |-> k]}

ProcessReject(c) ==
  /\ Deciding(c, {"reject"})
  /\ call[c].req \notin past
  /\ MayAct(c)
  /\ call' = [call EXCEPT ![c].steps[Current(c)].status = "rejected",
                          ![c].row.status = "rejected",
                          ![c].pc = "saveStep"]
  /\ Record(c, Current(c))
  /\ UNCHANGED <<request, steps, past>>

\* Mutant of ProcessApprove: the step takes the request's next status.
ProcessApproveMixed(c) ==
  /\ Deciding(c, {"approve"})
  /\ call[c].req \notin past
  /\ MayAct(c)
  /\ call' = [call EXCEPT ![c].steps[Current(c)].status = "escalated",
                          ![c].pc = "saveStep"]
  /\ Record(c, Current(c))
  /\ UNCHANGED <<request, steps, past>>

ProcessApprove(c) ==
  /\ Deciding(c, {"approve"})
  /\ call[c].req \notin past
  /\ MayAct(c)
  /\ call' = [call EXCEPT ![c].steps[Current(c)].status = "approved",
                          ![c].pc = "saveStep"]
  /\ Record(c, Current(c))
  /\ UNCHANGED <<request, steps, past>>

\* Mutant of MayCancel: anybody's request.
MayCancelAny(c) == call[c].row.status \in Open

MayCancel(c) ==
  /\ call[c].row.requester = call[c].user
  /\ call[c].row.status \in Open

CancelRefused(c) ==
  /\ Deciding(c, {"cancel"})
  /\ ~MayCancel(c)
  /\ Return(c)
  /\ UNCHANGED <<request, steps, past, acts>>

CancelAccepted(c) ==
  /\ Deciding(c, {"cancel"})
  /\ MayCancel(c)
  /\ call' = [call EXCEPT ![c].row.status = "cancelled", ![c].pc = "saveRequest"]
  /\ Record(c, 0)
  /\ UNCHANGED <<request, steps, past>>

(***************************************************************************)
(* stepRepo.save(currentStep).                                              *)
(***************************************************************************)
Differing(c, orders) ==
  {k \in orders : call[c].steps[k].status # steps[call[c].req][k].status}

SaveStep(c) ==
  /\ At(c, "saveStep")
  /\ call' = [call EXCEPT ![c].dirtySteps = Differing(c, {Current(c)}),
                          ![c].pc = "updateStep"]
  /\ UNCHANGED <<request, steps, past, acts>>

\* The step rows of the call's request once its dirty columns are written.
StepsWritten(c) ==
  [k \in DOMAIN steps[call[c].req] |->
    IF k \in call[c].dirtySteps
      THEN [steps[call[c].req][k] EXCEPT !.status = call[c].steps[k].status]
      ELSE steps[call[c].req][k]]

\* Mutant of Advanced: moves past the last step.
AdvancedPastLast(row) ==
  IF row.currentStep < row.totalSteps
    THEN [row EXCEPT !.currentStep = row.currentStep + 1, !.status = "escalated"]
    ELSE [row EXCEPT !.status = "approved"]

\* After an approved step is saved the loaded request moves to the next step,
\* or is approved when this was the last one.
Advanced(row) ==
  IF row.currentStep < row.totalSteps - 1
    THEN [row EXCEPT !.currentStep = row.currentStep + 1, !.status = "escalated"]
    ELSE [row EXCEPT !.status = "approved"]

UpdateStep(c) ==
  /\ At(c, "updateStep")
  /\ steps' = [steps EXCEPT ![call[c].req] = StepsWritten(c)]
  /\ call' = [call EXCEPT
       ![c].row = IF call[c].op = "approve" THEN Advanced(call[c].row) ELSE call[c].row,
       ![c].pc = "saveRequest"]
  /\ UNCHANGED <<request, past, acts>>

(***************************************************************************)
(* requestRepo.save(request).  An entity loaded before the steps were        *)
(* inserted carries an empty list: TypeORM then detaches the rows that have  *)
(* appeared since, the NOT NULL foreign key refuses, and the save is rolled  *)
(* back.                                                                     *)
(***************************************************************************)
Detaches(c) == call[c].steps = << >> /\ steps[call[c].req] # << >>

SaveRefused(c) ==
  /\ At(c, "saveRequest")
  /\ Detaches(c)
  /\ Return(c)
  /\ UNCHANGED <<request, steps, past, acts>>

SaveRequest(c) ==
  /\ At(c, "saveRequest")
  /\ ~Detaches(c)
  /\ call' = [call EXCEPT
       ![c].dirty = {f \in {"status", "currentStep"} :
                       call[c].row[f] # request[call[c].req][f]},
       ![c].dirtySteps = Differing(c, DOMAIN call[c].steps),
       ![c].pc = "updateRequest"]
  /\ UNCHANGED <<request, steps, past, acts>>

RowWritten(c) ==
  LET row == request[call[c].req] IN
  [row EXCEPT
    !.status = IF "status" \in call[c].dirty THEN call[c].row.status ELSE row.status,
    !.currentStep = IF "currentStep" \in call[c].dirty
                      THEN call[c].row.currentStep ELSE row.currentStep]

UpdateRequest(c) ==
  /\ At(c, "updateRequest")
  /\ request' = [request EXCEPT ![call[c].req] = RowWritten(c)]
  /\ steps' = [steps EXCEPT ![call[c].req] = StepsWritten(c)]
  /\ Return(c)
  /\ UNCHANGED <<past, acts>>

(***************************************************************************)
(* The environment: a call dies with its database connection or with the    *)
(* server process, and time passes.                                         *)
(***************************************************************************)
Fail(c) ==
  /\ c \in InFlight
  /\ Return(c)
  /\ UNCHANGED <<request, steps, past, acts>>

Expire(r) ==
  /\ Exists(r)
  /\ r \notin past
  /\ past' = past \cup {r}
  /\ UNCHANGED <<request, steps, call, acts>>

-----------------------------------------------------------------------------
Begin(c) ==
  \E user \in Employees, r \in Requests :
    \/ \E trigger \in Triggers, amount \in Amounts : Create(c, user, trigger, amount, r)
    \/ \E op \in {"approve", "reject", "cancel"} : Load(c, user, op, r)

Continue(c) ==
  \/ InsertSteps(c)
  \/ ProcessExpired(c) \/ ProcessRefused(c) \/ ProcessReject(c) \/ ProcessApprove(c)
  \/ CancelRefused(c) \/ CancelAccepted(c)
  \/ SaveStep(c) \/ UpdateStep(c)
  \/ SaveRefused(c) \/ SaveRequest(c) \/ UpdateRequest(c)

Next ==
  \/ \E c \in Calls : Begin(c) \/ Continue(c) \/ Fail(c)
  \/ \E r \in Requests : Expire(r)

Spec == Init /\ [][Next]_vars
=============================================================================

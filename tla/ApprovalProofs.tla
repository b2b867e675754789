--------------------------- MODULE ApprovalProofs ---------------------------
(***************************************************************************)
(* Proofs about Approval for every value of its constants: any number of    *)
(* overlapping calls, requests and employees, any failures.                 *)
(*                                                                          *)
(* The invariant IInv has two parts.  Coherent says how the copy a call     *)
(* works on relates to the tables (same requester, same number of steps,    *)
(* same roles), although its status columns may be stale.  Earned says that *)
(* whatever a table or a stale copy claims has been earned by a recorded    *)
(* decision.  Claims are never withdrawn by time passing, because decisions *)
(* are only added and roles never change: this is why writing a stale       *)
(* column back cannot let a request past a step.                            *)
(*                                                                          *)
(* The second half is about calls that do not overlap (OneAtATime).  SeqInv *)
(* says that a call's copy is then never stale, so that the rows keep       *)
(* telling one story and every save is a step of ApprovalWorkflow.          *)
(***************************************************************************)
EXTENDS ApprovalSequential, TLAPS

SameRoles(ss, tt) ==
  /\ DOMAIN ss = DOMAIN tt
  /\ \A k \in DOMAIN ss : ss[k].role = tt[k].role

\* The copy h of a call, against the row and the steps of its request.
CreationCoherent(h, row, ss) ==
  /\ ss = << >>
  /\ Len(h.steps) = row.totalSteps
  /\ \A k \in DOMAIN h.steps : h.steps[k].status = "pending"

HandlingCoherent(h, row, ss) ==
  /\ h.row.requester = row.requester
  /\ h.row.totalSteps = row.totalSteps
  /\ h.steps = << >> \/ SameRoles(h.steps, ss)
  /\ h.dirtySteps \subseteq DOMAIN h.steps
  /\ h.pc \in {"saveStep", "updateStep"} => h.row.currentStep + 1 \in DOMAIN h.steps

Coherent ==
  /\ \A r \in Requests : steps[r] # << >> =>
       Exists(r) /\ Len(steps[r]) = request[r].totalSteps
  /\ \A c \in Calls : call[c] # Idle => Exists(call[c].req)
  /\ \A c \in Calls : call[c] \in Creation =>
       CreationCoherent(call[c], request[call[c].req], steps[call[c].req])
  /\ \A c, d \in Calls :
       call[c] \in Creation /\ call[d] \in Creation /\ call[c].req = call[d].req => c = d
  /\ \A c \in Calls : call[c] \in Handling =>
       HandlingCoherent(call[c], request[call[c].req], steps[call[c].req])

\* Took, with the decisions A and the steps ss of the request as parameters.
TookBy(A, ss, op, r, k) ==
  \E a \in A :
    /\ a.op = op /\ a.req = r /\ a.step = k
    /\ k \in DOMAIN ss /\ ss[k].role = RoleOf[a.user]

\* What a request row, or a copy of it, claims to have happened to request r.
RowEarned(A, P, ss, row, r) ==
  /\ \A k \in 1..row.currentStep : TookBy(A, ss, "approve", r, k)
  /\ row.status = "escalated" => TookBy(A, ss, "approve", r, 1)
  /\ row.status = "approved" => \A k \in 1..row.totalSteps : TookBy(A, ss, "approve", r, k)
  /\ row.status = "rejected" => \E k \in 1..row.totalSteps : TookBy(A, ss, "reject", r, k)
  /\ row.status = "cancelled" =>
       [op |-> "cancel", user |-> row.requester, req |-> r, step |-> 0] \in A
  /\ row.status = "expired" => r \in P

\* What step rows tt, or a copy of them, claim.
StepsEarned(A, ss, tt, r) ==
  \A k \in DOMAIN tt :
    /\ tt[k].status = "approved" => TookBy(A, ss, "approve", r, k)
    /\ tt[k].status = "rejected" => TookBy(A, ss, "reject", r, k)

CallEarned(A, P, ss, h) ==
  /\ RowEarned(A, P, ss, h.row, h.req)
  /\ StepsEarned(A, ss, h.steps, h.req)
  /\ h.pc \in {"saveStep", "updateStep"} =>
       TookBy(A, ss, h.op, h.req, h.row.currentStep + 1)

Earned ==
  /\ \A r \in Requests : Exists(r) => RowEarned(acts, past, steps[r], request[r], r)
  /\ \A r \in Requests : StepsEarned(acts, steps[r], steps[r], r)
  /\ \A c \in Calls : call[c] \in Handling =>
       CallEarned(acts, past, steps[call[c].req], call[c])

IInv == TypeOK /\ Coherent /\ Earned

-----------------------------------------------------------------------------
(***************************************************************************)
(* Claims are kept: by more decisions, by the passing of time, and by a     *)
(* change of the steps that leaves their roles alone.                       *)
(***************************************************************************)
LEMMA TookKept ==
  ASSUME NEW A, NEW B, A \subseteq B, NEW ss, NEW tt, SameRoles(ss, tt),
         NEW op, NEW r, NEW k, TookBy(A, ss, op, r, k)
  PROVE  TookBy(B, tt, op, r, k)
BY DEF TookBy, SameRoles

LEMMA RowKept ==
  ASSUME NEW A, NEW B, A \subseteq B, NEW P, NEW Q, P \subseteq Q,
         NEW ss, NEW tt, SameRoles(ss, tt),
         NEW row, NEW r, RowEarned(A, P, ss, row, r)
  PROVE  RowEarned(B, Q, tt, row, r)
BY TookKept DEF RowEarned

LEMMA StepsKept ==
  ASSUME NEW A, NEW B, A \subseteq B, NEW ss, NEW tt, SameRoles(ss, tt),
         NEW uu, NEW r, StepsEarned(A, ss, uu, r)
  PROVE  StepsEarned(B, tt, uu, r)
BY TookKept DEF StepsEarned

LEMMA CallKept ==
  ASSUME NEW A, NEW B, A \subseteq B, NEW P, NEW Q, P \subseteq Q,
         NEW ss, NEW tt, SameRoles(ss, tt),
         NEW h, CallEarned(A, P, ss, h)
  PROVE  CallEarned(B, Q, tt, h)
BY TookKept, RowKept, StepsKept DEF CallEarned

\* A row written column by column from two rows of the same request claims
\* nothing that one of the two did not claim.
LEMMA RowMixed ==
  ASSUME NEW A, NEW P, NEW ss, NEW r,
         NEW u \in RequestRow, NEW v \in RequestRow, NEW w \in RequestRow,
         RowEarned(A, P, ss, u, r), RowEarned(A, P, ss, v, r),
         u.totalSteps = w.totalSteps, v.totalSteps = w.totalSteps,
         u.requester = w.requester, v.requester = w.requester,
         w.status \in {u.status, v.status},
         w.currentStep \in {u.currentStep, v.currentStep}
  PROVE  RowEarned(A, P, ss, w, r)
BY DEF RowEarned

LEMMA StepsMixed ==
  ASSUME NEW A, NEW ss, NEW r, NEW tt, NEW uu, NEW ww,
         StepsEarned(A, ss, tt, r), StepsEarned(A, ss, uu, r),
         \A k \in DOMAIN ww :
           \/ k \in DOMAIN tt /\ ww[k].status = tt[k].status
           \/ k \in DOMAIN uu /\ ww[k].status = uu[k].status
  PROVE  StepsEarned(A, ss, ww, r)
BY DEF StepsEarned

-----------------------------------------------------------------------------
(***************************************************************************)
(* Facts about the tables and the copies.                                   *)
(***************************************************************************)
LEMMA Shapes ==
  /\ Idle \notin Handling /\ Idle \notin Creation
  /\ \A h \in Handling : h \notin Creation
  /\ NoRequest \notin RequestRow
BY DEF Idle, Handling, Creation, NoRequest, RequestRow

\* Every call answers the chain of roles its trigger asks for: at least one
\* step, and only roles that RolesGuard admits.
LEMMA ChainShape ==
  ASSUME NEW trigger \in AllTriggers, NEW amount \in Int
  PROVE  /\ ApprovalChain(trigger, amount) \in Seq(Roles)
         /\ Len(ApprovalChain(trigger, amount)) \in 1..3
         /\ \A k \in 1..Len(ApprovalChain(trigger, amount)) :
              ApprovalChain(trigger, amount)[k] \in {"manager", "finance", "admin"}
<1>1. LimitExceededChain(amount) \in
        {<<"manager">>, <<"manager", "finance">>, <<"manager", "finance", "admin">>}
  <2>1. CASE amount <= 100000
    BY <2>1 DEF LimitExceededChain
  <2>2. CASE amount > 100000 /\ amount <= 500000
    BY <2>2 DEF LimitExceededChain
  <2>3. CASE amount > 500000
    BY <2>3 DEF LimitExceededChain
  <2>4. QED
    BY <2>1, <2>2, <2>3
<1>2. ApprovalChain(trigger, amount) \in
        {<<"manager">>, <<"manager", "finance">>, <<"manager", "finance", "admin">>, <<"admin">>}
  <2>1. CASE trigger = "limit_exceeded"
    BY <2>1, <1>1 DEF ApprovalChain
  <2>2. CASE trigger = "restricted_category"
    BY <2>2 DEF ApprovalChain
  <2>3. CASE trigger \notin {"limit_exceeded", "restricted_category"}
    BY <2>3 DEF ApprovalChain
  <2>4. QED
    BY <2>1, <2>2, <2>3
<1> DEFINE chain == ApprovalChain(trigger, amount)
<1>3. /\ chain \in Seq({"manager", "finance", "admin"})
      /\ Len(chain) \in 1..3
  <2> HIDE DEF chain
  <2>1. CASE chain = <<"manager">>
    BY <2>1
  <2>2. CASE chain = <<"manager", "finance">>
    BY <2>2
  <2>3. CASE chain = <<"manager", "finance", "admin">>
    BY <2>3
  <2>4. CASE chain = <<"admin">>
    BY <2>4
  <2>5. QED
    BY <1>2, <2>1, <2>2, <2>3, <2>4 DEF chain
<1>4. /\ chain \in Seq(Roles)
      /\ \A k \in 1..Len(chain) : chain[k] \in {"manager", "finance", "admin"}
  BY <1>3 DEF Roles
<1>5. QED
  BY <1>3, <1>4

LEMMA SameRolesReflexive ==
  ASSUME NEW ss
  PROVE  SameRoles(ss, ss)
BY DEF SameRoles

-----------------------------------------------------------------------------
(***************************************************************************)
(* The two kinds of step that leave the tables alone: a call that answers,  *)
(* and a call that changes its own copy, perhaps recording a decision.      *)
(***************************************************************************)
LEMMA ReturnStep ==
  ASSUME IInv, NEW c \in Calls, Return(c), UNCHANGED <<request, steps, past, acts>>
  PROVE  IInv'
<1>1. /\ call' \in [Calls -> {Idle} \cup Creation \cup Handling]
      /\ call'[c] = Idle
      /\ \A d \in Calls : d # c => call'[d] = call[d]
  BY DEF IInv, TypeOK, Return
<1>2. TypeOK'
  BY <1>1 DEF IInv, TypeOK
<1>3. Coherent'
  BY <1>1, Shapes DEF IInv, Coherent, Exists
<1>4. Earned'
  BY <1>1, Shapes DEF IInv, Earned, Exists
<1>5. QED
  BY <1>2, <1>3, <1>4 DEF IInv

LEMMA CopyStep ==
  ASSUME IInv, NEW c \in Calls,
         UNCHANGED <<request, steps, past>>,
         acts \subseteq acts', acts' \subseteq Act,
         call' \in [Calls -> {Idle} \cup Creation \cup Handling],
         \A d \in Calls : d # c => call'[d] = call[d],
         call'[c] \in Handling,
         Exists(call'[c].req),
         HandlingCoherent(call'[c], request[call'[c].req], steps[call'[c].req]),
         CallEarned(acts', past, steps[call'[c].req], call'[c])
  PROVE  IInv'
<1>1. TypeOK'
  BY DEF IInv, TypeOK
<1>2. Coherent'
  BY Shapes DEF IInv, Coherent, Exists
<1>3. Earned'
  <2>1. \A r \in Requests : Exists(r)' => RowEarned(acts, past, steps[r], request[r], r)'
    BY RowKept, SameRolesReflexive DEF IInv, Earned, Exists
  <2>2. \A r \in Requests : StepsEarned(acts, steps[r], steps[r], r)'
    BY StepsKept, SameRolesReflexive DEF IInv, Earned
  <2>3. ASSUME NEW d \in Calls, call'[d] \in Handling
        PROVE  CallEarned(acts, past, steps[call[d].req], call[d])'
    <3>1. CASE d = c
      BY <3>1
    <3>2. CASE d # c
      BY <2>3, <3>2, CallKept, SameRolesReflexive DEF IInv, Earned
    <3>3. QED
      BY <3>1, <3>2
  <2>4. QED
    BY <2>1, <2>2, <2>3 DEF Earned
<1>4. QED
  BY <1>1, <1>2, <1>3 DEF IInv

-----------------------------------------------------------------------------
(***************************************************************************)
(* The steps of Next, one lemma for each.                                   *)
(***************************************************************************)
LEMMA CreateStep ==
  ASSUME IInv, NEW c \in Calls, NEW user \in Employees, NEW trigger \in Triggers,
         NEW amount \in Amounts, NEW r \in Requests, Create(c, user, trigger, amount, r)
  PROVE  IInv'
<1> DEFINE chain == ApprovalChain(trigger, amount)
           row == [status |-> "pending", currentStep |-> 0, totalSteps |-> Len(chain),
                   requester |-> user]
           ss == [k \in 1..Len(chain) |-> [role |-> chain[k], status |-> "pending"]]
           h == [pc |-> "insertSteps", op |-> "create", user |-> user, req |-> r,
                 row |-> NoRequest, dirty |-> {}, dirtySteps |-> {}, steps |-> ss]
<1>1. /\ chain \in Seq(Roles)
      /\ Len(chain) \in 1..3
  BY ChainShape, TriggersAssumption, AmountsAssumption
<1>2. row \in RequestRow /\ row # NoRequest
  <2>1. Len(chain) \in Nat \ {0}
    <3>1. \A n \in 1..3 : n \in Nat \ {0}
      OBVIOUS
    <3>2. QED
      BY <1>1, <3>1
  <2>2. row.status # NoRequest.status
    BY DEF NoRequest
  <2>3. QED
    BY <2>1, <2>2 DEF RequestRow, Open
<1>3. /\ ss \in Seq(StepRow)
      /\ Len(ss) = Len(chain)
      /\ DOMAIN ss = 1..Len(chain)
      /\ \A k \in DOMAIN ss : ss[k].status = "pending"
  BY <1>1 DEF StepRow, StepStatus
<1>4. h \in Creation
  BY <1>3 DEF Creation
<1>5. /\ request' = [request EXCEPT ![r] = row]
      /\ call' = [call EXCEPT ![c] = h]
      /\ call[c].pc = "idle"
      /\ ~Exists(r)
      /\ UNCHANGED <<steps, past, acts>>
  BY DEF Create, At
<1> HIDE DEF chain, row, ss, h
<1>6. TypeOK'
  BY <1>2, <1>4, <1>5 DEF IInv, TypeOK
<1>7. steps[r] = << >>
  BY <1>5 DEF IInv, Coherent
<1>8. \A d \in Calls : d # c => call'[d] = call[d] /\ (call[d] # Idle => call[d].req # r)
  BY <1>5 DEF IInv, TypeOK, Coherent
<1>9. Coherent'
  <2>1. call'[c] = h /\ h.req = r /\ h # Idle /\ request'[r] = row
    BY <1>5 DEF h, Idle, IInv, TypeOK
  <2>2. CreationCoherent(h, row, << >>)
    BY <1>3 DEF CreationCoherent, h, row
  <2>3. \A q \in Requests : q # r => request'[q] = request[q]
    BY <1>5 DEF IInv, TypeOK
  <2>4. \A d \in Calls : call[d] # Idle => call[d].req \in Requests
    BY DEF IInv, TypeOK, Creation, Handling
  <2>5. \A q \in Requests : steps'[q] # << >> =>
          Exists(q)' /\ Len(steps'[q]) = request'[q].totalSteps
    BY <1>5, <1>7, <2>3 DEF IInv, Coherent, Exists
  <2>6. \A d \in Calls : call'[d] # Idle => Exists(call[d].req)'
    BY <1>2, <1>8, <2>1, <2>3, <2>4 DEF IInv, Coherent, Exists
  <2>7. \A d \in Calls : call'[d] \in Creation =>
          CreationCoherent(call[d], request[call[d].req], steps[call[d].req])'
    BY <1>5, <1>7, <1>8, <2>1, <2>2, <2>3, <2>4, Shapes DEF IInv, Coherent
  <2>8. \A d, e \in Calls :
          call'[d] \in Creation /\ call'[e] \in Creation /\ call'[d].req = call'[e].req
            => d = e
    BY <1>8, <2>1, Shapes DEF IInv, Coherent
  <2>9. \A d \in Calls : call'[d] \in Handling =>
          HandlingCoherent(call[d], request[call[d].req], steps[call[d].req])'
    BY <1>4, <1>5, <1>8, <2>1, <2>3, <2>4, Shapes DEF IInv, Coherent
  <2>10. QED
    BY <2>5, <2>6, <2>7, <2>8, <2>9 DEF Coherent
<1>10. Earned'
  <2>1. RowEarned(acts, past, steps[r], row, r)
    BY DEF RowEarned, row
  <2>2. \A q \in Requests : Exists(q)' => RowEarned(acts, past, steps[q], request[q], q)'
    BY <1>5, <2>1 DEF IInv, TypeOK, Earned, Exists
  <2>3. \A d \in Calls : call'[d] \in Handling =>
          CallEarned(acts, past, steps[call[d].req], call[d])'
    BY <1>4, <1>5, <1>8, Shapes DEF IInv, TypeOK, Earned
  <2>4. QED
    BY <1>5, <2>2, <2>3 DEF IInv, Earned
<1>11. QED
  BY <1>6, <1>9, <1>10 DEF IInv

LEMMA InsertStepsStep ==
  ASSUME IInv, NEW c \in Calls, InsertSteps(c)
  PROVE  IInv'
<1> DEFINE r == call[c].req
           ss == call[c].steps
<1>1. /\ call[c] \in Creation
      /\ r \in Requests /\ ss \in Seq(StepRow)
  <2>1. call[c].pc = "insertSteps" /\ call[c] \in {Idle} \cup Creation \cup Handling
    BY DEF IInv, TypeOK, InsertSteps, At
  <2>2. call[c] \in Creation
    BY <2>1 DEF Idle, Handling
  <2>3. QED
    BY <2>2 DEF Creation
<1>2. /\ call' = [call EXCEPT ![c] = Idle]
      /\ steps' = [steps EXCEPT ![r] = ss]
      /\ UNCHANGED <<request, past, acts>>
  BY DEF InsertSteps, Return
<1>3. Exists(r) /\ CreationCoherent(call[c], request[r], steps[r])
  BY <1>1, Shapes DEF IInv, Coherent
<1>4. /\ steps[r] = << >> /\ Len(ss) = request[r].totalSteps
      /\ \A k \in DOMAIN ss : ss[k].status = "pending"
  BY <1>3 DEF CreationCoherent
<1> HIDE DEF r, ss
<1>5. TypeOK'
  BY <1>1, <1>2 DEF IInv, TypeOK
<1>6. /\ steps'[r] = ss
      /\ \A q \in Requests : q # r => steps'[q] = steps[q]
      /\ call'[c] = Idle
      /\ \A d \in Calls : d # c => call'[d] = call[d]
  BY <1>1, <1>2 DEF IInv, TypeOK
<1>7. \A d \in Calls : d # c /\ call[d] \in Creation => call[d].req # r
  BY <1>1 DEF IInv, Coherent, r
<1>8. \A d \in Calls : call[d] \in Creation \cup Handling => call[d].req \in Requests
  BY DEF Creation, Handling
\* A copy loaded before the steps were inserted has no steps.
<1>9. \A d \in Calls : call[d] \in Handling /\ call[d].req = r => call[d].steps = << >>
  BY <1>1, <1>4 DEF IInv, Coherent, HandlingCoherent, SameRoles, Handling
<1>10. Coherent'
  <2>1. \A q \in Requests : steps'[q] # << >> =>
          Exists(q)' /\ Len(steps'[q]) = request'[q].totalSteps
    BY <1>2, <1>3, <1>4, <1>6 DEF IInv, Coherent, Exists, r
  <2>2. \A d \in Calls : call'[d] # Idle => Exists(call[d].req)'
    BY <1>2, <1>6 DEF IInv, Coherent, Exists
  <2>3. \A d \in Calls : call'[d] \in Creation =>
          CreationCoherent(call[d], request[call[d].req], steps[call[d].req])'
    BY <1>2, <1>6, <1>7, <1>8, Shapes DEF IInv, Coherent
  <2>4. \A d, e \in Calls :
          call'[d] \in Creation /\ call'[e] \in Creation /\ call'[d].req = call'[e].req
            => d = e
    BY <1>6, Shapes DEF IInv, Coherent
  <2>5. \A d \in Calls : call'[d] \in Handling =>
          HandlingCoherent(call[d], request[call[d].req], steps[call[d].req])'
    BY <1>2, <1>6, <1>8, <1>9, Shapes DEF IInv, Coherent, HandlingCoherent
  <2>6. QED
    BY <2>1, <2>2, <2>3, <2>4, <2>5 DEF Coherent
<1>11. Earned'
  <2>1. \A A, op, k : ~TookBy(A, << >>, op, r, k)
    BY DEF TookBy
  <2>2. RowEarned(acts, past, << >>, request[r], r)
    BY <1>1, <1>3, <1>4 DEF IInv, Earned
  <2>3. RowEarned(acts, past, ss, request[r], r)
    BY <2>1, <2>2 DEF RowEarned
  <2>4. StepsEarned(acts, ss, ss, r)
    BY <1>4 DEF StepsEarned
  <2>5. ASSUME NEW d \in Calls, call[d] \in Handling, call[d].req = r
        PROVE  CallEarned(acts, past, ss, call[d])
    BY <2>1, <2>5, <1>4, <1>9 DEF IInv, Earned, CallEarned, RowEarned, StepsEarned
  <2>6. QED
    BY <1>2, <1>6, <1>8, <2>3, <2>4, <2>5, Shapes DEF IInv, Earned, Exists
<1>12. QED
  BY <1>5, <1>10, <1>11 DEF IInv

LEMMA ExpireStep ==
  ASSUME IInv, NEW r \in Requests, Expire(r)
  PROVE  IInv'
<1>1. /\ past' = past \cup {r}
      /\ UNCHANGED <<request, steps, call, acts>>
  BY DEF Expire
<1>2. TypeOK'
  BY <1>1 DEF IInv, TypeOK
<1>3. Coherent'
  BY <1>1 DEF IInv, Coherent, Exists
<1>4. Earned'
  BY <1>1, RowKept, CallKept, SameRolesReflexive DEF IInv, Earned, Exists
<1>5. QED
  BY <1>2, <1>3, <1>4 DEF IInv

\* What a call that handles a request knows of its own copy.
LEMMA CopyFacts ==
  ASSUME IInv, NEW c \in Calls, call[c].pc # "idle", call[c].pc # "insertSteps"
  PROVE  /\ call[c] \in Handling
         /\ call[c].req \in Requests
         /\ Exists(call[c].req)
         /\ HandlingCoherent(call[c], request[call[c].req], steps[call[c].req])
         /\ CallEarned(acts, past, steps[call[c].req], call[c])
         /\ request[call[c].req] \in RequestRow
         /\ RowEarned(acts, past, steps[call[c].req], request[call[c].req], call[c].req)
         /\ StepsEarned(acts, steps[call[c].req], steps[call[c].req], call[c].req)
<1>1. call[c] \in Handling
  BY DEF IInv, TypeOK, Idle, Creation
<1>2. call[c].req \in Requests
  BY <1>1 DEF Handling
<1>3. Exists(call[c].req)
  BY <1>1, Shapes DEF IInv, Coherent
<1>4. request[call[c].req] \in RequestRow
  BY <1>2, <1>3 DEF IInv, TypeOK, Exists
<1>5. QED
  BY <1>1, <1>2, <1>3, <1>4 DEF IInv, Coherent, Earned

LEMMA LoadStep ==
  ASSUME IInv, NEW c \in Calls, NEW user \in Employees, NEW r \in Requests,
         NEW op \in {"approve", "reject", "cancel"}, Load(c, user, op, r)
  PROVE  IInv'
<1> DEFINE h == [pc |-> "decide", op |-> op, user |-> user, req |-> r,
                 row |-> request[r], steps |-> steps[r], dirty |-> {}, dirtySteps |-> {}]
<1>1. /\ call' = [call EXCEPT ![c] = h]
      /\ Exists(r)
      /\ UNCHANGED <<request, steps, past, acts>>
  BY DEF Load
<1>2. h \in Handling
  BY <1>1 DEF IInv, TypeOK, Handling, Exists
<1>3. HandlingCoherent(h, request[r], steps[r])
  BY SameRolesReflexive DEF HandlingCoherent
<1>4. CallEarned(acts, past, steps[r], h)
  BY <1>1 DEF IInv, Earned, CallEarned
<1>5. h.req = r
  OBVIOUS
<1> HIDE DEF h
<1>6. /\ call' \in [Calls -> {Idle} \cup Creation \cup Handling]
      /\ call'[c] = h
      /\ \A d \in Calls : d # c => call'[d] = call[d]
  BY <1>1, <1>2 DEF IInv, TypeOK
<1>7. QED
  BY <1>1, <1>2, <1>3, <1>4, <1>5, <1>6, CopyStep DEF IInv, TypeOK

\* An employee whose role is the one of the loaded current step takes a
\* decision there: the recorded decision is one the step's table row admits.
LEMMA DecisionTaken ==
  ASSUME NEW h \in Handling, NEW row, NEW ss, HandlingCoherent(h, row, ss), NEW A,
         NEW k, k \in DOMAIN h.steps, h.steps[k].role = RoleOf[h.user],
         [op |-> h.op, user |-> h.user, req |-> h.req, step |-> k] \in A
  PROVE  TookBy(A, ss, h.op, h.req, k)
<1>1. SameRoles(h.steps, ss)
  BY DEF HandlingCoherent
<1>2. QED
  BY <1>1 DEF SameRoles, TookBy

LEMMA StatusSet ==
  ASSUME NEW ss \in Seq(StepRow), NEW k \in DOMAIN ss, NEW status \in StepStatus
  PROVE  LET tt == [ss EXCEPT ![k] = [ss[k] EXCEPT !.status = status]] IN
         /\ tt \in Seq(StepRow)
         /\ SameRoles(tt, ss)
         /\ tt[k].status = status
         /\ \A j \in DOMAIN tt : j # k => tt[j] = ss[j]
<1> DEFINE s == [ss[k] EXCEPT !.status = status]
           tt == [ss EXCEPT ![k] = s]
<1>1. s \in StepRow /\ s.role = ss[k].role /\ s.status = status
  <2>1. ss[k] \in StepRow
    OBVIOUS
  <2>2. QED
    BY <2>1 DEF StepRow
<1> HIDE DEF s
<1>2. /\ tt \in Seq(StepRow)
      /\ DOMAIN tt = DOMAIN ss
      /\ tt[k] = s
      /\ \A j \in DOMAIN tt : j # k => tt[j] = ss[j]
  BY <1>1
<1> HIDE DEF tt
<1>3. SameRoles(tt, ss)
  BY <1>1, <1>2 DEF SameRoles
<1>4. QED
  BY <1>1, <1>2, <1>3 DEF s, tt

\* ProcessApprove and ProcessReject put the decision on the current step of
\* the copy; status is the row's new status.
LEMMA DecideStep ==
  ASSUME IInv, NEW c \in Calls, NEW decision \in {"approved", "rejected"},
         call[c].op = IF decision = "approved" THEN "approve" ELSE "reject",
         At(c, "decide"), MayAct(c), Record(c, Current(c)),
         UNCHANGED <<request, steps, past>>,
         call' = [call EXCEPT ![c] =
           [call[c] EXCEPT
             !.steps = [call[c].steps EXCEPT ![Current(c)] =
                         [call[c].steps[Current(c)] EXCEPT !.status = decision]],
             !.row = [call[c].row EXCEPT
                       !.status = IF decision = "rejected" THEN "rejected"
                                  ELSE call[c].row.status],
             !.pc = "saveStep"]]
  PROVE  IInv'
<1> DEFINE h == call[c]
           r == h.req
           k == h.row.currentStep + 1
           tt == [h.steps EXCEPT ![k] = [h.steps[k] EXCEPT !.status = decision]]
           row == [h.row EXCEPT !.status = IF decision = "rejected" THEN "rejected"
                                           ELSE h.row.status]
           g == [h EXCEPT !.steps = tt, !.row = row, !.pc = "saveStep"]
<1>1. /\ h \in Handling
      /\ r \in Requests
      /\ Exists(r)
      /\ HandlingCoherent(h, request[r], steps[r])
      /\ CallEarned(acts, past, steps[r], h)
  BY CopyFacts DEF At
<1>2. /\ k \in DOMAIN h.steps
      /\ h.steps[k].role = RoleOf[h.user]
  BY DEF MayAct, HasCurrent, IsCurrentApprover, Current
<1>3. call' = [call EXCEPT ![c] = g]
  BY DEF Current
<1>4. /\ h.steps \in Seq(StepRow) /\ h.row \in RequestRow
      /\ h.row.currentStep \in Nat /\ k \in Nat
      /\ h.user \in Employees /\ h.op \in {"approve", "reject", "cancel"}
  BY <1>1 DEF Handling, RequestRow
<1>5. [op |-> h.op, user |-> h.user, req |-> r, step |-> k] \in Act
  BY <1>1, <1>4 DEF Act
<1>6. /\ acts \subseteq acts'
      /\ acts' \subseteq Act
      /\ [op |-> h.op, user |-> h.user, req |-> r, step |-> k] \in acts'
  BY <1>5 DEF Record, Current, IInv, TypeOK
<1>7. /\ tt \in Seq(StepRow)
      /\ SameRoles(tt, h.steps)
      /\ tt[k].status = decision
      /\ \A j \in DOMAIN tt : j # k => tt[j] = h.steps[j]
  <2>1. decision \in StepStatus
    BY DEF StepStatus
  <2>2. \A ss \in Seq(StepRow) : \A j \in DOMAIN ss :
          LET uu == [ss EXCEPT ![j] = [ss[j] EXCEPT !.status = decision]] IN
          /\ uu \in Seq(StepRow)
          /\ SameRoles(uu, ss)
          /\ uu[j].status = decision
          /\ \A i \in DOMAIN uu : i # j => uu[i] = ss[i]
    BY <2>1, StatusSet
  <2>3. QED
    BY <1>2, <1>4, <2>2
<1>8. /\ row \in RequestRow
      /\ row.currentStep = h.row.currentStep
      /\ row.totalSteps = h.row.totalSteps
      /\ row.requester = h.row.requester
      /\ row.status = IF decision = "rejected" THEN "rejected" ELSE h.row.status
  BY <1>4 DEF RequestRow, Open, Decided
<1> HIDE DEF tt, row
<1>9. /\ g \in Handling
      /\ g.pc = "saveStep" /\ g.steps = tt /\ g.row = row /\ g.req = r
      /\ g.op = h.op /\ g.user = h.user /\ g.dirtySteps = h.dirtySteps
  BY <1>1, <1>7, <1>8 DEF Handling
<1> HIDE DEF g
<1>10. HandlingCoherent(g, request[r], steps[r])
  BY <1>1, <1>2, <1>7, <1>8, <1>9 DEF HandlingCoherent, SameRoles
<1>11. TookBy(acts', steps[r], h.op, r, k)
  BY <1>1, <1>2, <1>6, DecisionTaken
<1>12. CallEarned(acts', past, steps[r], g)
  <2>1. RowEarned(acts', past, steps[r], h.row, r) /\ StepsEarned(acts', steps[r], h.steps, r)
    BY <1>1, <1>6, RowKept, StepsKept, SameRolesReflexive DEF CallEarned
  <2>2. StepsEarned(acts', steps[r], tt, r)
    BY <1>7, <1>11, <2>1 DEF StepsEarned, SameRoles
  <2>3. k \in 1..row.totalSteps
    <3>1. SameRoles(h.steps, steps[r]) /\ steps[r] # << >> /\ steps[r] \in Seq(StepRow)
      BY <1>1, <1>2 DEF HandlingCoherent, SameRoles, IInv, TypeOK
    <3>2. Len(steps[r]) = request[r].totalSteps
      BY <1>1, <3>1 DEF IInv, Coherent
    <3>3. QED
      BY <1>1, <1>2, <1>8, <3>1, <3>2 DEF HandlingCoherent, SameRoles
  <2>4. RowEarned(acts', past, steps[r], row, r)
    BY <1>8, <1>11, <2>1, <2>3 DEF RowEarned
  <2>5. QED
    BY <1>8, <1>9, <1>11, <2>2, <2>4 DEF CallEarned
<1>13. /\ call' \in [Calls -> {Idle} \cup Creation \cup Handling]
       /\ call'[c] = g
       /\ \A d \in Calls : d # c => call'[d] = call[d]
  BY <1>3, <1>9 DEF IInv, TypeOK
<1>14. QED
  BY <1>1, <1>6, <1>9, <1>10, <1>12, <1>13, CopyStep

LEMMA ProcessStep ==
  ASSUME IInv, NEW c \in Calls, ProcessApprove(c) \/ ProcessReject(c)
  PROVE  IInv'
<1>1. At(c, "decide") /\ MayAct(c)
  BY DEF ProcessApprove, ProcessReject, Deciding
<1>2. call[c] \in Handling /\ call[c].row \in RequestRow /\ call[c].steps \in Seq(StepRow)
  <2>1. call[c] \in Handling
    BY <1>1, CopyFacts DEF At
  <2>2. QED
    BY <2>1 DEF Handling
<1>3. CASE ProcessApprove(c)
  <2> DEFINE tt == [call[c].steps EXCEPT ![Current(c)] =
                     [call[c].steps[Current(c)] EXCEPT !.status = "approved"]]
  <2>1. call[c].row = [call[c].row EXCEPT !.status = call[c].row.status]
    BY <1>2 DEF RequestRow
  <2>2. [call[c] EXCEPT !.steps = tt, !.pc = "saveStep"]
          = [call[c] EXCEPT !.steps = tt, !.row = call[c].row, !.pc = "saveStep"]
    <3> HIDE DEF tt
    <3>1. QED
      BY <1>2 DEF Handling
  <2>3. call' = [call EXCEPT ![c] = [call[c] EXCEPT !.steps = tt, !.pc = "saveStep"]]
    BY <1>3 DEF ProcessApprove
  <2>4. call' = [call EXCEPT ![c] =
           [call[c] EXCEPT
             !.steps = [call[c].steps EXCEPT ![Current(c)] =
                         [call[c].steps[Current(c)] EXCEPT !.status = "approved"]],
             !.row = [call[c].row EXCEPT !.status = call[c].row.status],
             !.pc = "saveStep"]]
    BY <2>1, <2>2, <2>3
  <2>5. QED
    BY <1>1, <1>3, <2>4, DecideStep DEF ProcessApprove, Deciding
<1>4. CASE ProcessReject(c)
  <2>1. call' = [call EXCEPT ![c] =
           [call[c] EXCEPT
             !.steps = [call[c].steps EXCEPT ![Current(c)] =
                         [call[c].steps[Current(c)] EXCEPT !.status = "rejected"]],
             !.row = [call[c].row EXCEPT !.status = "rejected"],
             !.pc = "saveStep"]]
    BY <1>2, <1>4 DEF ProcessReject, Handling
  <2>2. QED
    BY <1>1, <1>4, <2>1, DecideStep DEF ProcessReject, Deciding
<1>5. QED
  BY <1>3, <1>4

\* ProcessExpired and CancelAccepted put a final status on the copy's row.
LEMMA CloseStep ==
  ASSUME IInv, NEW c \in Calls, NEW status \in {"expired", "cancelled"},
         At(c, "decide"),
         UNCHANGED <<request, steps, past>>,
         acts \subseteq acts', acts' \subseteq Act,
         status = "expired" => call[c].req \in past,
         status = "cancelled" =>
           [op |-> "cancel", user |-> call[c].row.requester, req |-> call[c].req, step |-> 0]
             \in acts',
         call' = [call EXCEPT ![c].row.status = status, ![c].pc = "saveRequest"]
  PROVE  IInv'
<1> DEFINE h == call[c]
           r == h.req
           row == [h.row EXCEPT !.status = status]
           g == [h EXCEPT !.row = row, !.pc = "saveRequest"]
<1>1. /\ h \in Handling
      /\ Exists(r)
      /\ HandlingCoherent(h, request[r], steps[r])
      /\ CallEarned(acts, past, steps[r], h)
  BY CopyFacts DEF At
<1>2. h.row \in RequestRow
  BY <1>1 DEF Handling
<1>3. /\ row \in RequestRow
      /\ row.currentStep = h.row.currentStep
      /\ row.totalSteps = h.row.totalSteps
      /\ row.requester = h.row.requester
      /\ row.status = status
  BY <1>2 DEF RequestRow, Open, Decided
<1>4. call' = [call EXCEPT ![c] = g]
  OBVIOUS
<1> HIDE DEF row
<1>5. /\ g \in Handling
      /\ g.pc = "saveRequest" /\ g.steps = h.steps /\ g.row = row /\ g.req = r
      /\ g.dirtySteps = h.dirtySteps
  BY <1>1, <1>3 DEF Handling
<1> HIDE DEF g
<1>6. HandlingCoherent(g, request[r], steps[r])
  BY <1>1, <1>3, <1>5 DEF HandlingCoherent
<1>7. CallEarned(acts', past, steps[r], g)
  <2>1. RowEarned(acts', past, steps[r], h.row, r) /\ StepsEarned(acts', steps[r], h.steps, r)
    BY <1>1, RowKept, StepsKept, SameRolesReflexive DEF CallEarned
  <2>2. RowEarned(acts', past, steps[r], row, r)
    BY <1>3, <2>1 DEF RowEarned
  <2>3. QED
    BY <1>5, <2>1, <2>2 DEF CallEarned
<1>8. /\ call' \in [Calls -> {Idle} \cup Creation \cup Handling]
      /\ call'[c] = g
      /\ \A d \in Calls : d # c => call'[d] = call[d]
  BY <1>4, <1>5 DEF IInv, TypeOK
<1>9. QED
  BY <1>1, <1>5, <1>6, <1>7, <1>8, CopyStep

LEMMA ProcessExpiredStep ==
  ASSUME IInv, NEW c \in Calls, ProcessExpired(c)
  PROVE  IInv'
BY CloseStep DEF ProcessExpired, Deciding, IInv, TypeOK

LEMMA CancelAcceptedStep ==
  ASSUME IInv, NEW c \in Calls, CancelAccepted(c)
  PROVE  IInv'
<1> DEFINE act == [op |-> "cancel", user |-> call[c].user, req |-> call[c].req, step |-> 0]
<1>1. At(c, "decide") /\ call[c].op = "cancel" /\ call[c].row.requester = call[c].user
  BY DEF CancelAccepted, Deciding, MayCancel
<1>2. call[c].user \in Employees /\ call[c].req \in Requests
  BY <1>1, CopyFacts DEF At, Handling
<1>3. acts' = acts \cup {act} /\ act \in Act
  BY <1>1, <1>2 DEF CancelAccepted, Record, Act
<1>4. acts \subseteq acts' /\ acts' \subseteq Act
  BY <1>3 DEF IInv, TypeOK
<1>5. QED
  BY <1>1, <1>3, <1>4, CloseStep DEF CancelAccepted

\* The two saves begin by comparing the copy with the tables.
LEMMA CompareStep ==
  ASSUME IInv, NEW c \in Calls, SaveStep(c) \/ SaveRequest(c)
  PROVE  IInv'
<1> DEFINE h == call[c]
           r == h.req
<1>1. /\ h \in Handling
      /\ Exists(r)
      /\ HandlingCoherent(h, request[r], steps[r])
      /\ CallEarned(acts, past, steps[r], h)
  BY CopyFacts DEF SaveStep, SaveRequest, At
<1>2. DOMAIN h.steps \subseteq Nat
  BY <1>1 DEF Handling
<1>3. UNCHANGED <<request, steps, past, acts>>
  BY DEF SaveStep, SaveRequest
<1>4. CASE SaveStep(c)
  <2> DEFINE g == [h EXCEPT !.dirtySteps = Differing(c, {Current(c)}), !.pc = "updateStep"]
  <2>1. call' = [call EXCEPT ![c] = g] /\ h.pc = "saveStep"
    BY <1>4 DEF SaveStep, At
  <2>2. Differing(c, {Current(c)}) \subseteq DOMAIN h.steps
    BY <1>1, <2>1 DEF Differing, Current, HandlingCoherent
  <2>3. /\ g \in Handling
        /\ g.pc = "updateStep" /\ g.steps = h.steps /\ g.row = h.row /\ g.req = r
        /\ g.op = h.op /\ g.dirtySteps \subseteq DOMAIN h.steps
    BY <1>1, <1>2, <2>2 DEF Handling
  <2> HIDE DEF g
  <2>4. HandlingCoherent(g, request[r], steps[r])
    BY <1>1, <2>1, <2>3 DEF HandlingCoherent
  <2>5. CallEarned(acts, past, steps[r], g)
    BY <1>1, <2>1, <2>3 DEF CallEarned
  <2>6. /\ call' \in [Calls -> {Idle} \cup Creation \cup Handling]
        /\ call'[c] = g
        /\ \A d \in Calls : d # c => call'[d] = call[d]
    BY <2>1, <2>3 DEF IInv, TypeOK
  <2>7. QED
    BY <1>1, <1>3, <2>3, <2>4, <2>5, <2>6, CopyStep DEF IInv, TypeOK
<1>5. CASE SaveRequest(c)
  <2> DEFINE columns == {f \in {"status", "currentStep"} : h.row[f] # request[r][f]}
             g == [h EXCEPT !.dirty = columns,
                            !.dirtySteps = Differing(c, DOMAIN h.steps),
                            !.pc = "updateRequest"]
  <2>1. call' = [call EXCEPT ![c] = g]
    BY <1>5 DEF SaveRequest
  <2>2. Differing(c, DOMAIN h.steps) \subseteq DOMAIN h.steps
    BY DEF Differing
  <2>3. columns \in SUBSET {"status", "currentStep"}
    OBVIOUS
  <2> HIDE DEF columns
  <2>4. /\ g \in Handling
        /\ g.pc = "updateRequest" /\ g.steps = h.steps /\ g.row = h.row /\ g.req = r
        /\ g.dirtySteps \subseteq DOMAIN h.steps
    BY <1>1, <1>2, <2>2, <2>3 DEF Handling
  <2> HIDE DEF g
  <2>5. HandlingCoherent(g, request[r], steps[r])
    BY <1>1, <2>4 DEF HandlingCoherent
  <2>6. CallEarned(acts, past, steps[r], g)
    BY <1>1, <2>4 DEF CallEarned
  <2>7. /\ call' \in [Calls -> {Idle} \cup Creation \cup Handling]
        /\ call'[c] = g
        /\ \A d \in Calls : d # c => call'[d] = call[d]
    BY <2>1, <2>4 DEF IInv, TypeOK
  <2>8. QED
    BY <1>1, <1>3, <2>4, <2>5, <2>6, <2>7, CopyStep DEF IInv, TypeOK
<1>6. QED
  BY <1>4, <1>5

\* A write of the tables that keeps who asks, how many steps there are and
\* whose they are, and claims only what is earned.
LEMMA TableStep ==
  ASSUME IInv, NEW c \in Calls, NEW r \in Requests, Exists(r),
         NEW row \in RequestRow, NEW ss \in Seq(StepRow),
         request' = [request EXCEPT ![r] = row],
         steps' = [steps EXCEPT ![r] = ss],
         UNCHANGED <<past, acts>>,
         row.requester = request[r].requester,
         row.totalSteps = request[r].totalSteps,
         SameRoles(ss, steps[r]),
         RowEarned(acts, past, steps[r], row, r),
         StepsEarned(acts, steps[r], ss, r),
         call' \in [Calls -> {Idle} \cup Creation \cup Handling],
         \A d \in Calls : d # c => call'[d] = call[d],
         \/ call'[c] = Idle
         \/ /\ call'[c] \in Handling
            /\ call'[c].req = r
            /\ HandlingCoherent(call'[c], request[r], steps[r])
            /\ CallEarned(acts, past, steps[r], call'[c])
  PROVE  IInv'
<1>1. SameRoles(steps[r], ss) /\ Len(ss) = Len(steps[r])
      /\ (ss = << >> <=> steps[r] = << >>)
  BY DEF SameRoles, IInv, TypeOK
<1>2. /\ request'[r] = row /\ steps'[r] = ss
      /\ \A q \in Requests : q # r => request'[q] = request[q] /\ steps'[q] = steps[q]
  BY DEF IInv, TypeOK
<1>3. TypeOK'
  BY DEF IInv, TypeOK
<1>4. \A q \in Requests : Exists(q) => Exists(q)'
  BY <1>2, Shapes DEF Exists
<1>5. \A h \in Creation \cup Handling : h.req \in Requests
  BY DEF Creation, Handling
<1>6. Coherent'
  <2>1. \A q \in Requests : steps'[q] # << >> =>
          Exists(q)' /\ Len(steps'[q]) = request'[q].totalSteps
    BY <1>1, <1>2, <1>4 DEF IInv, Coherent
  <2>2. \A d \in Calls : call'[d] # Idle => Exists(call[d].req)'
    BY <1>4, <1>5 DEF IInv, TypeOK, Coherent
  <2>3. \A d \in Calls : call'[d] \in Creation =>
          CreationCoherent(call[d], request[call[d].req], steps[call[d].req])'
    BY <1>1, <1>2, <1>5, Shapes DEF IInv, Coherent, CreationCoherent
  <2>4. \A d, e \in Calls :
          call'[d] \in Creation /\ call'[e] \in Creation /\ call'[d].req = call'[e].req
            => d = e
    BY Shapes DEF IInv, Coherent
  <2>5. ASSUME NEW h, HandlingCoherent(h, request[r], steps[r])
        PROVE  HandlingCoherent(h, row, ss)
    BY <1>1, <2>5 DEF HandlingCoherent, SameRoles
  <2>6. \A d \in Calls : call'[d] \in Handling =>
          HandlingCoherent(call[d], request[call[d].req], steps[call[d].req])'
    BY <1>2, <1>5, <2>5, Shapes DEF IInv, Coherent
  <2>7. QED
    BY <2>1, <2>2, <2>3, <2>4, <2>6 DEF Coherent
<1>7. Earned'
  <2>1. RowEarned(acts, past, ss, row, r) /\ StepsEarned(acts, ss, ss, r)
    BY <1>1, RowKept, StepsKept
  <2>2. ASSUME NEW h, CallEarned(acts, past, steps[r], h)
        PROVE  CallEarned(acts, past, ss, h)
    BY <1>1, <2>2, CallKept
  <2>3. \A d \in Calls : call'[d] \in Handling =>
          CallEarned(acts, past, steps[call[d].req], call[d])'
    BY <1>2, <1>5, <2>2, Shapes DEF IInv, Earned
  <2>4. QED
    BY <1>2, <2>1, <2>3 DEF IInv, Earned, Exists
<1>8. QED
  BY <1>3, <1>6, <1>7 DEF IInv

\* The rows the two saves write.
LEMMA Written ==
  ASSUME IInv, NEW c \in Calls, At(c, "updateStep") \/ At(c, "updateRequest")
  PROVE  /\ StepsWritten(c) \in Seq(StepRow)
         /\ SameRoles(StepsWritten(c), steps[call[c].req])
         /\ StepsEarned(acts, steps[call[c].req], StepsWritten(c), call[c].req)
<1> DEFINE h == call[c]
           r == h.req
           ss == steps[r]
           ww == StepsWritten(c)
<1>1. /\ h \in Handling /\ r \in Requests
      /\ HandlingCoherent(h, request[r], ss)
      /\ CallEarned(acts, past, ss, h)
      /\ StepsEarned(acts, ss, ss, r)
  BY CopyFacts DEF At
<1>2. ss \in Seq(StepRow) /\ h.steps \in Seq(StepRow)
  BY <1>1 DEF IInv, TypeOK, Handling
<1>3. \A k \in DOMAIN ss : ww[k] = IF k \in h.dirtySteps
                                     THEN [ss[k] EXCEPT !.status = h.steps[k].status]
                                     ELSE ss[k]
  BY DEF StepsWritten
<1>4. DOMAIN ww = DOMAIN ss
  BY DEF StepsWritten
<1>5. ASSUME NEW k \in DOMAIN ss
      PROVE  /\ ww[k] \in StepRow
             /\ ww[k].role = ss[k].role
             /\ \/ ww[k].status = ss[k].status
                \/ k \in DOMAIN h.steps /\ ww[k].status = h.steps[k].status
  <2>1. ss[k] \in StepRow
    BY <1>2
  <2>2. CASE k \in h.dirtySteps
    <3>1. k \in DOMAIN h.steps
      BY <1>1, <2>2 DEF HandlingCoherent
    <3>2. h.steps[k] \in StepRow
      BY <1>2, <3>1
    <3>3. QED
      BY <1>3, <2>1, <2>2, <3>1, <3>2 DEF StepRow
  <2>3. CASE k \notin h.dirtySteps
    BY <1>3, <2>1, <2>3
  <2>4. QED
    BY <2>2, <2>3
<1>6. ww \in Seq(StepRow)
  <2>1. ww = [k \in 1..Len(ss) |-> ww[k]]
    BY <1>2 DEF StepsWritten
  <2>2. \A k \in 1..Len(ss) : ww[k] \in StepRow
    BY <1>2, <1>5
  <2>3. Len(ss) \in Nat
    BY <1>2
  <2> HIDE DEF ww, ss
  <2>4. QED
    BY <2>1, <2>2, <2>3
<1>7. SameRoles(ww, ss)
  BY <1>4, <1>5 DEF SameRoles
<1>8. StepsEarned(acts, ss, ww, r)
  BY <1>1, <1>4, <1>5, StepsMixed DEF CallEarned
<1>9. QED
  BY <1>6, <1>7, <1>8

LEMMA AdvancedEarned ==
  ASSUME NEW A, NEW P, NEW ss, NEW r, NEW row \in RequestRow,
         RowEarned(A, P, ss, row, r),
         TookBy(A, ss, "approve", r, row.currentStep + 1)
  PROVE  /\ Advanced(row) \in RequestRow
         /\ Advanced(row).requester = row.requester
         /\ Advanced(row).totalSteps = row.totalSteps
         /\ RowEarned(A, P, ss, Advanced(row), r)
<1>1. /\ row.currentStep \in Nat /\ row.totalSteps \in Nat \ {0}
      /\ row = [status |-> row.status, currentStep |-> row.currentStep,
                totalSteps |-> row.totalSteps, requester |-> row.requester]
      /\ row.requester \in Employees
  BY DEF RequestRow
<1>2. \A k \in 1..(row.currentStep + 1) : TookBy(A, ss, "approve", r, k)
  BY <1>1 DEF RowEarned
<1>3. CASE row.currentStep < row.totalSteps - 1
  <2> DEFINE j == row.currentStep + 1
             e == "escalated"
             w == [row EXCEPT !.currentStep = j, !.status = e]
  <2>1. Advanced(row) = w
    BY <1>3 DEF Advanced
  <2>2. j \in Nat /\ e \in Open \cup Decided
    BY <1>1 DEF Open
  <2>3. \A k \in 1..j : TookBy(A, ss, "approve", r, k)
    BY <1>2
  <2>4. 1 \in 1..j
    BY <1>1
  <2> HIDE DEF j, e
  <2>5. /\ w \in RequestRow /\ w.requester = row.requester
        /\ w.totalSteps = row.totalSteps
        /\ w.currentStep = j /\ w.status = e
    BY <2>2 DEF RequestRow
  <2> HIDE DEF w
  <2>6. TookBy(A, ss, "approve", r, 1)
    BY <2>3, <2>4
  <2>7. RowEarned(A, P, ss, w, r)
    BY <2>3, <2>5, <2>6 DEF RowEarned, e
  <2>8. QED
    BY <2>1, <2>5, <2>7
<1>4. CASE ~(row.currentStep < row.totalSteps - 1)
  <2> DEFINE w == [row EXCEPT !.status = "approved"]
  <2>1. Advanced(row) = w
    BY <1>4 DEF Advanced
  <2>2. /\ w \in RequestRow /\ w.requester = row.requester
        /\ w.totalSteps = row.totalSteps
        /\ w.currentStep = row.currentStep /\ w.status = "approved"
    BY <1>1 DEF RequestRow, Decided
  <2> HIDE DEF w
  <2>3. \A k \in 1..row.totalSteps : TookBy(A, ss, "approve", r, k)
    BY <1>1, <1>2, <1>4
  <2>4. RowEarned(A, P, ss, w, r)
    BY <1>2, <2>2, <2>3 DEF RowEarned
  <2>5. QED
    BY <2>1, <2>2, <2>4
<1>5. QED
  BY <1>3, <1>4

LEMMA UpdateStepStep ==
  ASSUME IInv, NEW c \in Calls, UpdateStep(c)
  PROVE  IInv'
<1> DEFINE h == call[c]
           r == h.req
           row == IF h.op = "approve" THEN Advanced(h.row) ELSE h.row
           g == [h EXCEPT !.row = row, !.pc = "saveRequest"]
<1>1. /\ h \in Handling /\ r \in Requests /\ Exists(r)
      /\ HandlingCoherent(h, request[r], steps[r])
      /\ CallEarned(acts, past, steps[r], h)
      /\ request[r] \in RequestRow
      /\ RowEarned(acts, past, steps[r], request[r], r)
  BY CopyFacts DEF UpdateStep, At
<1>2. /\ StepsWritten(c) \in Seq(StepRow)
      /\ SameRoles(StepsWritten(c), steps[r])
      /\ StepsEarned(acts, steps[r], StepsWritten(c), r)
  BY Written DEF UpdateStep
<1>3. h.row \in RequestRow /\ h.pc = "updateStep"
  BY <1>1 DEF Handling, UpdateStep, At
<1>4. /\ row \in RequestRow
      /\ row.requester = h.row.requester /\ row.totalSteps = h.row.totalSteps
      /\ RowEarned(acts, past, steps[r], row, r)
  BY <1>1, <1>3, AdvancedEarned DEF CallEarned
<1> HIDE DEF row
<1>5. /\ g \in Handling
      /\ g.pc = "saveRequest" /\ g.steps = h.steps /\ g.row = row /\ g.req = r
      /\ g.dirtySteps = h.dirtySteps
  BY <1>1, <1>4 DEF Handling
<1>6. /\ call' = [call EXCEPT ![c] = g]
      /\ steps' = [steps EXCEPT ![r] = StepsWritten(c)]
      /\ UNCHANGED <<request, past, acts>>
  BY DEF UpdateStep, row
<1> HIDE DEF g
<1>7. HandlingCoherent(g, request[r], steps[r]) /\ CallEarned(acts, past, steps[r], g)
  BY <1>1, <1>4, <1>5 DEF HandlingCoherent, CallEarned
<1>8. /\ call' \in [Calls -> {Idle} \cup Creation \cup Handling]
      /\ call'[c] = g
      /\ \A d \in Calls : d # c => call'[d] = call[d]
  BY <1>5, <1>6 DEF IInv, TypeOK
<1>9. request' = [request EXCEPT ![r] = request[r]]
  BY <1>6 DEF IInv, TypeOK
<1>10. RowEarned(acts, past, steps[r], request[r], r)
  BY <1>1
<1> HIDE DEF h, r
<1>11. /\ call'[c] \in Handling /\ call'[c].req = r
       /\ HandlingCoherent(call'[c], request[r], steps[r])
       /\ CallEarned(acts, past, steps[r], call'[c])
  BY <1>5, <1>7, <1>8
<1>12. QED
  BY <1>1, <1>2, <1>6, <1>8, <1>9, <1>10, <1>11, TableStep

LEMMA UpdateRequestStep ==
  ASSUME IInv, NEW c \in Calls, UpdateRequest(c)
  PROVE  IInv'
<1> DEFINE h == call[c]
           r == h.req
           u == request[r]
           w == RowWritten(c)
<1>1. /\ h \in Handling /\ r \in Requests /\ Exists(r)
      /\ HandlingCoherent(h, u, steps[r])
      /\ CallEarned(acts, past, steps[r], h)
      /\ u \in RequestRow
      /\ RowEarned(acts, past, steps[r], u, r)
  BY CopyFacts DEF UpdateRequest, At
<1>2. /\ StepsWritten(c) \in Seq(StepRow)
      /\ SameRoles(StepsWritten(c), steps[r])
      /\ StepsEarned(acts, steps[r], StepsWritten(c), r)
  BY Written DEF UpdateRequest
<1>3. h.row \in RequestRow
  BY <1>1 DEF Handling
<1>4. /\ w \in RequestRow
      /\ w.requester = u.requester /\ w.totalSteps = u.totalSteps
      /\ w.status \in {u.status, h.row.status}
      /\ w.currentStep \in {u.currentStep, h.row.currentStep}
  BY <1>1, <1>3 DEF RowWritten, RequestRow
<1> HIDE DEF w
<1>5. RowEarned(acts, past, steps[r], w, r)
  <2>1. h.row.totalSteps = u.totalSteps /\ h.row.requester = u.requester
    BY <1>1 DEF HandlingCoherent
  <2>2. RowEarned(acts, past, steps[r], h.row, r)
    BY <1>1 DEF CallEarned
  <2>3. QED
    BY <1>1, <1>3, <1>4, <2>1, <2>2, RowMixed
<1>6. /\ request' = [request EXCEPT ![r] = w]
      /\ steps' = [steps EXCEPT ![r] = StepsWritten(c)]
      /\ call' = [call EXCEPT ![c] = Idle]
      /\ UNCHANGED <<past, acts>>
  BY DEF UpdateRequest, Return, w
<1>7. /\ call' \in [Calls -> {Idle} \cup Creation \cup Handling]
      /\ call'[c] = Idle
      /\ \A d \in Calls : d # c => call'[d] = call[d]
  BY <1>6 DEF IInv, TypeOK
<1>8. QED
  BY <1>1, <1>2, <1>4, <1>5, <1>6, <1>7, TableStep

-----------------------------------------------------------------------------
LEMMA InitInv == Init => IInv
<1> SUFFICES ASSUME Init PROVE IInv
  OBVIOUS
<1>1. TypeOK
  BY DEF Init, TypeOK
<1>2. Coherent
  BY Shapes DEF Init, Coherent, Exists
<1>3. Earned
  BY Shapes DEF Init, Earned, Exists, StepsEarned
<1>4. QED
  BY <1>1, <1>2, <1>3 DEF IInv

LEMMA NextInv == IInv /\ [Next]_vars => IInv'
<1> SUFFICES ASSUME IInv, [Next]_vars PROVE IInv'
  OBVIOUS
<1>1. ASSUME NEW c \in Calls, Begin(c)
      PROVE  IInv'
  BY <1>1, CreateStep, LoadStep DEF Begin
<1>2. ASSUME NEW c \in Calls, Continue(c)
      PROVE  IInv'
  <2>1. CASE InsertSteps(c)
    BY <2>1, InsertStepsStep
  <2>2. CASE ProcessExpired(c)
    BY <2>2, ProcessExpiredStep
  <2>3. CASE ProcessRefused(c)
    BY <2>3, ReturnStep DEF ProcessRefused
  <2>4. CASE ProcessReject(c)
    BY <2>4, ProcessStep
  <2>5. CASE ProcessApprove(c)
    BY <2>5, ProcessStep
  <2>6. CASE CancelRefused(c)
    BY <2>6, ReturnStep DEF CancelRefused
  <2>7. CASE CancelAccepted(c)
    BY <2>7, CancelAcceptedStep
  <2>8. CASE SaveStep(c)
    BY <2>8, CompareStep
  <2>9. CASE UpdateStep(c)
    BY <2>9, UpdateStepStep
  <2>10. CASE SaveRefused(c)
    BY <2>10, ReturnStep DEF SaveRefused
  <2>11. CASE SaveRequest(c)
    BY <2>11, CompareStep
  <2>12. CASE UpdateRequest(c)
    BY <2>12, UpdateRequestStep
  <2>13. QED
    BY <1>2, <2>1, <2>2, <2>3, <2>4, <2>5, <2>6, <2>7, <2>8, <2>9, <2>10, <2>11, <2>12
       DEF Continue
<1>3. ASSUME NEW c \in Calls, Fail(c)
      PROVE  IInv'
  BY <1>3, ReturnStep DEF Fail
<1>4. ASSUME NEW r \in Requests, Expire(r)
      PROVE  IInv'
  BY <1>4, ExpireStep
<1>5. CASE UNCHANGED vars
  <2>1. TypeOK'
    BY <1>5 DEF vars, IInv, TypeOK
  <2>2. Coherent'
    BY <1>5 DEF vars, IInv, Coherent, Exists
  <2>3. Earned'
    BY <1>5 DEF vars, IInv, Earned, Exists
  <2>4. QED
    BY <2>1, <2>2, <2>3 DEF IInv
<1>6. QED
  BY <1>1, <1>2, <1>3, <1>4, <1>5 DEF Next

LEMMA Invariance == Spec => []IInv
BY InitInv, NextInv, PTL DEF Spec

LEMMA TookIsTookBy ==
  ASSUME NEW r, NEW op, NEW k
  PROVE  Took(op, r, k) <=> TookBy(acts, steps[r], op, r, k)
BY DEF Took, TookBy

-----------------------------------------------------------------------------
\* The tables, the copies and the recorded decisions keep their types, in
\* particular every status is one of the enums' (approval-request.entity.ts).
THEOREM TypeCorrect == Spec => []TypeOK
<1>1. IInv => TypeOK
  BY DEF IInv
<1>2. QED
  BY <1>1, Invariance, PTL

\* No interleaving of processStep and cancelRequest, stale or failing, takes a
\* request past a step that nobody of the step's role approved.
THEOREM ChainIsRespected == Spec => []ChainRespected
<1>1. ASSUME IInv
      PROVE  ChainRespected
  <2> SUFFICES ASSUME NEW r \in Requests
               PROVE  /\ \A k \in 1..request[r].currentStep : Took("approve", r, k)
                      /\ request[r].status = "escalated" => Took("approve", r, 1)
                      /\ request[r].status = "approved" =>
                           \A k \in 1..request[r].totalSteps : Took("approve", r, k)
    BY DEF ChainRespected
  <2>1. CASE Exists(r)
    BY <1>1, <2>1, TookIsTookBy DEF IInv, Earned, RowEarned
  <2>2. CASE ~Exists(r)
    BY <2>2 DEF Exists, NoRequest
  <2>3. QED
    BY <2>1, <2>2
<1>2. QED
  BY <1>1, Invariance, PTL

\* Rejections, cancellations, expiries and the statuses of the steps are each
\* backed by someone entitled to them, or by the clock.
THEOREM DecisionsAreEarned == Spec => []DecisionsEarned
<1>1. ASSUME IInv
      PROVE  DecisionsEarned
  <2>1. ASSUME NEW r \in Requests
        PROVE  /\ request[r].status = "rejected" =>
                    \E k \in 1..request[r].totalSteps : Took("reject", r, k)
               /\ request[r].status = "cancelled" =>
                    [op |-> "cancel", user |-> request[r].requester, req |-> r, step |-> 0]
                      \in acts
               /\ request[r].status = "expired" => r \in past
    <3>1. CASE Exists(r)
      BY <1>1, <3>1, TookIsTookBy DEF IInv, Earned, RowEarned
    <3>2. CASE ~Exists(r)
      BY <3>2 DEF Exists, NoRequest
    <3>3. QED
      BY <3>1, <3>2
  <2>2. ASSUME NEW r \in Requests, NEW k \in DOMAIN steps[r]
        PROVE  /\ steps[r][k].status = "approved" => Took("approve", r, k)
               /\ steps[r][k].status = "rejected" => Took("reject", r, k)
    BY <1>1, TookIsTookBy DEF IInv, Earned, StepsEarned
  <2>3. QED
    BY <2>1, <2>2 DEF DecisionsEarned
<1>2. QED
  BY <1>1, Invariance, PTL

\* Such a request is pending, cancelled or expired, and waits at no step.
LEMMA OrphansHold ==
  ASSUME IInv
  PROVE  OrphanUndecided
<1> SUFFICES ASSUME NEW r \in Requests, Exists(r), steps[r] = << >>
             PROVE  /\ request[r].status \in {"pending", "cancelled", "expired"}
                    /\ request[r].currentStep = 0
  BY DEF OrphanUndecided
<1>1. \A op, k : ~TookBy(acts, steps[r], op, r, k)
  BY DEF TookBy
<1>2. request[r] \in RequestRow /\ RowEarned(acts, past, steps[r], request[r], r)
  BY DEF IInv, TypeOK, Earned, Exists
<1>3. /\ request[r].status \in Open \cup Decided
      /\ request[r].currentStep \in Nat
      /\ request[r].totalSteps \in Nat \ {0}
  BY <1>2 DEF RequestRow
<1>4. 1 \in 1..request[r].totalSteps
  BY <1>3
<1>5. request[r].currentStep = 0
  BY <1>1, <1>2, <1>3 DEF RowEarned
<1>6. request[r].status \notin {"escalated", "approved", "rejected"}
  BY <1>1, <1>2, <1>4 DEF RowEarned
<1>7. QED
  BY <1>3, <1>5, <1>6 DEF Open, Decided

\* A request whose steps are missing is never advanced, approved or rejected.
THEOREM OrphansStayUndecided == Spec => []OrphanUndecided
  BY OrphansHold, Invariance, PTL

-----------------------------------------------------------------------------
(***************************************************************************)
(* Calls that do not overlap.  Whatever the number of calls the server      *)
(* could have, while at most one is in progress the copy it works on is the *)
(* tables', but for the change it is about to save.                         *)
(***************************************************************************)
OneAtATime == \A c, d \in InFlight : c = d

\* StepsTellProgress for the row and the steps of one request.
Told(row, ss) ==
  ss # << >> =>
    LET here == row.currentStep + 1 IN
    /\ here \in DOMAIN ss
    /\ \A k \in DOMAIN ss :
         /\ k < here => ss[k].status = "approved"
         /\ k > here => ss[k].status = "pending"
    /\ row.status = "approved" => here = Len(ss) /\ ss[here].status = "approved"
    /\ row.status = "rejected" => ss[here].status = "rejected"

\* The step that the row waits at is there, and is the user's.
Waits(row, ss, user) ==
  /\ row.status \in Open
  /\ row.currentStep + 1 \in DOMAIN ss
  /\ ss[row.currentStep + 1].role = RoleOf[user]

Verdict(op) == IF op = "reject" THEN "rejected" ELSE "approved"

\* What the call h makes of the row, once its step, if any, is saved.
Moved(h, row, ss, P) ==
  \/ h.req \in P /\ h.row = [row EXCEPT !.status = "expired"]
  \/ row.status \in Open /\ h.row = [row EXCEPT !.status = "cancelled"]
  \/ /\ Waits(row, ss, h.user)
     /\ ss[row.currentStep + 1].status = "rejected"
     /\ h.row = [row EXCEPT !.status = "rejected"]
  \/ /\ Waits(row, ss, h.user)
     /\ ss[row.currentStep + 1].status = "approved"
     /\ h.row = Advanced(row)

HasDecided(h, row, ss) ==
  /\ h.op \in {"approve", "reject"}
  /\ Waits(row, ss, h.user)
  /\ h.row = IF h.op = "reject" THEN [row EXCEPT !.status = "rejected"] ELSE row
  /\ h.steps = [ss EXCEPT ![row.currentStep + 1].status = Verdict(h.op)]
  /\ h.pc = "updateStep" =>
       h.dirtySteps = {k \in {row.currentStep + 1} : h.steps[k].status # ss[k].status}

\* The copy of a call that handles a request, against its row and its steps.
Copied(h, row, ss, P) ==
  /\ h.pc = "decide" => h.row = row /\ h.steps = ss
  /\ h.pc \in {"saveStep", "updateStep"} => HasDecided(h, row, ss)
  /\ h.pc \in {"saveRequest", "updateRequest"} => h.steps = ss /\ Moved(h, row, ss, P)
  /\ h.pc = "updateRequest" =>
       /\ h.dirtySteps = {}
       /\ h.dirty = {f \in {"status", "currentStep"} : h.row[f] # row[f]}

\* The steps that a creating call is about to insert are those of a chain.
OfAChain(h) ==
  \E trigger \in Triggers, amount \in Amounts :
    /\ Len(h.steps) = Len(ApprovalChain(trigger, amount))
    /\ \A k \in 1..Len(h.steps) : h.steps[k].role = ApprovalChain(trigger, amount)[k]

SeqInv ==
  /\ \A r \in Requests : Told(request[r], steps[r])
  /\ \A c \in Calls : call[c] \in Creation => OfAChain(call[c])
  /\ \A c \in Calls : call[c] \in Handling =>
       Copied(call[c], request[call[c].req], steps[call[c].req], past)

-----------------------------------------------------------------------------
(***************************************************************************)
(* The rows and the steps that the calls write keep telling the same story. *)
(***************************************************************************)
LEMMA ToldMoved ==
  ASSUME NEW h, NEW row \in RequestRow, NEW ss \in Seq(StepRow), NEW P,
         Told(row, ss), Moved(h, row, ss, P),
         ss # << >> => Len(ss) = row.totalSteps
  PROVE  Told(h.row, ss)
<1> SUFFICES ASSUME ss # << >> PROVE Told(h.row, ss)
  BY DEF Told
<1> DEFINE here == row.currentStep + 1
<1>1. /\ row.currentStep \in Nat /\ Len(ss) = row.totalSteps /\ Len(ss) \in Nat
      /\ DOMAIN ss = 1..Len(ss) /\ here \in DOMAIN ss
      /\ \A k \in DOMAIN ss : /\ k < here => ss[k].status = "approved"
                              /\ k > here => ss[k].status = "pending"
  BY DEF Told, RequestRow
<1>2. ASSUME NEW status \in {"expired", "cancelled", "rejected"},
             h.row = [row EXCEPT !.status = status],
             status = "rejected" => ss[here].status = "rejected"
      PROVE  Told(h.row, ss)
  <2>1. h.row.status = status /\ h.row.currentStep = row.currentStep
    BY <1>2 DEF RequestRow
  <2> QED BY <1>1, <1>2, <2>1 DEF Told
<1>3. ASSUME Waits(row, ss, h.user), ss[here].status = "approved", h.row = Advanced(row)
      PROVE  Told(h.row, ss)
  <2>1. CASE row.currentStep < row.totalSteps - 1
    <3>1. h.row.status = "escalated" /\ h.row.currentStep = here
      BY <1>3, <2>1 DEF Advanced, RequestRow
    <3>2. here + 1 \in DOMAIN ss
      BY <1>1, <2>1
    <3>3. \A k \in DOMAIN ss : /\ k < here + 1 => ss[k].status = "approved"
                               /\ k > here + 1 => ss[k].status = "pending"
      <4> TAKE k \in DOMAIN ss
      <4>1. k \in Nat /\ here \in Nat
        BY <1>1
      <4>2. (k < here + 1 => k < here \/ k = here) /\ (k > here + 1 => k > here)
        BY <4>1
      <4> QED BY <1>1, <1>3, <4>2
    <3> QED BY <3>1, <3>2, <3>3 DEF Told
  <2>2. CASE ~(row.currentStep < row.totalSteps - 1)
    <3>1. h.row.status = "approved" /\ h.row.currentStep = row.currentStep
      BY <1>3, <2>2 DEF Advanced, RequestRow
    <3>2. here = Len(ss)
      BY <1>1, <2>2
    <3> QED BY <1>1, <1>3, <3>1, <3>2 DEF Told
  <2> QED BY <2>1, <2>2
<1> QED BY <1>2, <1>3 DEF Moved

\* Deciding the step that an open row waits at.
LEMMA ToldDecided ==
  ASSUME NEW row \in RequestRow, NEW ss \in Seq(StepRow), NEW user,
         Told(row, ss), Waits(row, ss, user),
         NEW tt, DOMAIN tt = DOMAIN ss,
         tt[row.currentStep + 1].role = ss[row.currentStep + 1].role,
         \A k \in DOMAIN ss : k # row.currentStep + 1 => tt[k] = ss[k]
  PROVE  Told(row, tt) /\ Waits(row, tt, user)
<1> DEFINE here == row.currentStep + 1
<1>1. row.currentStep \in Nat /\ here \in DOMAIN ss /\ DOMAIN ss = 1..Len(ss) /\ ss # << >>
  BY DEF Waits, RequestRow
<1>2. row.status \notin {"approved", "rejected"}
  BY DEF Waits, Open
<1>3. Waits(row, tt, user)
  BY DEF Waits
<1>4. Told(row, tt)
  <2>1. \A k \in DOMAIN tt : /\ k < here => tt[k].status = "approved"
                             /\ k > here => tt[k].status = "pending"
    <3> TAKE k \in DOMAIN tt
    <3>1. k \in DOMAIN ss /\ (k < here \/ k > here => k # here)
      BY <1>1
    <3>2. /\ k < here => ss[k].status = "approved"
          /\ k > here => ss[k].status = "pending"
      BY <1>1, <3>1 DEF Told
    <3> QED BY <3>1, <3>2
  <2> QED BY <1>1, <1>2, <2>1 DEF Told
<1> QED BY <1>3, <1>4

\* The step rows after stepRepo.save are the copy's.
LEMMA StepsSaved ==
  ASSUME NEW c, NEW row \in RequestRow, NEW ss \in Seq(StepRow),
         ss = steps[call[c].req], call[c].pc = "updateStep", HasDecided(call[c], row, ss)
  PROVE  StepsWritten(c) = call[c].steps
<1> DEFINE h == call[c]
           here == row.currentStep + 1
<1>1. /\ here \in DOMAIN ss
      /\ h.steps = [ss EXCEPT ![here] = [ss[here] EXCEPT !.status = Verdict(h.op)]]
      /\ h.dirtySteps = {k \in {here} : h.steps[k].status # ss[k].status}
  BY DEF HasDecided, Waits
<1>2. ss[here] \in StepRow
  BY <1>1
<1>3. h.steps[here] = [ss[here] EXCEPT !.status = Verdict(h.op)]
  BY <1>1
<1>4. h.steps[here].status = Verdict(h.op)
  BY <1>2, <1>3 DEF StepRow
<1>5. here \notin h.dirtySteps => h.steps[here] = ss[here]
  <2> SUFFICES ASSUME here \notin h.dirtySteps PROVE h.steps[here] = ss[here]
    OBVIOUS
  <2>1. Verdict(h.op) = ss[here].status
    BY <1>1, <1>4
  <2> QED BY <1>2, <1>3, <2>1 DEF StepRow
<1>6. \A k \in DOMAIN ss : StepsWritten(c)[k] = h.steps[k]
  <2> TAKE k \in DOMAIN ss
  <2>1. CASE k = here /\ here \in h.dirtySteps
    BY <1>3, <1>4, <2>1 DEF StepsWritten
  <2>2. CASE k = here /\ here \notin h.dirtySteps
    BY <1>5, <2>2 DEF StepsWritten
  <2>3. CASE k # here
    BY <1>1, <2>3 DEF StepsWritten
  <2> QED BY <2>1, <2>2, <2>3
<1>7. StepsWritten(c) = [k \in DOMAIN ss |-> StepsWritten(c)[k]]
  BY DEF StepsWritten
<1>8. h.steps = [k \in DOMAIN ss |-> h.steps[k]]
  BY <1>1
<1> QED BY <1>6, <1>7, <1>8

\* The rows after requestRepo.save are the copy's.
LEMMA RowsSaved ==
  ASSUME NEW c, NEW row \in RequestRow, NEW ss \in Seq(StepRow),
         row = request[call[c].req], ss = steps[call[c].req],
         call[c].row \in RequestRow,
         call[c].row.requester = row.requester, call[c].row.totalSteps = row.totalSteps,
         call[c].dirtySteps = {},
         call[c].dirty = {f \in {"status", "currentStep"} : call[c].row[f] # row[f]}
  PROVE  RowWritten(c) = call[c].row /\ StepsWritten(c) = ss
<1> DEFINE u == call[c].row
           w == RowWritten(c)
<1>1. /\ w = [row EXCEPT
            !.status = IF "status" \in call[c].dirty THEN u.status ELSE row.status,
            !.currentStep = IF "currentStep" \in call[c].dirty THEN u.currentStep
                            ELSE row.currentStep]
  BY DEF RowWritten
<1>2. ("status" \in call[c].dirty <=> u.status # row.status)
      /\ ("currentStep" \in call[c].dirty <=> u.currentStep # row.currentStep)
  OBVIOUS
<1> HIDE DEF w
<1>3. w = [row EXCEPT !.status = u.status, !.currentStep = u.currentStep]
  BY <1>1, <1>2
<1>4. w = [status |-> u.status, currentStep |-> u.currentStep,
           totalSteps |-> u.totalSteps, requester |-> u.requester]
  BY <1>3 DEF RequestRow
<1>5. u = [status |-> u.status, currentStep |-> u.currentStep,
           totalSteps |-> u.totalSteps, requester |-> u.requester]
  BY DEF RequestRow
<1>6. StepsWritten(c) = ss
  BY DEF StepsWritten
<1> QED BY <1>4, <1>5, <1>6 DEF w

-----------------------------------------------------------------------------
(***************************************************************************)
(* The steps of calls that do not overlap, one lemma for each.              *)
(***************************************************************************)
\* A step that leaves the tables alone.
LEMMA SeqCopy ==
  ASSUME IInv, SeqInv, NEW c \in Calls, UNCHANGED <<request, steps, past>>,
         NEW h, call' = [call EXCEPT ![c] = h],
         h \in Creation => OfAChain(h),
         h \in Handling => Copied(h, request[h.req], steps[h.req], past)
  PROVE  SeqInv'
<1>1. call'[c] = h /\ \A d \in Calls : d # c => call'[d] = call[d]
  BY DEF IInv, TypeOK
<1>2. \A r \in Requests : Told(request'[r], steps'[r])
  BY DEF SeqInv
<1>3. ASSUME NEW d \in Calls, call'[d] \in Creation PROVE OfAChain(call'[d])
  BY <1>1, <1>3 DEF SeqInv
<1>4. ASSUME NEW d \in Calls, call'[d] \in Handling
      PROVE  Copied(call'[d], request'[call'[d].req], steps'[call'[d].req], past')
  BY <1>1, <1>4 DEF SeqInv
<1> QED BY <1>2, <1>3, <1>4 DEF SeqInv

LEMMA SeqReturn ==
  ASSUME IInv, SeqInv, NEW c \in Calls, Return(c), UNCHANGED <<request, steps, past>>
  PROVE  SeqInv'
  BY SeqCopy, Shapes DEF Return

\* A step that writes a table: no other call is in progress.
LEMMA SeqWrite ==
  ASSUME IInv, SeqInv, OneAtATime, OneAtATime', past' = past,
         NEW c \in Calls, NEW r \in Requests, NEW h, call' = [call EXCEPT ![c] = h],
         call[c].pc # "idle" \/ h.pc # "idle",
         \A q \in Requests : q # r => request'[q] = request[q] /\ steps'[q] = steps[q],
         Told(request'[r], steps'[r]),
         h \in Creation => OfAChain(h),
         h \in Handling => h.req = r /\ Copied(h, request'[r], steps'[r], past)
  PROVE  SeqInv'
<1>1. call'[c] = h /\ \A d \in Calls : d # c => call'[d] = call[d]
  BY DEF IInv, TypeOK
<1>2. \A d \in Calls : d # c => call'[d].pc = "idle"
  <2> SUFFICES ASSUME NEW d \in Calls, d # c, call'[d].pc # "idle" PROVE FALSE
    OBVIOUS
  <2>1. call[d].pc # "idle"
    BY <1>1
  <2>2. (c \in InFlight /\ d \in InFlight) \/ (c \in InFlight' /\ d \in InFlight')
    BY <1>1, <2>1 DEF InFlight
  <2> QED BY <2>2 DEF OneAtATime
<1>3. \A d \in Calls : call'[d] \in Creation \cup Handling => d = c
  BY <1>2 DEF Creation, Handling
<1>4. \A q \in Requests : Told(request'[q], steps'[q])
  BY DEF SeqInv
<1>5. ASSUME NEW d \in Calls, call'[d] \in Creation PROVE OfAChain(call'[d])
  BY <1>1, <1>3, <1>5
<1>6. ASSUME NEW d \in Calls, call'[d] \in Handling
      PROVE  Copied(call'[d], request'[call'[d].req], steps'[call'[d].req], past')
  BY <1>1, <1>3, <1>6
<1> QED BY <1>4, <1>5, <1>6 DEF SeqInv

LEMMA SeqCreate ==
  ASSUME IInv, SeqInv, OneAtATime, OneAtATime', NEW c \in Calls, NEW user \in Employees,
         NEW trigger \in Triggers, NEW amount \in Amounts, NEW r \in Requests,
         Create(c, user, trigger, amount, r)
  PROVE  SeqInv'
<1> DEFINE chain == ApprovalChain(trigger, amount)
           ss == [k \in 1..Len(chain) |-> [role |-> chain[k], status |-> "pending"]]
           h == [pc |-> "insertSteps", op |-> "create", user |-> user, req |-> r,
                 row |-> NoRequest, dirty |-> {}, dirtySteps |-> {}, steps |-> ss]
<1>1. /\ call' = [call EXCEPT ![c] = h] /\ steps' = steps /\ past' = past
      /\ \A q \in Requests : q # r => request'[q] = request[q]
  BY DEF Create, IInv, TypeOK
<1>2. steps[r] = << >>
  BY DEF Create, IInv, Coherent
<1>3. Told(request'[r], steps'[r])
  BY <1>1, <1>2 DEF Told
<1>4. Len(chain) \in Nat
  BY ChainShape, TriggersAssumption, AmountsAssumption
<1>5. Len(ss) = Len(chain) /\ \A k \in 1..Len(ss) : ss[k].role = chain[k]
  <2> HIDE DEF chain
  <2> QED BY <1>4
<1>6. OfAChain(h)
  <2>1. h.steps = ss
    OBVIOUS
  <2> HIDE DEF h, ss
  <2> QED BY <1>5, <2>1 DEF OfAChain
<1>7. h.pc = "insertSteps" /\ h \notin Handling
  BY DEF Handling
<1> HIDE DEF h
<1> QED BY <1>1, <1>3, <1>6, <1>7, SeqWrite

\* A call that handles a request, with what it works on.
LEMMA SeqFacts ==
  ASSUME IInv, SeqInv, NEW c \in Calls, call[c].pc # "idle", call[c].pc # "insertSteps"
  PROVE  LET h == call[c]
             row == request[h.req]
             ss == steps[h.req] IN
         /\ h \in Handling /\ h.req \in Requests /\ Exists(h.req)
         /\ h.row \in RequestRow /\ h.steps \in Seq(StepRow)
         /\ h.user \in Employees /\ h.op \in {"approve", "reject", "cancel"}
         /\ row \in RequestRow /\ ss \in Seq(StepRow)
         /\ h.row.requester = row.requester /\ h.row.totalSteps = row.totalSteps
         /\ ss # << >> => Len(ss) = row.totalSteps
         /\ Told(row, ss)
         /\ Copied(h, row, ss, past)
<1>1. /\ call[c] \in Handling /\ call[c].req \in Requests /\ Exists(call[c].req)
      /\ HandlingCoherent(call[c], request[call[c].req], steps[call[c].req])
      /\ request[call[c].req] \in RequestRow
  BY CopyFacts
<1>2. /\ call[c].row \in RequestRow /\ call[c].steps \in Seq(StepRow)
      /\ call[c].user \in Employees /\ call[c].op \in {"approve", "reject", "cancel"}
  BY <1>1 DEF Handling
<1>3. steps[call[c].req] \in Seq(StepRow)
  BY <1>1 DEF IInv, TypeOK
<1>4. steps[call[c].req] # << >> => Len(steps[call[c].req]) = request[call[c].req].totalSteps
  BY <1>1 DEF IInv, Coherent
<1>5. Told(request[call[c].req], steps[call[c].req])
      /\ Copied(call[c], request[call[c].req], steps[call[c].req], past)
  BY <1>1 DEF SeqInv
<1>6. /\ call[c].row.requester = request[call[c].req].requester
      /\ call[c].row.totalSteps = request[call[c].req].totalSteps
  BY <1>1 DEF HandlingCoherent
<1> QED BY <1>1, <1>2, <1>3, <1>4, <1>5, <1>6

LEMMA SeqLoad ==
  ASSUME IInv, SeqInv, NEW c \in Calls, NEW user, NEW op, NEW r, Load(c, user, op, r)
  PROVE  SeqInv'
<1> DEFINE h == [pc |-> "decide", op |-> op, user |-> user, req |-> r,
                 row |-> request[r], steps |-> steps[r], dirty |-> {}, dirtySteps |-> {}]
<1>1. call' = [call EXCEPT ![c] = h] /\ UNCHANGED <<request, steps, past>>
  BY DEF Load
<1>2. h.pc = "decide" /\ h.row = request[r] /\ h.steps = steps[r] /\ h.req = r
  OBVIOUS
<1> HIDE DEF h
<1>3. h \notin Creation
  BY <1>2 DEF Creation
<1>4. Copied(h, request[h.req], steps[h.req], past)
  BY <1>2 DEF Copied
<1> QED BY <1>1, <1>3, <1>4, SeqCopy

\* A call that is to save the row it has put a final status on.
LEMMA SeqClose ==
  ASSUME IInv, SeqInv, NEW c \in Calls, NEW status \in {"expired", "cancelled"}, At(c, "decide"),
         UNCHANGED <<request, steps, past>>,
         status = "expired" => call[c].req \in past,
         status = "cancelled" => call[c].row.status \in Open,
         call' = [call EXCEPT ![c].row.status = status, ![c].pc = "saveRequest"]
  PROVE  SeqInv'
<1> DEFINE h == call[c]
           row == request[h.req]
           ss == steps[h.req]
           g == [h EXCEPT !.row = [h.row EXCEPT !.status = status], !.pc = "saveRequest"]
<1>1. h \in Handling /\ Copied(h, row, ss, past) /\ h.pc = "decide"
  BY SeqFacts DEF At
<1>2. h.row = row /\ h.steps = ss
  BY <1>1 DEF Copied
<1>3. /\ g.pc = "saveRequest" /\ g.row = [row EXCEPT !.status = status]
      /\ g.steps = ss /\ g.req = h.req
  <2> HIDE DEF row, ss
  <2> QED BY <1>1, <1>2 DEF Handling
<1>4. call' = [call EXCEPT ![c] = g]
  OBVIOUS
<1> HIDE DEF g
<1>5. Moved(g, row, ss, past)
  BY <1>2, <1>3 DEF Moved
<1>6. Copied(g, row, ss, past)
  BY <1>3, <1>5 DEF Copied
<1>7. g \notin Creation
  BY <1>3 DEF Creation
<1> QED BY <1>3, <1>4, <1>6, <1>7, SeqCopy

LEMMA SeqDecide ==
  ASSUME IInv, SeqInv, NEW c \in Calls, ProcessApprove(c) \/ ProcessReject(c)
  PROVE  SeqInv'
<1> DEFINE h == call[c]
           row == request[h.req]
           ss == steps[h.req]
           here == row.currentStep + 1
<1>1. /\ h \in Handling /\ Copied(h, row, ss, past) /\ h.pc = "decide"
      /\ row \in RequestRow /\ ss \in Seq(StepRow)
      /\ MayAct(c) /\ UNCHANGED <<request, steps, past>>
  BY SeqFacts DEF At, ProcessApprove, ProcessReject, Deciding
<1>2. h.row = row /\ h.steps = ss /\ Current(c) = here
  BY <1>1 DEF Copied, Current
<1>3. Waits(row, ss, h.user)
  <2>1. row.status \notin Decided /\ here \in DOMAIN ss /\ ss[here].role = RoleOf[h.user]
    BY <1>1, <1>2 DEF MayAct, HasCurrent, IsCurrentApprover
  <2>2. row.status \in Open
    BY <1>1, <2>1 DEF RequestRow
  <2> QED BY <2>1, <2>2 DEF Waits
<1>4. \E g : /\ call' = [call EXCEPT ![c] = g]
             /\ g.pc = "saveStep" /\ g.req = h.req /\ g.user = h.user /\ g.op = h.op
             /\ g.op \in {"approve", "reject"}
             /\ g.row = IF g.op = "reject" THEN [row EXCEPT !.status = "rejected"] ELSE row
             /\ g.steps = [ss EXCEPT ![here].status = Verdict(g.op)]
  <2> DEFINE Set(status) == [h.steps EXCEPT ![Current(c)] =
                                [h.steps[Current(c)] EXCEPT !.status = status]]
  <2>1. CASE ProcessReject(c)
    <3> DEFINE g == [h EXCEPT !.steps = Set("rejected"),
                              !.row = [h.row EXCEPT !.status = "rejected"], !.pc = "saveStep"]
    <3>1. call' = [call EXCEPT ![c] = g]
      BY <1>1, <2>1 DEF ProcessReject, Handling
    <3>2. h.op = "reject"
      BY <2>1 DEF ProcessReject, Deciding
    <3>3. /\ g.pc = "saveStep" /\ g.req = h.req /\ g.user = h.user /\ g.op = h.op
          /\ g.row = [h.row EXCEPT !.status = "rejected"] /\ g.steps = Set("rejected")
      BY <1>1 DEF Handling
    <3> HIDE DEF g
    <3>4. g.steps = [ss EXCEPT ![here].status = Verdict(g.op)]
      BY <1>2, <3>2, <3>3 DEF Verdict
    <3> QED BY <1>2, <3>1, <3>2, <3>3, <3>4
  <2>2. CASE ProcessApprove(c)
    <3> DEFINE g == [h EXCEPT !.steps = Set("approved"), !.pc = "saveStep"]
    <3>1. call' = [call EXCEPT ![c] = g]
      BY <1>1, <2>2 DEF ProcessApprove, Handling
    <3>2. h.op = "approve"
      BY <2>2 DEF ProcessApprove, Deciding
    <3>3. /\ g.pc = "saveStep" /\ g.req = h.req /\ g.user = h.user /\ g.op = h.op
          /\ g.row = h.row /\ g.steps = Set("approved")
      BY <1>1 DEF Handling
    <3> HIDE DEF g
    <3>4. g.steps = [ss EXCEPT ![here].status = Verdict(g.op)]
      BY <1>2, <3>2, <3>3 DEF Verdict
    <3> QED BY <1>2, <3>1, <3>2, <3>3, <3>4
  <2> QED BY <2>1, <2>2
<1>5. PICK g : /\ call' = [call EXCEPT ![c] = g]
               /\ g.pc = "saveStep" /\ g.req = h.req /\ g.user = h.user /\ g.op = h.op
               /\ g.op \in {"approve", "reject"}
               /\ g.row = IF g.op = "reject" THEN [row EXCEPT !.status = "rejected"] ELSE row
               /\ g.steps = [ss EXCEPT ![here].status = Verdict(g.op)]
  BY <1>4
<1>6. Copied(g, row, ss, past) /\ g \notin Creation
  BY <1>3, <1>5 DEF Copied, HasDecided, Creation
<1> QED BY <1>1, <1>5, <1>6, SeqCopy

\* The comparisons that the two saves begin with.
LEMMA SeqSaveStep ==
  ASSUME IInv, SeqInv, NEW c \in Calls, SaveStep(c)
  PROVE  SeqInv'
<1> DEFINE h == call[c]
           row == request[h.req]
           ss == steps[h.req]
           here == row.currentStep + 1
           D == {k \in {here} : h.steps[k].status # ss[k].status}
           g == [h EXCEPT !.dirtySteps = D, !.pc = "updateStep"]
<1>1. /\ h \in Handling /\ Copied(h, row, ss, past) /\ h.pc = "saveStep"
      /\ row \in RequestRow /\ UNCHANGED <<request, steps, past>>
  BY SeqFacts DEF At, SaveStep
<1>2. HasDecided(h, row, ss) /\ h.row.currentStep = row.currentStep
  BY <1>1 DEF Copied, HasDecided, RequestRow
<1>3. call' = [call EXCEPT ![c] = g]
  BY <1>2 DEF SaveStep, Differing, Current
<1>4. /\ g.pc = "updateStep" /\ g.req = h.req /\ g.user = h.user /\ g.op = h.op
      /\ g.row = h.row /\ g.steps = h.steps /\ g.dirtySteps = D
  BY <1>1 DEF Handling
<1> HIDE DEF g
<1>5. Copied(g, row, ss, past) /\ g \notin Creation
  <2>1. g.dirtySteps = {k \in {here} : g.steps[k].status # ss[k].status}
    BY <1>4
  <2>2. HasDecided(g, row, ss)
    BY <1>2, <1>4, <2>1 DEF HasDecided
  <2> QED BY <1>4, <2>2 DEF Copied, Creation
<1> QED BY <1>1, <1>3, <1>4, <1>5, SeqCopy

LEMMA SeqSaveRequest ==
  ASSUME IInv, SeqInv, NEW c \in Calls, SaveRequest(c)
  PROVE  SeqInv'
<1> DEFINE h == call[c]
           row == request[h.req]
           ss == steps[h.req]
           F == {f \in {"status", "currentStep"} : h.row[f] # row[f]}
           g == [h EXCEPT !.dirty = F, !.dirtySteps = {}, !.pc = "updateRequest"]
<1>1. /\ h \in Handling /\ Copied(h, row, ss, past) /\ h.pc = "saveRequest"
      /\ UNCHANGED <<request, steps, past>>
  BY SeqFacts DEF At, SaveRequest
<1>2. h.steps = ss /\ Moved(h, row, ss, past)
  BY <1>1 DEF Copied
<1>3. Differing(c, DOMAIN h.steps) = {}
  BY <1>2 DEF Differing
<1>4. call' = [call EXCEPT ![c] = g]
  BY <1>3 DEF SaveRequest
<1>5. /\ g.pc = "updateRequest" /\ g.req = h.req /\ g.user = h.user
      /\ g.row = h.row /\ g.steps = h.steps /\ g.dirtySteps = {} /\ g.dirty = F
  BY <1>1 DEF Handling
<1> HIDE DEF g
<1>6. Copied(g, row, ss, past) /\ g \notin Creation
  BY <1>2, <1>5 DEF Copied, Moved, Creation
<1> QED BY <1>1, <1>4, <1>5, <1>6, SeqCopy

-----------------------------------------------------------------------------
\* The steps that write the tables.
LEMMA SeqInsert ==
  ASSUME IInv, SeqInv, OneAtATime, OneAtATime', NEW c \in Calls, InsertSteps(c)
  PROVE  SeqInv'
<1> DEFINE r == call[c].req
           ss == call[c].steps
<1>1. call[c] \in Creation
  BY DEF InsertSteps, At, IInv, TypeOK, Idle, Handling
<1>2. r \in Requests /\ ss \in Seq(StepRow) /\ call[c].pc = "insertSteps"
  BY <1>1 DEF Creation
<1>3. /\ Exists(r) /\ CreationCoherent(call[c], request[r], steps[r])
  BY <1>1, Shapes DEF IInv, Coherent
<1>4. /\ request[r].status \in {"pending", "cancelled", "expired"}
      /\ request[r].currentStep = 0 /\ request[r] \in RequestRow
  BY <1>2, <1>3, OrphansHold DEF OrphanUndecided, CreationCoherent, IInv, TypeOK, Exists
<1>5. Told(request[r], ss)
  <2>1. /\ Len(ss) = request[r].totalSteps /\ DOMAIN ss = 1..Len(ss)
        /\ \A k \in DOMAIN ss : ss[k].status = "pending"
    BY <1>2, <1>3 DEF CreationCoherent
  <2>2. Len(ss) \in Nat \ {0}
    BY <1>4, <2>1 DEF RequestRow
  <2>3. 0 + 1 \in DOMAIN ss /\ \A k \in DOMAIN ss : ~(k < 0 + 1)
    BY <2>1, <2>2
  <2> QED BY <1>4, <2>1, <2>3 DEF Told
<1>6. /\ request' = request /\ past' = past /\ call' = [call EXCEPT ![c] = Idle]
      /\ steps'[r] = ss /\ \A q \in Requests : q # r => steps'[q] = steps[q]
  BY <1>2 DEF InsertSteps, Return, IInv, TypeOK
<1> HIDE DEF r, ss
<1> QED BY <1>2, <1>5, <1>6, SeqWrite, Shapes

LEMMA SeqUpdateStep ==
  ASSUME IInv, SeqInv, OneAtATime, OneAtATime', NEW c \in Calls, UpdateStep(c)
  PROVE  SeqInv' /\ SameRoles(steps'[call[c].req], steps[call[c].req])
<1> DEFINE h == call[c]
           r == h.req
           row == request[r]
           ss == steps[r]
           here == row.currentStep + 1
           u == IF h.op = "approve" THEN Advanced(h.row) ELSE h.row
           g == [h EXCEPT !.row = u, !.pc = "saveRequest"]
<1>1. /\ h \in Handling /\ r \in Requests /\ Copied(h, row, ss, past) /\ h.pc = "updateStep"
      /\ row \in RequestRow /\ ss \in Seq(StepRow) /\ Told(row, ss)
  BY SeqFacts DEF At, UpdateStep
<1>2. HasDecided(h, row, ss)
  BY <1>1 DEF Copied
<1>3. StepsWritten(c) = h.steps
  BY <1>1, <1>2, StepsSaved
<1>4. PICK tt : tt = h.steps
  OBVIOUS
<1>5. /\ tt = [ss EXCEPT ![here].status = Verdict(h.op)] /\ Waits(row, ss, h.user)
      /\ h.op \in {"approve", "reject"}
      /\ h.row = IF h.op = "reject" THEN [row EXCEPT !.status = "rejected"] ELSE row
  BY <1>2, <1>4 DEF HasDecided
<1>6. /\ Told(row, tt) /\ Waits(row, tt, h.user) /\ tt[here].status = Verdict(h.op)
  <2>1. /\ DOMAIN tt = DOMAIN ss /\ here \in DOMAIN ss
        /\ tt[here] = [ss[here] EXCEPT !.status = Verdict(h.op)]
        /\ \A k \in DOMAIN ss : k # here => tt[k] = ss[k]
    BY <1>5 DEF Waits
  <2>2. ss[here] \in StepRow
    <3> HIDE DEF here
    <3>1. here \in DOMAIN ss /\ ss \in Seq(StepRow)
      BY <1>1, <2>1
    <3> HIDE DEF ss
    <3> QED BY <3>1
  <2>3. tt[here].status = Verdict(h.op) /\ tt[here].role = ss[here].role
    BY <2>1, <2>2 DEF StepRow
  <2> QED BY <1>1, <1>5, <2>1, <2>3, ToldDecided
<1>7. /\ request' = request /\ past' = past /\ call' = [call EXCEPT ![c] = g]
      /\ steps'[r] = tt /\ \A q \in Requests : q # r => steps'[q] = steps[q]
  <2>1. /\ UNCHANGED <<request, past>> /\ call' = [call EXCEPT ![c] = g]
        /\ steps' = [steps EXCEPT ![r] = StepsWritten(c)]
    BY DEF UpdateStep
  <2>2. steps \in [Requests -> Seq(StepRow)]
    BY DEF IInv, TypeOK
  <2> HIDE DEF g
  <2> QED BY <1>1, <1>3, <1>4, <2>1, <2>2
<1>8. /\ g.pc = "saveRequest" /\ g.req = r /\ g.user = h.user /\ g.steps = tt /\ g.row = u
  BY <1>1, <1>4 DEF Handling
<1>9. Moved(g, row, tt, past)
  BY <1>5, <1>6, <1>8 DEF Moved, Verdict
<1>10. Copied(g, row, tt, past) /\ g \notin Creation
  BY <1>8, <1>9 DEF Copied, Creation
<1>11. SameRoles(tt, ss)
  <2>1. SameRoles(StepsWritten(c), ss)
    BY <1>1, Written DEF At
  <2> QED BY <1>3, <1>4, <2>1
<1> HIDE DEF g
<1>12. SeqInv'
  BY <1>1, <1>6, <1>7, <1>8, <1>10, SeqWrite
<1> QED BY <1>7, <1>11, <1>12

\* The last save writes the copy's row, and leaves the steps as they are.
LEMMA SeqUpdateRequest ==
  ASSUME IInv, SeqInv, OneAtATime, OneAtATime', NEW c \in Calls, UpdateRequest(c)
  PROVE  LET h == call[c] IN
         /\ SeqInv'
         /\ request' = [request EXCEPT ![h.req] = h.row] /\ steps' = steps
         /\ Moved(h, request[h.req], steps[h.req], past)
<1> DEFINE h == call[c]
           r == h.req
           row == request[r]
           ss == steps[r]
<1>1. /\ h \in Handling /\ r \in Requests /\ Copied(h, row, ss, past) /\ h.pc = "updateRequest"
      /\ row \in RequestRow /\ ss \in Seq(StepRow) /\ Told(row, ss)
      /\ h.row \in RequestRow
      /\ h.row.requester = row.requester /\ h.row.totalSteps = row.totalSteps
      /\ ss # << >> => Len(ss) = row.totalSteps
  BY SeqFacts DEF At, UpdateRequest
<1>2. /\ Moved(h, row, ss, past) /\ h.dirtySteps = {}
      /\ h.dirty = {f \in {"status", "currentStep"} : h.row[f] # row[f]}
  BY <1>1 DEF Copied
<1>3. RowWritten(c) = h.row /\ StepsWritten(c) = ss
  BY <1>1, <1>2, RowsSaved
<1>4. /\ request' = [request EXCEPT ![r] = h.row] /\ steps' = steps /\ past' = past
      /\ call' = [call EXCEPT ![c] = Idle]
  BY <1>1, <1>3 DEF UpdateRequest, Return, IInv, TypeOK
<1>5. Told(h.row, ss)
  BY <1>1, <1>2, ToldMoved
<1>6. /\ request'[r] = h.row /\ \A q \in Requests : q # r => request'[q] = request[q]
      /\ steps'[r] = ss
  BY <1>1, <1>4 DEF IInv, TypeOK
<1>7. SeqInv'
  BY <1>1, <1>4, <1>5, <1>6, SeqWrite, Shapes
<1> QED BY <1>2, <1>4, <1>7

LEMMA SeqExpire ==
  ASSUME IInv, SeqInv, NEW r \in Requests, Expire(r)
  PROVE  SeqInv'
<1>1. past \subseteq past' /\ UNCHANGED <<request, steps, call>>
  BY DEF Expire
<1>2. ASSUME NEW h, NEW row, NEW ss, Copied(h, row, ss, past) PROVE Copied(h, row, ss, past')
  BY <1>1, <1>2 DEF Copied, Moved
<1> QED BY <1>1, <1>2 DEF SeqInv

LEMMA SeqNext ==
  IInv /\ SeqInv /\ OneAtATime /\ OneAtATime' /\ [Next]_vars => SeqInv'
<1> SUFFICES ASSUME IInv, SeqInv, OneAtATime, OneAtATime', [Next]_vars PROVE SeqInv'
  OBVIOUS
<1>1. ASSUME NEW c \in Calls, Begin(c) PROVE SeqInv'
  BY <1>1, SeqCreate, SeqLoad DEF Begin
<1>2. ASSUME NEW c \in Calls, Continue(c) PROVE SeqInv'
  <2>1. CASE InsertSteps(c)
    BY <2>1, SeqInsert
  <2>2. CASE ProcessExpired(c)
    BY <2>2, SeqClose DEF ProcessExpired, Deciding
  <2>3. CASE ProcessRefused(c) \/ CancelRefused(c) \/ SaveRefused(c)
    BY <1>2, <2>3, SeqReturn DEF ProcessRefused, CancelRefused, SaveRefused
  <2>4. CASE ProcessReject(c) \/ ProcessApprove(c)
    BY <2>4, SeqDecide
  <2>5. CASE CancelAccepted(c)
    BY <2>5, SeqClose DEF CancelAccepted, Deciding, MayCancel
  <2>6. CASE SaveStep(c)
    BY <2>6, SeqSaveStep
  <2>7. CASE UpdateStep(c)
    BY <2>7, SeqUpdateStep
  <2>8. CASE SaveRequest(c)
    BY <2>8, SeqSaveRequest
  <2>9. CASE UpdateRequest(c)
    BY <2>9, SeqUpdateRequest
  <2> QED BY <1>2, <2>1, <2>2, <2>3, <2>4, <2>5, <2>6, <2>7, <2>8, <2>9 DEF Continue
<1>3. ASSUME NEW c \in Calls, Fail(c) PROVE SeqInv'
  BY <1>3, SeqReturn DEF Fail
<1>4. ASSUME NEW r \in Requests, Expire(r) PROVE SeqInv'
  BY <1>4, SeqExpire
<1>5. CASE UNCHANGED vars
  BY <1>5 DEF vars, SeqInv
<1> QED BY <1>1, <1>2, <1>3, <1>4, <1>5 DEF Next

LEMMA SeqInit == Init => SeqInv
<1> SUFFICES ASSUME Init PROVE SeqInv
  OBVIOUS
<1>1. \A r \in Requests : Told(request[r], steps[r])
  BY DEF Init, Told
<1>2. \A c \in Calls : call[c] \notin Creation /\ call[c] \notin Handling
  BY Shapes DEF Init
<1> QED BY <1>1, <1>2 DEF SeqInv

LEMMA SeqInvariance == Spec /\ []OneAtATime => []SeqInv
  BY SeqInit, SeqNext, Invariance, PTL DEF Spec

\* A call that dies between the save of its step and the save of its request, or
\* a chain of such calls, leaves at most the current step ahead of the request:
\* processStep writes in this order, so while calls do not overlap the step rows
\* never contradict the request's progress or its final status.
THEOREM ProgressIsTold == Spec /\ []OneAtATime => []StepsTellProgress
<1>1. SeqInv => StepsTellProgress
  BY DEF SeqInv, Told, StepsTellProgress
<1> QED BY <1>1, SeqInvariance, PTL

-----------------------------------------------------------------------------
(***************************************************************************)
(* The refinement: each step of the calls is one of the workflow, or none.  *)
(***************************************************************************)
Ticket(row, ss) ==
  [status |-> row.status, passed |-> row.currentStep, length |-> row.totalSteps,
   chain |-> [k \in 1..Len(ss) |-> ss[k].role]]

\* What the instance Workflow takes for its variable ticket.
Tickets == [r \in Requests |-> Ticket(request[r], steps[r])]

\* The actions of the workflow, read of the tickets.
LEMMA SubmitOf ==
  ASSUME NEW r
  PROVE  Workflow!Submit(r) <=>
           /\ Tickets[r] = Workflow!Absent
           /\ \E chain \in AllChains :
                Tickets' = [Tickets EXCEPT ![r] =
                  [status |-> "pending", passed |-> 0, length |-> Len(chain), chain |-> << >>]]
  BY Zenon DEF Workflow!Submit, Tickets, Ticket

LEMMA RouteOf ==
  ASSUME NEW r
  PROVE  Workflow!Route(r) <=>
           /\ Tickets[r] # Workflow!Absent
           /\ Tickets[r].chain = << >>
           /\ \E chain \in AllChains :
                /\ Len(chain) = Tickets[r].length
                /\ Tickets' = [Tickets EXCEPT ![r].chain = chain]
  BY Zenon DEF Workflow!Route, Tickets, Ticket

Awaiting(r, role) ==
  /\ Tickets[r].status \in Open
  /\ Tickets[r].passed + 1 \in DOMAIN Tickets[r].chain
  /\ Tickets[r].chain[Tickets[r].passed + 1] = role

LEMMA ApproveOf ==
  ASSUME NEW r, NEW role
  PROVE  Workflow!Approve(r, role) <=>
           /\ Awaiting(r, role)
           /\ Tickets' = [Tickets EXCEPT ![r] =
                IF Tickets[r].passed + 1 = Tickets[r].length
                  THEN [Tickets[r] EXCEPT !.status = "approved"]
                  ELSE [Tickets[r] EXCEPT !.status = "escalated",
                                          !.passed = Tickets[r].passed + 1]]
  BY Zenon DEF Workflow!Approve, Workflow!Awaits, Workflow!StillOpen, Open, Awaiting, Tickets, Ticket

LEMMA RejectOf ==
  ASSUME NEW r, NEW role
  PROVE  Workflow!Reject(r, role) <=>
           Awaiting(r, role) /\ Tickets' = [Tickets EXCEPT ![r].status = "rejected"]
  BY Zenon DEF Workflow!Reject, Workflow!Awaits, Workflow!StillOpen, Open, Awaiting, Tickets, Ticket

LEMMA CancelOf ==
  ASSUME NEW r
  PROVE  Workflow!Cancel(r) <=>
           Tickets[r].status \in Open /\ Tickets' = [Tickets EXCEPT ![r].status = "cancelled"]
  BY Zenon DEF Workflow!Cancel, Workflow!StillOpen, Open, Tickets, Ticket

LEMMA LapseOf ==
  ASSUME NEW r
  PROVE  Workflow!Lapse(r) <=>
           Tickets[r] # Workflow!Absent /\ Tickets' = [Tickets EXCEPT ![r].status = "expired"]
  BY Zenon DEF Workflow!Lapse, Tickets, Ticket

LEMMA NextOf ==
  ASSUME NEW r \in Requests, NEW role \in Roles,
         \/ Workflow!Submit(r) \/ Workflow!Route(r) \/ Workflow!Cancel(r) \/ Workflow!Lapse(r)
         \/ Workflow!Approve(r, role) \/ Workflow!Reject(r, role)
  PROVE  Workflow!Next
  BY Zenon DEF Workflow!Next

\* The ticket of the one request whose row or steps change.
LEMMA TicketChanged ==
  ASSUME NEW r \in Requests,
         \A q \in Requests : q # r => request'[q] = request[q] /\ steps'[q] = steps[q]
  PROVE  /\ Tickets[r] = Ticket(request[r], steps[r])
         /\ Tickets' = [Tickets EXCEPT ![r] = Ticket(request'[r], steps'[r])]
<1>1. Tickets' = [q \in Requests |-> Ticket(request'[q], steps'[q])]
  BY Zenon DEF Tickets, Ticket
<1>2. \A q \in Requests : q # r => Ticket(request'[q], steps'[q]) = Ticket(request[q], steps[q])
  BY Zenon
<1> QED BY <1>1, <1>2 DEF Tickets

LEMMA TicketsKept ==
  ASSUME IInv, IInv', request' = request,
         \A r \in Requests : SameRoles(steps'[r], steps[r])
  PROVE  Tickets' = Tickets
<1>1. ASSUME NEW r \in Requests PROVE Ticket(request'[r], steps'[r]) = Ticket(request[r], steps[r])
  <2>1. steps[r] \in Seq(StepRow) /\ steps'[r] \in Seq(StepRow)
    BY DEF IInv, TypeOK
  <2>2. Len(steps'[r]) = Len(steps[r]) /\ DOMAIN steps[r] = 1..Len(steps[r])
    BY <2>1 DEF SameRoles
  <2>3. \A k \in 1..Len(steps[r]) : steps'[r][k].role = steps[r][k].role
    BY <2>2 DEF SameRoles
  <2> QED BY <2>2, <2>3 DEF Ticket
<1>2. Tickets' = [q \in Requests |-> Ticket(request'[q], steps'[q])]
  BY Zenon DEF Tickets, Ticket
<1> QED BY <1>1, <1>2 DEF Tickets

LEMMA NoTicket == Ticket(NoRequest, << >>) = Workflow!Absent
<1>1. [k \in 1..Len(<< >>) |-> << >>[k].role] = << >>
  OBVIOUS
<1> QED BY <1>1 DEF Ticket, NoRequest, Workflow!Absent

LEMMA StartsAsWorkflow == Init => Workflow!Init
<1> SUFFICES ASSUME Init PROVE Workflow!Init
  OBVIOUS
<1>1. Tickets = [r \in Requests |-> Workflow!Absent]
  BY NoTicket DEF Init, Tickets
<1> QED BY <1>1, Zenon DEF Workflow!Init, Tickets, Ticket

LEMMA CreateSubmits ==
  ASSUME IInv, NEW c \in Calls, NEW user \in Employees, NEW trigger \in Triggers,
         NEW amount \in Amounts, NEW r \in Requests, Create(c, user, trigger, amount, r)
  PROVE  Workflow!Next
<1> DEFINE chain == ApprovalChain(trigger, amount)
           row == [status |-> "pending", currentStep |-> 0, totalSteps |-> Len(chain),
                   requester |-> user]
<1>1. /\ request[r] = NoRequest /\ request'[r] = row /\ steps' = steps
      /\ \A q \in Requests : q # r => request'[q] = request[q]
  BY DEF Create, Exists, IInv, TypeOK
<1>2. steps[r] = << >>
  BY <1>1 DEF IInv, Coherent, Exists
<1>3. /\ Tickets[r] = Workflow!Absent
      /\ Tickets' = [Tickets EXCEPT ![r] = Ticket(row, << >>)]
  BY <1>1, <1>2, TicketChanged, NoTicket
<1>4. Ticket(row, << >>) =
        [status |-> "pending", passed |-> 0, length |-> Len(chain), chain |-> << >>]
  <2>1. [k \in 1..Len(<< >>) |-> << >>[k].role] = << >>
    OBVIOUS
  <2> QED BY <2>1 DEF Ticket
<1>5. chain \in AllChains
  BY DEF AllChains
<1> HIDE DEF chain, row
<1>6. Workflow!Submit(r)
  BY <1>3, <1>4, <1>5, SubmitOf
<1> QED BY <1>6, NextOf DEF Roles

LEMMA InsertRoutes ==
  ASSUME IInv, SeqInv, NEW c \in Calls, InsertSteps(c)
  PROVE  Workflow!Next
<1>1. call[c] \in Creation
  BY DEF InsertSteps, At, IInv, TypeOK, Idle, Handling
<1>2. PICK r \in Requests : r = call[c].req
  BY <1>1 DEF Creation
<1>3. PICK ss \in Seq(StepRow) : ss = call[c].steps
  BY <1>1 DEF Creation
<1>4. PICK row \in RequestRow : row = request[r]
  BY <1>1, <1>2, Shapes DEF IInv, TypeOK, Coherent, CreationCoherent, Exists
<1>5. steps[r] = << >> /\ Len(ss) = row.totalSteps
  BY <1>1, <1>2, <1>3, <1>4, Shapes DEF IInv, TypeOK, Coherent, CreationCoherent, Exists
<1>6. PICK trigger \in Triggers, amount \in Amounts :
        /\ Len(ss) = Len(ApprovalChain(trigger, amount))
        /\ \A k \in 1..Len(ss) : ss[k].role = ApprovalChain(trigger, amount)[k]
  BY <1>1, <1>3 DEF SeqInv, OfAChain
<1>7. PICK chain \in AllChains : chain = ApprovalChain(trigger, amount)
  BY DEF AllChains
<1>8. chain \in Seq(Roles)
  BY <1>7, ChainShape, TriggersAssumption, AmountsAssumption
<1>9. chain = [k \in 1..Len(ss) |-> ss[k].role] /\ Len(chain) = row.totalSteps
  BY <1>5, <1>6, <1>7, <1>8
<1>10. /\ request' = request /\ steps'[r] = ss
       /\ \A q \in Requests : q # r => steps'[q] = steps[q]
  BY <1>2, <1>3 DEF InsertSteps, IInv, TypeOK
<1>11. PICK t : t = Ticket(row, << >>)
  OBVIOUS
<1>12. /\ Tickets[r] = t
       /\ Tickets' = [Tickets EXCEPT ![r] = Ticket(row, ss)]
  BY <1>4, <1>5, <1>10, <1>11, TicketChanged
<1>13. t = [status |-> row.status, passed |-> row.currentStep, length |-> row.totalSteps,
            chain |-> << >>]
  <2>1. [k \in 1..Len(<< >>) |-> << >>[k].role] = << >>
    OBVIOUS
  <2> QED BY <1>11, <2>1 DEF Ticket
<1>14. Ticket(row, ss) = [t EXCEPT !.chain = chain]
  <2>1. Ticket(row, ss) =
          [status |-> row.status, passed |-> row.currentStep, length |-> row.totalSteps,
           chain |-> chain]
    BY <1>9 DEF Ticket
  <2> QED BY <1>13, <2>1
<1>15. Tickets[r] # Workflow!Absent
  <2>1. row.status # "none"
    BY DEF RequestRow, Open, Decided
  <2> QED BY <1>12, <1>13, <2>1 DEF Workflow!Absent
<1>16. Workflow!Route(r)
  <2>1. Tickets[r].chain = << >> /\ Tickets[r].length = Len(chain)
    BY <1>9, <1>12, <1>13
  <2>2. Tickets' = [Tickets EXCEPT ![r].chain = chain]
    BY <1>12, <1>14
  <2>3. \E ch \in AllChains :
          Len(ch) = Tickets[r].length /\ Tickets' = [Tickets EXCEPT ![r].chain = ch]
    BY <2>1, <2>2
  <2> QED BY <1>15, <2>1, <2>3, RouteOf
<1> QED BY <1>16, NextOf DEF Roles

\* The last save of a call: what it makes of the row is a step of the workflow.
LEMMA UpdateActs ==
  ASSUME IInv, SeqInv, OneAtATime, OneAtATime', NEW c \in Calls, UpdateRequest(c)
  PROVE  Workflow!Next
<1>1. PICK r \in Requests : r = call[c].req
  BY SeqFacts DEF UpdateRequest, At
<1>2. PICK row \in RequestRow : row = request[r]
  BY <1>1, SeqFacts DEF UpdateRequest, At
<1>3. PICK ss \in Seq(StepRow) : ss = steps[r]
  BY <1>1 DEF IInv, TypeOK
<1>4. PICK h : h = call[c]
  OBVIOUS
<1>5. /\ h.user \in Employees
      /\ ss # << >> => Len(ss) = row.totalSteps
  BY <1>1, <1>2, <1>3, <1>4, SeqFacts DEF UpdateRequest, At
<1>6. /\ request' = [request EXCEPT ![r] = h.row] /\ steps' = steps
      /\ Moved(h, row, ss, past)
  BY <1>1, <1>2, <1>3, <1>4, SeqUpdateRequest
<1>7. /\ request'[r] = h.row /\ steps'[r] = ss
      /\ \A q \in Requests : q # r => request'[q] = request[q] /\ steps'[q] = steps[q]
  BY <1>3, <1>6 DEF IInv, TypeOK
<1>8. PICK t : t = Ticket(row, ss)
  OBVIOUS
<1>9. Tickets[r] = t /\ Tickets' = [Tickets EXCEPT ![r] = Ticket(h.row, ss)]
  BY <1>2, <1>3, <1>7, <1>8, TicketChanged
<1>10. /\ t = [status |-> row.status, passed |-> row.currentStep, length |-> row.totalSteps,
               chain |-> [k \in 1..Len(ss) |-> ss[k].role]]
       /\ DOMAIN t.chain = DOMAIN ss /\ \A k \in DOMAIN ss : t.chain[k] = ss[k].role
  BY <1>8 DEF Ticket
<1>11. ASSUME NEW status, h.row = [row EXCEPT !.status = status]
       PROVE  Tickets' = [Tickets EXCEPT ![r].status = status]
  <2>1. /\ h.row.status = status /\ h.row.currentStep = row.currentStep
        /\ h.row.totalSteps = row.totalSteps
    BY <1>11 DEF RequestRow
  <2>2. Ticket(h.row, ss) =
          [status |-> status, passed |-> row.currentStep, length |-> row.totalSteps,
           chain |-> [k \in 1..Len(ss) |-> ss[k].role]]
    BY <2>1, Zenon DEF Ticket
  <2>3. Ticket(h.row, ss) = [t EXCEPT !.status = status]
    BY <1>10, <2>2
  <2> QED BY <1>9, <2>3
<1>12. ASSUME Waits(row, ss, h.user) PROVE Awaiting(r, RoleOf[h.user]) /\ RoleOf[h.user] \in Roles
  BY <1>5, <1>9, <1>10, <1>12, RoleOfAssumption DEF Waits, Awaiting
<1>13. CASE h.req \in past /\ h.row = [row EXCEPT !.status = "expired"]
  <2>1. Tickets[r] # Workflow!Absent
    BY <1>9, <1>10 DEF Workflow!Absent, RequestRow, Open, Decided
  <2>2. Workflow!Lapse(r)
    BY <1>11, <1>13, <2>1, LapseOf
  <2> QED BY <2>2, NextOf DEF Roles
<1>14. CASE row.status \in Open /\ h.row = [row EXCEPT !.status = "cancelled"]
  <2>1. Workflow!Cancel(r)
    <3>1. Tickets[r].status \in Open
      BY <1>9, <1>10, <1>14
    <3>2. Tickets' = [Tickets EXCEPT ![r].status = "cancelled"]
      BY <1>11, <1>14
    <3> QED BY <3>1, <3>2, CancelOf
  <2> QED BY <2>1, NextOf DEF Roles
<1>15. CASE Waits(row, ss, h.user) /\ h.row = [row EXCEPT !.status = "rejected"]
  <2>1. Workflow!Reject(r, RoleOf[h.user])
    BY <1>11, <1>12, <1>15, RejectOf
  <2> QED BY <1>12, <1>15, <2>1, NextOf
<1>16. CASE Waits(row, ss, h.user) /\ h.row = Advanced(row)
  <2>1. /\ row.currentStep \in Nat /\ Len(ss) = row.totalSteps /\ DOMAIN ss = 1..Len(ss)
        /\ row.currentStep + 1 \in DOMAIN ss
    BY <1>5, <1>16 DEF Waits, RequestRow
  <2>2. row.currentStep + 1 = row.totalSteps <=> ~(row.currentStep < row.totalSteps - 1)
    BY <2>1
  <2>3. Ticket(h.row, ss) = IF t.passed + 1 = t.length
                              THEN [t EXCEPT !.status = "approved"]
                              ELSE [t EXCEPT !.status = "escalated", !.passed = t.passed + 1]
    <3>1. CASE row.currentStep + 1 = row.totalSteps
      <4>1. /\ h.row.status = "approved" /\ h.row.currentStep = row.currentStep
            /\ h.row.totalSteps = row.totalSteps
        BY <1>16, <2>2, <3>1 DEF Advanced, RequestRow
      <4> QED BY <1>10, <3>1, <4>1 DEF Ticket
    <3>2. CASE row.currentStep + 1 # row.totalSteps
      <4>1. /\ h.row.status = "escalated" /\ h.row.currentStep = row.currentStep + 1
            /\ h.row.totalSteps = row.totalSteps
        BY <1>16, <2>2, <3>2 DEF Advanced, RequestRow
      <4> QED BY <1>10, <3>2, <4>1 DEF Ticket
    <3> QED BY <3>1, <3>2
  <2>4. Workflow!Approve(r, RoleOf[h.user])
    BY <1>9, <1>12, <1>16, <2>3, ApproveOf
  <2> QED BY <1>12, <1>16, <2>4, NextOf
<1> QED BY <1>6, <1>13, <1>14, <1>15, <1>16 DEF Moved

LEMMA StepsAsWorkflow ==
  /\ IInv /\ IInv' /\ SeqInv /\ OneAtATime /\ OneAtATime' /\ [Next]_vars
  => Workflow!Next \/ Tickets' = Tickets
<1> SUFFICES ASSUME IInv, IInv', SeqInv, OneAtATime, OneAtATime', [Next]_vars
             PROVE  Workflow!Next \/ Tickets' = Tickets
  OBVIOUS
<1>1. CASE UNCHANGED <<request, steps>>
  BY <1>1, TicketsKept, SameRolesReflexive
<1>2. ASSUME NEW c \in Calls, UpdateStep(c) PROVE Tickets' = Tickets
  <2>1. /\ request' = request
        /\ \A q \in Requests : q # call[c].req => steps'[q] = steps[q]
    BY <1>2 DEF UpdateStep, IInv, TypeOK
  <2>2. SameRoles(steps'[call[c].req], steps[call[c].req])
    BY <1>2, SeqUpdateStep
  <2>3. \A q \in Requests : SameRoles(steps'[q], steps[q])
    BY <2>1, <2>2, SameRolesReflexive
  <2> QED BY <2>1, <2>3, TicketsKept
<1>3. ASSUME NEW c \in Calls, Begin(c) PROVE Workflow!Next \/ UNCHANGED <<request, steps>>
  BY <1>3, CreateSubmits DEF Begin, Load
<1>4. ASSUME NEW c \in Calls, Continue(c)
      PROVE  \/ Workflow!Next \/ UpdateStep(c) \/ UNCHANGED <<request, steps>>
  BY <1>4, InsertRoutes, UpdateActs
     DEF Continue, ProcessExpired, ProcessRefused, ProcessReject, ProcessApprove,
         CancelRefused, CancelAccepted, SaveStep, SaveRefused, SaveRequest
<1> QED BY <1>1, <1>2, <1>3, <1>4 DEF Next, vars, Fail, Expire

\* Whatever the number of requests, employees and roles, and whichever calls die
\* half way: as long as the calls do not overlap, the two tables behave as the
\* abstract workflow (createRequest, processStep, cancelRequest).
THEOREM WorkflowIsImplemented == Spec /\ []OneAtATime => ImplementsWorkflow
<1>1. IInv /\ IInv' /\ SeqInv /\ OneAtATime /\ OneAtATime' /\ [Next]_vars
        => [Workflow!Next]_Tickets
  BY StepsAsWorkflow
<1> QED BY <1>1, StartsAsWorkflow, Invariance, SeqInvariance, PTL
        DEF Spec, ImplementsWorkflow, Workflow!Spec, Tickets, Ticket
=============================================================================

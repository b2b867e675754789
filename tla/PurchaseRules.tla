--------------------------- MODULE PurchaseRules ----------------------------
(***************************************************************************)
(* Both judgements of one purchase: by VerificationService against the      *)
(* purchaser's card policy, and by PolicyEngineService against the table of *)
(* rules.  Nothing in the code orders the two.                              *)
(***************************************************************************)
EXTENDS PolicyEngine

VARIABLES
  policy,    \* the purchaser's CardPolicy and time policy
  verdict    \* what verify has returned

vars == <<engineVars, policy, verdict>>

\* What TypeScript and the columns say of a case.
CaseTypes(p, limits, rows) ==
  /\ p.hour \in 0..23 /\ p.dated \in BOOLEAN /\ p.distance \in Int
  /\ limits.perTransactionLimit.text \in BOOLEAN /\ limits.dailyLimit.text \in BOOLEAN
  /\ limits.weekends \in BOOLEAN
  /\ \A r \in Rules : rows[r].priority \in Int /\ rows[r].action.approvalChain \in Seq(STRING)

ASSUME CasesAssumption ==
  \A family \in Families : \A case \in family :
    CaseTypes(case.purchase, case.policy, case.table)

NoVerdict == [overallStatus |-> "none", approvalTriggers |-> {}]

Init == \E family \in Families : \E case \in family :
  /\ Start(case)
  /\ policy = case.policy
  /\ verdict = NoVerdict

Judge ==
  /\ verdict = NoVerdict
  /\ verdict' = Verify(purchase, policy)
  /\ UNCHANGED <<engineVars, policy>>

Evaluate == EngineNext /\ UNCHANGED <<policy, verdict>>

Next == Judge \/ Evaluate

Spec == Init /\ [][Next]_vars

-----------------------------------------------------------------------------
InForce(r, type) == Applicable(r) /\ Matches(r) /\ table[r].action.type = type

\* A purchase is refused exactly when its category is blocked everywhere or some
\* rule that applies to the purchaser and matches it blocks it, whatever the
\* other rules say and in whatever order the database returned them (evaluate).
AllowedUnlessBlocked ==
  pc = "done" =>
    (blocked <=> purchase.category \in HardBlocked \/ \E r \in Rules : InForce(r, "block"))

\* A rule that has had its say was preceded by every matching rule of higher
\* priority: what the engine reports does not skip one (getApplicableRules).
HigherPriorityFirst ==
  \A r \in Rules, m \in ToSet(matched) :
    Applicable(r) /\ Matches(r) /\ table[r].priority > table[m].priority
      => r \in ToSet(matched)

\* An allowed purchase needs the approvals of all the chains in force and no
\* other, each role once, however the rules are ordered (evaluate).
ApprovalsComplete ==
  pc = "done" /\ ~blocked =>
    /\ ToSet(required) =
         UNION {ToSet(table[r].action.approvalChain) :
                  r \in {q \in Rules : InForce(q, "require_approval")}}
    /\ IsInjective(required)

\* The allowed hours are those met on the way from the start to the end of the
\* window around the clock, over midnight too (TimeValidator.validate).
HoursGoRoundTheClock ==
  verdict # NoVerdict /\ purchase.dated /\ policy.weekends
    /\ policy.start \in 0..23 /\ policy.end \in 0..23
  => ("after_hours" \in verdict.approvalTriggers <=>
        (purchase.hour - policy.start) % 24 > (policy.end - policy.start) % 24)

\* No purchase is left without a way on: one that is flagged names a reason for
\* approval, one that is approved names none, and one that is rejected without
\* a reason for approval is so for its region (detectApprovalTriggers).
VerdictHasWayOn ==
  CASE verdict.overallStatus \in {"none", "approved"} -> verdict.approvalTriggers = {}
    [] verdict.overallStatus = "flagged" ->
         verdict.approvalTriggers # {} /\
         verdict.approvalTriggers \subseteq {"location_mismatch", "after_hours"}
    [] verdict.overallStatus = "rejected" ->
         verdict.approvalTriggers \ {"after_hours"} = {} =>
           RegionCheck(purchase.address, policy.allowedRegions, policy.restrictedAreas) = "fail"

\* A purchase that is not rejected keeps within every limit that its policy
\* holds in the table, a limit of zero won included: per purchase and per day when
\* they are set, and per month, which is never absent (LimitValidator.validate).
LimitsOfTableKept ==
  verdict.overallStatus \in {"approved", "flagged"} =>
    /\ policy.perTransactionLimit.text => purchase.amount <= policy.perTransactionLimit.value
    /\ policy.dailyLimit.text =>
         purchase.dailyUsed + purchase.amount <= policy.dailyLimit.value
    /\ purchase.monthlyUsed + purchase.amount <= policy.monthlyLimit.value
=============================================================================

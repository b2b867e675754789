---------------------------- MODULE PolicyEngine ----------------------------
(***************************************************************************)
(* One evaluation by PolicyEngineService (modules/policies): the rules of   *)
(* the table that apply to the purchaser, highest priority first, until one *)
(* of them blocks the purchase.  The database may return rules of the same  *)
(* priority in any order.                                                   *)
(***************************************************************************)
EXTENDS Verification, SequencesExt

CONSTANTS
  HardBlocked,   \* HARD_BLOCKED_CATEGORIES
  Rules,         \* ids of rows of policy_rules
  Families       \* families of purchases to judge, each with what policy_rules then holds

ASSUME RulesAssumption == IsFiniteSet(Rules)

VARIABLES
  purchase,   \* the PolicyEvaluationInput
  table,      \* table policy_rules
  pc,
  queue,      \* the rules still to evaluate, in order
  matched,    \* matchedRules
  required,   \* requiredApprovals
  blocked

engineVars == <<purchase, table, pc, queue, matched, required, blocked>>

Start(case) ==
  /\ purchase = case.purchase
  /\ table = case.table
  /\ pc = "start"
  /\ queue = << >> /\ matched = << >> /\ required = << >>
  /\ blocked = FALSE

\* Mutant of Applicable: a department's rules apply to everybody.
ApplicableEverywhere(r) ==
  /\ table[r].active
  /\ table[r].scope = "individual" => table[r].scopeTarget = purchase.employeeId

Applicable(r) ==
  /\ table[r].active
  /\ table[r].scope = "department" => table[r].scopeTarget = purchase.department
  /\ table[r].scope = "individual" => table[r].scopeTarget = purchase.employeeId

\* matchesConditions.  Categories match when either contains the other.  A
\* condition that is empty, null or missing does not restrict; one that is a
\* single value is here the set of that value.
Matches(r) ==
  LET conditions == table[r].conditions IN
  /\ conditions.categories # {} =>
       \E cat \in conditions.categories :
         Includes(purchase.category, cat) \/ Includes(cat, purchase.category)
  /\ conditions.regions # {} =>
       \E region \in conditions.regions : Includes(purchase.region, region)
  /\ \A threshold \in conditions.amountThreshold : purchase.amount >= threshold
  /\ \A range \in conditions.timeRange : Within(purchase.hour, range.start, range.end)
  /\ conditions.daysOfWeek # {} => purchase.day \in conditions.daysOfWeek
  /\ \A count \in conditions.maxTransactionsPerDay :
       purchase.dailyTransactionCount >= count

-----------------------------------------------------------------------------
HardBlock ==
  /\ pc = "start"
  /\ purchase.category \in HardBlocked
  /\ blocked' = TRUE
  /\ pc' = "done"
  /\ UNCHANGED <<purchase, table, queue, matched, required>>

\* ORDER BY priority DESC.
Sorted(s) == \A i, j \in DOMAIN s : i < j => table[s[i]].priority >= table[s[j]].priority

\* Mutant of GetApplicableRules: no ORDER BY.
GetUnorderedRules ==
  /\ pc = "start"
  /\ purchase.category \notin HardBlocked
  /\ \E s \in SetToSeqs({r \in Rules : Applicable(r)}) : queue' = s
  /\ pc' = "evaluate"
  /\ UNCHANGED <<purchase, table, matched, required, blocked>>

GetApplicableRules ==
  /\ pc = "start"
  /\ purchase.category \notin HardBlocked
  /\ \E s \in SetToSeqs({r \in Rules : Applicable(r)}) : Sorted(s) /\ queue' = s
  /\ pc' = "evaluate"
  /\ UNCHANGED <<purchase, table, matched, required, blocked>>

\* The next rule does not match.
Skip ==
  /\ pc = "evaluate" /\ queue # << >>
  /\ ~Matches(Head(queue))
  /\ queue' = Tail(queue)
  /\ UNCHANGED <<purchase, table, pc, matched, required, blocked>>

\* Mutant of Block: a rule of lower priority has the last word.
BlockOn ==
  /\ pc = "evaluate" /\ queue # << >>
  /\ Matches(Head(queue)) /\ table[Head(queue)].action.type = "block"
  /\ matched' = Append(matched, Head(queue))
  /\ queue' = Tail(queue)
  /\ UNCHANGED <<purchase, table, pc, required, blocked>>

\* It blocks: the rules after it are not evaluated.
Block ==
  /\ pc = "evaluate" /\ queue # << >>
  /\ Matches(Head(queue)) /\ table[Head(queue)].action.type = "block"
  /\ matched' = Append(matched, Head(queue))
  /\ blocked' = TRUE
  /\ pc' = "done"
  /\ UNCHANGED <<purchase, table, queue, required>>

\* The roles of the chain that are not required yet are pushed one by one.
Push(roles, role) == IF role \in ToSet(roles) THEN roles ELSE Append(roles, role)

\* Mutant of RequireApproval: roles are required once more by each rule.
RequireAgain ==
  /\ pc = "evaluate" /\ queue # << >>
  /\ Matches(Head(queue)) /\ table[Head(queue)].action.type = "require_approval"
  /\ matched' = Append(matched, Head(queue))
  /\ required' = required \o table[Head(queue)].action.approvalChain
  /\ queue' = Tail(queue)
  /\ UNCHANGED <<purchase, table, pc, blocked>>

RequireApproval ==
  /\ pc = "evaluate" /\ queue # << >>
  /\ Matches(Head(queue)) /\ table[Head(queue)].action.type = "require_approval"
  /\ matched' = Append(matched, Head(queue))
  /\ required' = FoldLeft(Push, required, table[Head(queue)].action.approvalChain)
  /\ queue' = Tail(queue)
  /\ UNCHANGED <<purchase, table, pc, blocked>>

\* It flags or notifies.
Note ==
  /\ pc = "evaluate" /\ queue # << >>
  /\ Matches(Head(queue)) /\ table[Head(queue)].action.type \in {"flag", "notify"}
  /\ matched' = Append(matched, Head(queue))
  /\ queue' = Tail(queue)
  /\ UNCHANGED <<purchase, table, pc, required, blocked>>

Done ==
  /\ pc = "evaluate" /\ queue = << >>
  /\ pc' = "done"
  /\ UNCHANGED <<purchase, table, queue, matched, required, blocked>>

EngineNext ==
  \/ HardBlock \/ GetApplicableRules
  \/ Skip \/ Block \/ RequireApproval \/ Note \/ Done

EngineInit == \E family \in Families : \E case \in family : Start(case)

EngineSpec == EngineInit /\ [][EngineNext]_engineVars
=============================================================================

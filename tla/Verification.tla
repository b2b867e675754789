---------------------------- MODULE Verification ----------------------------
(***************************************************************************)
(* The checks that VerificationService makes of one purchase against the    *)
(* employee's card policy (modules/verification), as operators.             *)
(*                                                                          *)
(* A purchase is a record with the fields distance (between the user and    *)
(* the shop, in metres), category, address, amount, dailyUsed, monthlyUsed, *)
(* dated (whether there is a transaction date), hour and day; a policy one  *)
(* with the fields allowedCategories, allowedRegions, restrictedAreas,      *)
(* perTransactionLimit, dailyLimit, monthlyLimit, start, end, weekends.     *)
(* Names are members of a set; what the code does to strings is given by    *)
(* two constants.                                                           *)
(***************************************************************************)
EXTENDS Integers, FiniteSets

CONSTANTS
  Names,      \* categories, regions and addresses
  Part,       \* << a, b >> when a is a substring of b
  Lower       \* toLowerCase

ASSUME NamesAssumption ==
  Part \subseteq Names \X Names /\ Lower \in [Names -> Names]

Includes(whole, part) == << part, whole >> \in Part

Threshold == 500

LocationCheck(distance) ==
  CASE distance <= Threshold -> "pass"
    [] distance > Threshold /\ distance <= 2 * Threshold -> "warning"
    [] distance > 2 * Threshold -> "fail"

CategoryCheck(category, allowed) ==
  IF allowed = {} \/ \E cat \in allowed : Lower[cat] = Lower[category]
    THEN "pass" ELSE "fail"

RegionCheck(address, allowed, restricted) ==
  IF /\ ~ \E area \in restricted : Includes(address, area)
     /\ allowed = {} \/ \E region \in allowed : Includes(address, region)
    THEN "pass" ELSE "fail"

(***************************************************************************)
(* A limit is absent, or a number that the driver has read from a decimal   *)
(* column as text, as in an entity, or that a caller gives as it is.  A     *)
(* number 0 counts as absent (`limit && ...'), a text "0.00" does not.      *)
(***************************************************************************)
NoLimit == [value |-> 0, text |-> FALSE]

\* Mutant of Given: a limit read from the table as zero counts as absent.
GivenNonzero(limit) == limit.value # 0

Given(limit) == limit.value # 0 \/ limit.text

\* Mutant of LimitCheck: the month's purchases are not counted.
LimitCheckOfDay(amount, perTransaction, dailyUsed, daily, monthlyUsed, monthly) ==
  IF /\ Given(perTransaction) => amount <= perTransaction.value
     /\ Given(daily) => dailyUsed + amount <= daily.value
     /\ amount <= monthly.value
    THEN "pass" ELSE "fail"

LimitCheck(amount, perTransaction, dailyUsed, daily, monthlyUsed, monthly) ==
  IF /\ Given(perTransaction) => amount <= perTransaction.value
     /\ Given(daily) => dailyUsed + amount <= daily.value
     /\ monthlyUsed + amount <= monthly.value
    THEN "pass" ELSE "fail"

\* An hour of either clock face, 24 when the window has no such end.
NoHour == 24

\* Mutant of Within: a window over midnight has no hour in it.
WithinBoth(hour, start, end) == hour >= start /\ hour <= end

\* The hours from start to end, both included, over midnight if start > end.
Within(hour, start, end) ==
  IF start <= end THEN hour >= start /\ hour <= end
                  ELSE hour >= start \/ hour <= end

Weekend == {0, 6}

TimeCheck(hour, day, start, end, weekends) ==
  IF \/ ~weekends /\ day \in Weekend
     \/ start # NoHour /\ end # NoHour /\ ~Within(hour, start, end)
    THEN "warning" ELSE "pass"

(***************************************************************************)
(* verify.                                                                  *)
(***************************************************************************)
CheckTypes == {"location", "category", "region", "limit", "time"}

Checks(p, policy) ==
  [type \in CheckTypes \ IF p.dated THEN {} ELSE {"time"} |->
    CASE type = "location" -> LocationCheck(p.distance)
      [] type = "category" -> CategoryCheck(p.category, policy.allowedCategories)
      [] type = "region" ->
           RegionCheck(p.address, policy.allowedRegions, policy.restrictedAreas)
      [] type = "limit" ->
           LimitCheck(p.amount, policy.perTransactionLimit, p.dailyUsed,
                      policy.dailyLimit, p.monthlyUsed, policy.monthlyLimit)
      [] type = "time" ->
           TimeCheck(p.hour, p.day, policy.start, policy.end, policy.weekends)]

Among(checks, status) == \E type \in DOMAIN checks : checks[type] = status

OverallStatus(checks) ==
  CASE Among(checks, "fail") -> "rejected"
    [] ~Among(checks, "fail") /\ Among(checks, "warning") -> "flagged"
    [] ~Among(checks, "fail") /\ ~Among(checks, "warning") -> "approved"

\* Mutant of Trigger: a distance that calls for a look by somebody is forgotten.
TriggerWhenFailed(type, status) ==
  CASE status = "fail" /\ type = "limit" -> {"limit_exceeded"}
    [] status = "fail" /\ type = "category" -> {"restricted_category"}
    [] status = "fail" /\ type = "location" -> {"location_mismatch"}
    [] status = "warning" /\ type = "time" -> {"after_hours"}
    [] OTHER -> {}

\* The trigger that a check of this type asks an approval for, given its status.
Trigger(type, status) ==
  CASE status = "fail" /\ type = "limit" -> {"limit_exceeded"}
    [] status = "fail" /\ type = "category" -> {"restricted_category"}
    [] status \in {"fail", "warning"} /\ type = "location" -> {"location_mismatch"}
    [] status = "warning" /\ type = "time" -> {"after_hours"}
    [] OTHER -> {}

ApprovalTriggers(checks) == UNION {Trigger(type, checks[type]) : type \in DOMAIN checks}

Verify(p, policy) ==
  LET checks == Checks(p, policy) IN
  [overallStatus |-> OverallStatus(checks),
   approvalTriggers |-> ApprovalTriggers(checks)]
=============================================================================

----------------------------- MODULE RulesProofs -----------------------------
(***************************************************************************)
(* Proofs about the two judgements of a purchase, for every purchase, every *)
(* policy and every finite table of rules.                                  *)
(***************************************************************************)
EXTENDS PurchaseRules, FiniteSetTheorems, WellFoundedInduction, TLAPS

-----------------------------------------------------------------------------
(***************************************************************************)
(* The verdict of VerificationService.                                      *)
(***************************************************************************)
TypesKnown == CaseTypes(purchase, policy, table)

VerdictInv == TypesKnown /\ verdict \in {NoVerdict, Verify(purchase, policy)}

LEMMA VerdictInvariant == Spec => []VerdictInv
<1>1. Init => VerdictInv
  BY CasesAssumption DEF Init, Start, VerdictInv, TypesKnown
<1>2. VerdictInv /\ [Next]_vars => VerdictInv'
  <2> SUFFICES ASSUME VerdictInv, [Next]_vars PROVE VerdictInv'
    OBVIOUS
  <2>1. UNCHANGED <<purchase, policy, table>>
    BY DEF Next, vars, engineVars, Judge, Evaluate, EngineNext, HardBlock, GetApplicableRules,
           Skip, Block, RequireApproval, Note, Done
  <2>2. verdict' = verdict \/ verdict' = Verify(purchase, policy)
    BY DEF Next, vars, Judge, Evaluate
  <2> QED BY <2>1, <2>2 DEF VerdictInv, TypesKnown
<1> QED BY <1>1, <1>2, PTL DEF Spec

\* What verify makes of the checks c (detectApprovalTriggers, overall status).
LEMMA ChecksOfPurchase ==
  ASSUME TypesKnown
  PROVE  LET c == Checks(purchase, policy) IN
         /\ DOMAIN c = CheckTypes \ (IF purchase.dated THEN {} ELSE {"time"})
         /\ c["location"] = LocationCheck(purchase.distance)
         /\ c["location"] \in {"pass", "warning", "fail"}
         /\ c["category"] \in {"pass", "fail"}
         /\ c["region"] \in {"pass", "fail"}
         /\ c["region"] = RegionCheck(purchase.address, policy.allowedRegions, policy.restrictedAreas)
         /\ c["limit"] \in {"pass", "fail"}
         /\ c["limit"] = LimitCheck(purchase.amount, policy.perTransactionLimit, purchase.dailyUsed,
                           policy.dailyLimit, purchase.monthlyUsed, policy.monthlyLimit)
         /\ purchase.dated =>
              /\ c["time"] \in {"pass", "warning"}
              /\ c["time"] = TimeCheck(purchase.hour, purchase.day, policy.start, policy.end, policy.weekends)
<1>1. LocationCheck(purchase.distance) \in {"pass", "warning", "fail"}
  BY DEF LocationCheck, Threshold, TypesKnown, CaseTypes
<1> QED BY <1>1 DEF TypesKnown, CaseTypes, Checks, CheckTypes, CategoryCheck, RegionCheck, LimitCheck, TimeCheck

\* A check asks for the approval that its status calls for (detectApprovalTriggers).
LEMMA TriggersOfChecks ==
  ASSUME TypesKnown, NEW c, c = Checks(purchase, policy), NEW t, t = ApprovalTriggers(c)
  PROVE  /\ t \subseteq {"limit_exceeded", "restricted_category", "location_mismatch", "after_hours"}
         /\ "limit_exceeded" \in t <=> c["limit"] = "fail"
         /\ "restricted_category" \in t <=> c["category"] = "fail"
         /\ "location_mismatch" \in t <=> c["location"] # "pass"
         /\ "after_hours" \in t <=> purchase.dated /\ c["time"] = "warning"
<1> DEFINE D == CheckTypes \ (IF purchase.dated THEN {} ELSE {"time"})
<1>1. /\ DOMAIN c = D
      /\ c["location"] \in {"pass", "warning", "fail"}
      /\ c["category"] \in {"pass", "fail"} /\ c["region"] \in {"pass", "fail"}
      /\ c["limit"] \in {"pass", "fail"}
      /\ purchase.dated => c["time"] \in {"pass", "warning"}
  BY ChecksOfPurchase
<1>2. \A x : x \in t <=> \E type \in D : x \in Trigger(type, c[type])
  BY <1>1 DEF ApprovalTriggers
<1>3. /\ Trigger("limit", c["limit"]) = (IF c["limit"] = "fail" THEN {"limit_exceeded"} ELSE {})
      /\ Trigger("category", c["category"]) =
           (IF c["category"] = "fail" THEN {"restricted_category"} ELSE {})
      /\ Trigger("location", c["location"]) =
           (IF c["location"] # "pass" THEN {"location_mismatch"} ELSE {})
      /\ Trigger("region", c["region"]) = {}
  BY <1>1 DEF Trigger
<1>4. purchase.dated =>
        Trigger("time", c["time"]) = (IF c["time"] = "warning" THEN {"after_hours"} ELSE {})
  BY <1>1 DEF Trigger
<1>5. {"limit", "category", "location", "region"} \subseteq D
      /\ ("time" \in D <=> purchase.dated)
      /\ D \subseteq {"limit", "category", "location", "region", "time"}
  BY DEF CheckTypes
<1> QED BY <1>2, <1>3, <1>4, <1>5

\* What verify returns, the checks being c.
LEMMA StatusOfChecks ==
  ASSUME TypesKnown, verdict = Verify(purchase, policy), NEW c, c = Checks(purchase, policy)
  PROVE  /\ verdict.approvalTriggers = ApprovalTriggers(c)
         /\ verdict.overallStatus = OverallStatus(c)
         /\ verdict.overallStatus \in {"rejected", "flagged", "approved"}
         /\ verdict.overallStatus = "rejected" <=>
              \E type \in {"location", "category", "region", "limit"} : c[type] = "fail"
         /\ verdict.overallStatus = "approved" =>
              c["location"] = "pass" /\ (purchase.dated => c["time"] = "pass")
         /\ verdict.overallStatus = "flagged" =>
              c["location"] = "warning" \/ (purchase.dated /\ c["time"] = "warning")
<1>1. verdict = [overallStatus |-> OverallStatus(c), approvalTriggers |-> ApprovalTriggers(c)]
  BY DEF Verify
<1>2. /\ DOMAIN c = CheckTypes \ (IF purchase.dated THEN {} ELSE {"time"})
      /\ c["location"] \in {"pass", "warning", "fail"}
      /\ c["category"] \in {"pass", "fail"} /\ c["region"] \in {"pass", "fail"}
      /\ c["limit"] \in {"pass", "fail"}
      /\ purchase.dated => c["time"] \in {"pass", "warning"}
  BY ChecksOfPurchase
<1>3. Among(c, "fail") <=> \E type \in {"location", "category", "region", "limit"} : c[type] = "fail"
  BY <1>2 DEF Among, CheckTypes
<1>4. Among(c, "warning") <=> c["location"] = "warning" \/ (purchase.dated /\ c["time"] = "warning")
  BY <1>2 DEF Among, CheckTypes
<1>5. OverallStatus(c) = IF Among(c, "fail") THEN "rejected"
                         ELSE IF Among(c, "warning") THEN "flagged" ELSE "approved"
  BY DEF OverallStatus
<1>6. verdict.approvalTriggers = ApprovalTriggers(c) /\ verdict.overallStatus = OverallStatus(c)
  BY <1>1
<1> QED BY <1>2, <1>3, <1>4, <1>5, <1>6

\* The window of allowed hours is read around the clock (TimeValidator).
LEMMA WithinGoesRound ==
  ASSUME NEW hour \in 0..23, NEW start \in 0..23, NEW end \in 0..23
  PROVE  Within(hour, start, end) <=> (hour - start) % 24 <= (end - start) % 24
  BY DEF Within

\* A purchase is flagged for its hour exactly when that hour is not met on the
\* way from the start of the policy's window to its end, over midnight too
\* (TimeValidator.validate), whatever the window.
THEOREM HoursAreRound == Spec => []HoursGoRoundTheClock
<1>1. VerdictInv => HoursGoRoundTheClock
  <2> SUFFICES ASSUME VerdictInv, verdict # NoVerdict, purchase.dated, policy.weekends,
                      policy.start \in 0..23, policy.end \in 0..23
               PROVE  "after_hours" \in verdict.approvalTriggers <=>
                        (purchase.hour - policy.start) % 24 > (policy.end - policy.start) % 24
    BY DEF HoursGoRoundTheClock
  <2>1. PICK c : c = Checks(purchase, policy)
    OBVIOUS
  <2>2. TypesKnown /\ verdict = Verify(purchase, policy)
    BY DEF VerdictInv
  <2>3. "after_hours" \in verdict.approvalTriggers <=> c["time"] = "warning"
    BY <2>1, <2>2, StatusOfChecks, TriggersOfChecks
  <2>4. c["time"] = TimeCheck(purchase.hour, purchase.day, policy.start, policy.end, policy.weekends)
    BY <2>1, <2>2, ChecksOfPurchase
  <2>5. c["time"] = "warning" <=> ~Within(purchase.hour, policy.start, policy.end)
    BY <2>4 DEF TimeCheck, NoHour
  <2>6. purchase.hour \in 0..23
    BY <2>2 DEF TypesKnown, CaseTypes
  <2>7. Within(purchase.hour, policy.start, policy.end) <=>
          (purchase.hour - policy.start) % 24 <= (policy.end - policy.start) % 24
    BY <2>6, WithinGoesRound
  <2> QED BY <2>3, <2>5, <2>6, <2>7
<1> QED BY <1>1, VerdictInvariant, PTL

\* A flagged purchase names a reason for approval, an approved one none, and one
\* rejected without a reason is so for its region: for every purchase and policy
\* (verify, detectApprovalTriggers).
THEOREM VerdictsHaveWayOn == Spec => []VerdictHasWayOn
<1>1. VerdictInv => VerdictHasWayOn
  <2> SUFFICES ASSUME VerdictInv PROVE VerdictHasWayOn
    OBVIOUS
  <2>1. CASE verdict = NoVerdict
    BY <2>1 DEF NoVerdict, VerdictHasWayOn
  <2>2. CASE verdict = Verify(purchase, policy)
    <3>1. PICK c : c = Checks(purchase, policy)
      OBVIOUS
    <3>2. TypesKnown
      BY DEF VerdictInv
    <3>3. PICK t : t = ApprovalTriggers(c) /\ verdict.approvalTriggers = t
      BY <2>2, <3>1, <3>2, StatusOfChecks
    <3>4. /\ t \subseteq {"limit_exceeded", "restricted_category", "location_mismatch", "after_hours"}
          /\ "limit_exceeded" \in t <=> c["limit"] = "fail"
          /\ "restricted_category" \in t <=> c["category"] = "fail"
          /\ "location_mismatch" \in t <=> c["location"] # "pass"
          /\ "after_hours" \in t <=> purchase.dated /\ c["time"] = "warning"
      BY <3>1, <3>2, <3>3, TriggersOfChecks
    <3>5. c["region"] = RegionCheck(purchase.address, policy.allowedRegions, policy.restrictedAreas)
      BY <3>1, <3>2, ChecksOfPurchase
    <3>6. c["location"] = "fail" => c["location"] # "pass"
      OBVIOUS
    <3>7. /\ verdict.overallStatus \in {"rejected", "flagged", "approved"}
          /\ verdict.overallStatus = "rejected" <=>
               \E type \in {"location", "category", "region", "limit"} : c[type] = "fail"
          /\ verdict.overallStatus = "approved" =>
               c["location"] = "pass" /\ (purchase.dated => c["time"] = "pass")
          /\ verdict.overallStatus = "flagged" =>
               c["location"] = "warning" \/ (purchase.dated /\ c["time"] = "warning")
      BY <2>2, <3>1, <3>2, StatusOfChecks
    <3>8. CASE verdict.overallStatus = "approved"
      <4>1. t = {}
        <5>1. c["limit"] # "fail" /\ c["category"] # "fail"
          BY <3>7, <3>8
        <5>2. c["location"] = "pass" /\ ~(purchase.dated /\ c["time"] = "warning")
          BY <3>7, <3>8
        <5> QED BY <3>4, <5>1, <5>2
      <4> QED BY <3>3, <3>8, <4>1 DEF VerdictHasWayOn
    <3>9. CASE verdict.overallStatus = "flagged"
      <4>1. c["limit"] # "fail" /\ c["category"] # "fail"
        BY <3>7, <3>9
      <4>2. t # {} /\ t \subseteq {"location_mismatch", "after_hours"}
        BY <3>4, <3>7, <3>9, <4>1
      <4> QED BY <3>3, <3>9, <4>2 DEF VerdictHasWayOn
    <3>10. CASE verdict.overallStatus = "rejected"
      <4>1. t \ {"after_hours"} = {} => c["region"] = "fail"
        BY <3>4, <3>6, <3>7, <3>10
      <4> QED BY <3>3, <3>5, <3>10, <4>1 DEF VerdictHasWayOn
    <3> QED BY <3>7, <3>8, <3>9, <3>10
  <2> QED BY <2>1, <2>2 DEF VerdictInv
<1> QED BY <1>1, VerdictInvariant, PTL

\* A purchase that is not rejected keeps within every limit that its policy has
\* in the table, zero won included (LimitValidator.validate).
THEOREM TableLimitsKept == Spec => []LimitsOfTableKept
<1>1. VerdictInv => LimitsOfTableKept
  <2> SUFFICES ASSUME VerdictInv, verdict.overallStatus \in {"approved", "flagged"}
               PROVE  /\ policy.perTransactionLimit.text =>
                           purchase.amount <= policy.perTransactionLimit.value
                      /\ policy.dailyLimit.text =>
                           purchase.dailyUsed + purchase.amount <= policy.dailyLimit.value
                      /\ purchase.monthlyUsed + purchase.amount <= policy.monthlyLimit.value
    BY DEF LimitsOfTableKept
  <2>1. PICK c : c = Checks(purchase, policy)
    OBVIOUS
  <2>2. TypesKnown /\ verdict = Verify(purchase, policy)
    BY DEF VerdictInv, NoVerdict
  <2>3. c["limit"] # "fail"
    BY <2>1, <2>2, StatusOfChecks
  <2>4. c["limit"] = LimitCheck(purchase.amount, policy.perTransactionLimit, purchase.dailyUsed,
                       policy.dailyLimit, purchase.monthlyUsed, policy.monthlyLimit)
    BY <2>1, <2>2, ChecksOfPurchase
  <2> QED BY <2>3, <2>4 DEF LimitCheck, Given
<1> QED BY <1>1, VerdictInvariant, PTL

-----------------------------------------------------------------------------
(***************************************************************************)
(* Lemmas on sequences: the rules fetched, their head, and one listed.     *)
(***************************************************************************)
LEMMA AllQueued ==
  ASSUME NEW S, IsFiniteSet(S), NEW s \in SetToSeqs(S)
  PROVE  s \in Seq(S) /\ ToSet(s) = S
<1> DEFINE D == 1..Cardinality(S)
<1>1. Cardinality(S) \in Nat
  BY FS_CardinalityType
<1>2. IsFiniteSet(D) /\ Cardinality(D) = Cardinality(S)
  BY <1>1, FS_Interval
<1>3. s \in [D -> S] /\ \A i, j \in D : i # j => s[i] # s[j]
  BY DEF SetToSeqs
<1>4. s \in Injection(D, S)
  BY <1>3 DEF Injection, IsInjective
<1>5. s \in Surjection(D, S)
  BY <1>2, <1>4, FS_Injection
<1>6. \A r \in S : \E i \in D : s[i] = r
  BY <1>5 DEF Surjection
<1>7. s \in Seq(S)
  BY <1>1, <1>3
<1> QED BY <1>3, <1>6, <1>7 DEF ToSet

LEMMA HeadAndTail ==
  ASSUME NEW S, NEW s \in Seq(S), s # << >>
  PROVE  /\ Head(s) \in S /\ Tail(s) \in Seq(S)
         /\ ToSet(s) = {Head(s)} \cup ToSet(Tail(s))
<1>1. Head(s) \in S /\ Tail(s) \in Seq(S) /\ Len(s) \in Nat \ {0} /\ DOMAIN s = 1..Len(s)
  OBVIOUS
<1>2. Head(s) = s[1] /\ Len(Tail(s)) = Len(s) - 1 /\ DOMAIN Tail(s) = 1..(Len(s) - 1)
  BY <1>1
<1>3. \A i \in 1..(Len(s) - 1) : Tail(s)[i] = s[i + 1]
  BY <1>1
<1>4. \A x \in ToSet(s) : x \in {Head(s)} \cup ToSet(Tail(s))
  <2> TAKE x \in ToSet(s)
  <2>1. PICK i \in 1..Len(s) : x = s[i]
    BY <1>1 DEF ToSet
  <2>2. CASE i = 1
    BY <1>2, <2>1, <2>2
  <2>3. CASE i # 1
    <3>1. i - 1 \in 1..(Len(s) - 1) /\ Tail(s)[i - 1] = s[i]
      BY <1>1, <1>3, <2>1, <2>3
    <3> QED BY <1>2, <2>1, <3>1 DEF ToSet
  <2> QED BY <2>2, <2>3
<1>5. \A x \in ToSet(Tail(s)) : x \in ToSet(s)
  <2> TAKE x \in ToSet(Tail(s))
  <2>1. PICK i \in 1..(Len(s) - 1) : x = Tail(s)[i]
    BY <1>2 DEF ToSet
  <2>2. i + 1 \in 1..Len(s) /\ x = s[i + 1]
    BY <1>1, <1>3, <2>1
  <2> QED BY <1>1, <2>2 DEF ToSet
<1>6. Head(s) \in ToSet(s)
  BY <1>1, <1>2 DEF ToSet
<1> QED BY <1>1, <1>4, <1>5, <1>6

LEMMA SortedTail ==
  ASSUME NEW s \in Seq(Rules), s # << >>, Sorted(s)
  PROVE  /\ Sorted(Tail(s))
         /\ \A q \in ToSet(Tail(s)) : table[Head(s)].priority >= table[q].priority
<1>1. Len(s) \in Nat \ {0} /\ DOMAIN s = 1..Len(s) /\ Head(s) = s[1]
      /\ DOMAIN Tail(s) = 1..(Len(s) - 1) /\ \A i \in 1..(Len(s) - 1) : Tail(s)[i] = s[i + 1]
  OBVIOUS
<1>2. \A i, j \in 1..Len(s) : i < j => table[s[i]].priority >= table[s[j]].priority
  BY <1>1 DEF Sorted
<1>3. \A i \in 1..(Len(s) - 1) : i + 1 \in 1..Len(s) /\ 1 < i + 1
  BY <1>1
<1>4. Sorted(Tail(s))
  <2> SUFFICES ASSUME NEW i \in 1..(Len(s) - 1), NEW j \in 1..(Len(s) - 1), i < j
               PROVE  table[Tail(s)[i]].priority >= table[Tail(s)[j]].priority
    BY <1>1 DEF Sorted
  <2>1. i + 1 \in 1..Len(s) /\ j + 1 \in 1..Len(s) /\ i + 1 < j + 1
    BY <1>1
  <2> QED BY <1>1, <1>2, <2>1
<1>5. ASSUME NEW q \in ToSet(Tail(s)) PROVE table[Head(s)].priority >= table[q].priority
  <2>1. PICK i \in 1..(Len(s) - 1) : q = Tail(s)[i]
    BY <1>1 DEF ToSet
  <2>2. 1 \in 1..Len(s) /\ i + 1 \in 1..Len(s) /\ 1 < i + 1 /\ q = s[i + 1]
    BY <1>1, <2>1
  <2> QED BY <1>1, <1>2, <2>2
<1> QED BY <1>4, <1>5

LEMMA OneMore ==
  ASSUME NEW S, NEW s \in Seq(S), NEW e \in S
  PROVE  Append(s, e) \in Seq(S) /\ ToSet(Append(s, e)) = ToSet(s) \cup {e}
<1>1. Len(s) \in Nat /\ DOMAIN s = 1..Len(s)
  OBVIOUS
<1>2. /\ Append(s, e) \in Seq(S) /\ DOMAIN Append(s, e) = 1..(Len(s) + 1)
      /\ \A i \in 1..Len(s) : Append(s, e)[i] = s[i]
      /\ Append(s, e)[Len(s) + 1] = e
  OBVIOUS
<1>3. \A i \in 1..(Len(s) + 1) : i \in 1..Len(s) \/ i = Len(s) + 1
  BY <1>1
<1>4. Len(s) + 1 \in 1..(Len(s) + 1) /\ \A i \in 1..Len(s) : i \in 1..(Len(s) + 1)
  BY <1>1
<1> QED BY <1>1, <1>2, <1>3, <1>4 DEF ToSet

-----------------------------------------------------------------------------
(***************************************************************************)
(* What the fold of Push computes, for chains of every length, by induction *)
(* on the positions of the chain.                                           *)
(***************************************************************************)
\* A set of naturals has a least element: the induction argues from it.
LEMMA LeastNatural ==
  ASSUME NEW T, T \subseteq Nat, T # {}
  PROVE  \E n \in T : \A m \in T : n <= m
<1>1. PICK R : R = {ss \in Nat \X Nat : ss[1] < ss[2]} /\ IsWellFoundedOn(R, Nat)
  BY NatLessThanWellFounded DEF OpToRel
<1>2. PICK n \in T : \A m \in T : ~(<<m, n>> \in R)
  BY <1>1, WFMin
<1>3. \A m \in T : ~(m < n)
  BY <1>1, <1>2
<1> QED BY <1>3

\* g is the table of the fold's results over the subsets of the first k positions.
Folds(g, roles, chain, k) ==
  g = [s \in SUBSET (1..k) |->
         IF s = {} THEN roles ELSE Push(g[s \ {Max(s)}], chain[Max(s)])]

LEMMA GreatestIsMax ==
  ASSUME NEW s \in SUBSET Int, NEW k \in s, \A i \in s : i <= k
  PROVE  Max(s) = k
<1>1. \E x \in s : \A y \in s : x >= y
  OBVIOUS
<1>2. Max(s) \in s /\ \A y \in s : Max(s) >= y
  BY <1>1 DEF Max
<1>3. Max(s) \in Int /\ k \in Int /\ Max(s) >= k /\ Max(s) <= k
  BY <1>2
<1> QED BY <1>3

\* A table for k positions extends to one for the next.
LEMMA FoldOneFurther ==
  ASSUME NEW k \in Nat, NEW roles, NEW chain, NEW g, Folds(g, roles, chain, k)
  PROVE  \E h : Folds(h, roles, chain, k + 1)
<1> DEFINE h == [s \in SUBSET (1..(k + 1)) |->
                   IF k + 1 \in s THEN Push(g[s \ {k + 1}], chain[k + 1]) ELSE g[s]]
<1>1. g = [s \in SUBSET (1..k) |->
         IF s = {} THEN roles ELSE Push(g[s \ {Max(s)}], chain[Max(s)])]
  BY DEF Folds
<1>2. \A s \in SUBSET (1..k) : s \in SUBSET (1..(k + 1)) /\ h[s] = g[s]
  OBVIOUS
<1>3. ASSUME NEW s \in SUBSET (1..(k + 1))
      PROVE  h[s] = IF s = {} THEN roles ELSE Push(h[s \ {Max(s)}], chain[Max(s)])
  <2>1. CASE k + 1 \in s
    <3>1. Max(s) = k + 1
      <4>1. s \subseteq Int /\ \A i \in s : i <= k + 1
        OBVIOUS
      <4> QED BY <2>1, <4>1, GreatestIsMax
    <3>2. s \ {k + 1} \in SUBSET (1..k)
      OBVIOUS
    <3>3. h[s] = Push(g[s \ {k + 1}], chain[k + 1])
      BY <2>1
    <3>4. h[s \ {k + 1}] = g[s \ {k + 1}]
      BY <1>2, <3>2
    <3> HIDE DEF h
    <3> QED BY <2>1, <3>1, <3>3, <3>4
  <2>2. CASE k + 1 \notin s
    <3>1. s \in SUBSET (1..k) /\ s \ {Max(s)} \in SUBSET (1..k)
      <4>1. \A i \in 1..(k + 1) : i # k + 1 => i \in 1..k
        OBVIOUS
      <4>2. s \subseteq 1..k
        BY <2>2, <4>1
      <4> QED BY <4>2
    <3>2. h[s] = g[s] /\ h[s \ {Max(s)}] = g[s \ {Max(s)}]
      BY <1>2, <3>1
    <3>3. g[s] = IF s = {} THEN roles ELSE Push(g[s \ {Max(s)}], chain[Max(s)])
      BY <1>1, <3>1
    <3> HIDE DEF h
    <3> QED BY <3>2, <3>3
  <2> QED BY <2>1, <2>2
<1>4. h = [s \in SUBSET (1..(k + 1)) |-> h[s]]
  OBVIOUS
<1> HIDE DEF h
<1>5. h = [s \in SUBSET (1..(k + 1)) |->
             IF s = {} THEN roles ELSE Push(h[s \ {Max(s)}], chain[Max(s)])]
  BY <1>3, <1>4
<1> QED BY <1>5 DEF Folds

\* There is such a table, whatever the chain.
LEMMA FoldExists ==
  ASSUME NEW roles, NEW chain, NEW n \in Nat
  PROVE  \E g : Folds(g, roles, chain, n)
<1> DEFINE T == {k \in Nat : ~\E g : Folds(g, roles, chain, k)}
<1> SUFFICES ASSUME T # {} PROVE FALSE
  OBVIOUS
<1>1. PICK k \in T : \A m \in T : k <= m
  BY LeastNatural
<1>2. CASE k = 0
  <2> DEFINE g == [s \in {{}} |-> roles]
  <2>1. SUBSET (1..0) = {{}}
    OBVIOUS
  <2>2. Folds(g, roles, chain, 0)
    BY <2>1 DEF Folds
  <2> QED BY <1>2, <2>2
<1>3. CASE k # 0
  <2>1. k - 1 \in Nat /\ k - 1 \notin T /\ (k - 1) + 1 = k
    BY <1>1, <1>3
  <2>2. PICK g : Folds(g, roles, chain, k - 1)
    BY <2>1
  <2>3. \E h : Folds(h, roles, chain, (k - 1) + 1)
    BY <2>1, <2>2, FoldOneFurther
  <2> QED BY <2>1, <2>3
<1> QED BY <1>2, <1>3

\* The fold reads its result from one.
LEMMA FoldIsFold ==
  ASSUME NEW S, NEW roles, NEW chain \in Seq(S)
  PROVE  \E g : /\ Folds(g, roles, chain, Len(chain))
                /\ FoldLeft(Push, roles, chain) = g[1..Len(chain)]
<1>1. Len(chain) \in Nat /\ DOMAIN chain = 1..Len(chain)
  OBVIOUS
<1> DEFINE g == CHOOSE g : g = [s \in SUBSET (DOMAIN chain) |->
                  IF s = {} THEN roles ELSE Push(g[s \ {Max(s)}], chain[Max(s)])]
<1>2. FoldLeft(Push, roles, chain) = g[DOMAIN chain]
  BY Zenon DEF FoldLeft, MapThenFoldSet
<1>3. \E f : f = [s \in SUBSET (DOMAIN chain) |->
                  IF s = {} THEN roles ELSE Push(f[s \ {Max(s)}], chain[Max(s)])]
  <2>1. PICK f : Folds(f, roles, chain, Len(chain))
    BY <1>1, FoldExists
  <2>2. f = [s \in SUBSET (1..Len(chain)) |->
               IF s = {} THEN roles ELSE Push(f[s \ {Max(s)}], chain[Max(s)])]
    BY <2>1 DEF Folds
  <2> QED BY <1>1, <2>2
<1>4. g = [s \in SUBSET (DOMAIN chain) |->
                  IF s = {} THEN roles ELSE Push(g[s \ {Max(s)}], chain[Max(s)])]
  BY <1>3
<1> HIDE DEF g
<1> QED BY <1>1, <1>2, <1>4 DEF Folds

LEMMA PushOne ==
  ASSUME NEW S, NEW roles \in Seq(S), IsInjective(roles), NEW role \in S,
         NEW all, all = Push(roles, role)
  PROVE  /\ all \in Seq(S) /\ IsInjective(all)
         /\ ToSet(all) = ToSet(roles) \cup {role}
<1>1. CASE role \in ToSet(roles)
  BY <1>1 DEF Push
<1>2. CASE role \notin ToSet(roles)
  <2>1. all = Append(roles, role)
    BY <1>2 DEF Push
  <2>2. all \in Seq(S) /\ ToSet(all) = ToSet(roles) \cup {role}
    BY <2>1, OneMore
  <2>3. /\ Len(roles) \in Nat /\ DOMAIN roles = 1..Len(roles)
        /\ DOMAIN all = 1..(Len(roles) + 1)
        /\ \A i \in 1..Len(roles) : all[i] = roles[i]
        /\ all[Len(roles) + 1] = role
    BY <2>1
  <2>4. \A i \in 1..Len(roles) : roles[i] # role
    BY <1>2, <2>3 DEF ToSet
  <2>5. \A i \in 1..(Len(roles) + 1) : i \in 1..Len(roles) \/ i = Len(roles) + 1
    BY <2>3
  <2>6. IsInjective(all)
    BY <2>3, <2>4, <2>5 DEF IsInjective
  <2> QED BY <2>2, <2>6
<1> QED BY <1>1, <1>2

\* Each role of the chain is required once, beside those that were.
LEMMA PushAll ==
  ASSUME NEW S, NEW roles \in Seq(S), IsInjective(roles), NEW chain \in Seq(S)
  PROVE  /\ FoldLeft(Push, roles, chain) \in Seq(S)
         /\ IsInjective(FoldLeft(Push, roles, chain))
         /\ ToSet(FoldLeft(Push, roles, chain)) = ToSet(roles) \cup ToSet(chain)
<1> DEFINE n == Len(chain)
<1>1. n \in Nat /\ DOMAIN chain = 1..n /\ \A i \in 1..n : chain[i] \in S
  OBVIOUS
<1>2. PICK g : /\ Folds(g, roles, chain, n)
               /\ FoldLeft(Push, roles, chain) = g[1..n]
  BY FoldIsFold
<1> DEFINE Right(k) == /\ g[1..k] \in Seq(S) /\ IsInjective(g[1..k])
                       /\ ToSet(g[1..k]) = ToSet(roles) \cup {chain[i] : i \in 1..k}
           T == {k \in 0..n : ~Right(k)}
<1>3. g = [s \in SUBSET (1..n) |->
             IF s = {} THEN roles ELSE Push(g[s \ {Max(s)}], chain[Max(s)])]
  BY <1>2 DEF Folds
<1>4. Right(0)
  <2>1. 1..0 = {} /\ g[{}] = roles
    BY <1>3
  <2> QED BY <2>1
<1>5. ASSUME NEW k \in 1..n, Right(k - 1) PROVE Right(k)
  <2>1. k \in Nat /\ 1..k \in SUBSET (1..n) /\ k \in 1..k /\ (1..k) \ {k} = 1..(k - 1)
    BY <1>1
  <2>2. Max(1..k) = k
    <3>1. 1..k \in SUBSET Int /\ \A i \in 1..k : i <= k
      BY <2>1
    <3> QED BY <2>1, <3>1, GreatestIsMax
  <2>3. g[1..k] = Push(g[1..(k - 1)], chain[k])
    <3> DEFINE s == 1..k
    <3>1. s \in SUBSET (1..n) /\ s # {} /\ Max(s) = k /\ s \ {k} = 1..(k - 1)
      BY <2>1, <2>2
    <3> HIDE DEF s
    <3>2. g[s] = Push(g[s \ {Max(s)}], chain[Max(s)])
      BY <1>3, <3>1
    <3>3. g[s] = Push(g[1..(k - 1)], chain[k])
      BY <3>1, <3>2
    <3> QED BY <3>3 DEF s
  <2>4. chain[k] \in S
    BY <1>1
  <2>5. /\ g[1..k] \in Seq(S) /\ IsInjective(g[1..k])
        /\ ToSet(g[1..k]) = ToSet(g[1..(k - 1)]) \cup {chain[k]}
    <3>1. PICK before : before = g[1..(k - 1)]
      OBVIOUS
    <3>2. PICK all : all = g[1..k]
      OBVIOUS
    <3>3. before \in Seq(S) /\ IsInjective(before) /\ all = Push(before, chain[k])
      BY <1>5, <2>3, <3>1, <3>2
    <3>4. all \in Seq(S) /\ IsInjective(all) /\ ToSet(all) = ToSet(before) \cup {chain[k]}
      BY <2>4, <3>3, PushOne
    <3> QED BY <3>1, <3>2, <3>4
  <2>6. {chain[i] : i \in 1..k} = {chain[i] : i \in 1..(k - 1)} \cup {chain[k]}
    <3>1. \A i : i \in 1..k <=> i \in 1..(k - 1) \/ i = k
      BY <2>1
    <3> QED BY <3>1
  <2> QED BY <1>5, <2>5, <2>6
<1>6. T = {}
  <2> SUFFICES ASSUME T # {} PROVE FALSE
    OBVIOUS
  <2>1. T \subseteq Nat
    BY <1>1
  <2>2. PICK k \in T : \A m \in T : k <= m
    BY <2>1, LeastNatural
  <2>3. k # 0
    BY <1>4, <2>2
  <2>4. k \in 1..n /\ k - 1 \in 0..n /\ ~(k <= k - 1)
    BY <1>1, <2>2, <2>3
  <2>5. Right(k - 1)
    BY <2>2, <2>4
  <2>6. Right(k)
    BY <1>5, <2>4, <2>5
  <2> QED BY <2>2, <2>6
<1>7. Right(n)
  <2> HIDE DEF Right
  <2>1. n \in 0..n
    BY <1>1
  <2> QED BY <1>6, <2>1
<1> QED BY <1>1, <1>2, <1>7 DEF ToSet

-----------------------------------------------------------------------------
(***************************************************************************)
(* The lists of the engine, and its invariant: where every rule that applies *)
(* and matches is.                                                          *)
(***************************************************************************)
EngineTypes ==
  /\ pc \in {"start", "evaluate", "done"} /\ blocked \in BOOLEAN
  /\ queue \in Seq(Rules) /\ matched \in Seq(Rules)

\* Until the rules are fetched, and for a category that is blocked everywhere.
NothingSaid == pc = "start" \/ purchase.category \in HardBlocked

\* Every rule that applies and matches is in one of the lists, in its place.
Queued ==
  /\ Sorted(queue)
  /\ \A q \in ToSet(queue) : Applicable(q)
  /\ \A r \in Rules : Applicable(r) /\ Matches(r) => r \in ToSet(queue) \cup ToSet(matched)
  /\ \A m \in ToSet(matched), q \in ToSet(queue) : table[m].priority >= table[q].priority

HadSay(m) == Applicable(m) /\ Matches(m) /\ (table[m].action.type = "block" => blocked)

Outcome ==
  /\ blocked => pc = "done"
  /\ pc = "done" /\ ~blocked => queue = << >> /\ purchase.category \notin HardBlocked
  /\ pc = "evaluate" => purchase.category \notin HardBlocked
  /\ blocked /\ purchase.category \notin HardBlocked =>
       \E m \in ToSet(matched) : table[m].action.type = "block"

EngineInv ==
  /\ TypesKnown
  /\ EngineTypes
  /\ NothingSaid => matched = << >>
  /\ ~NothingSaid => Queued
  /\ \A m \in ToSet(matched) : HadSay(m)
  /\ Outcome

LEMMA NothingInEmpty == ToSet(<< >>) = {}
  BY DEF ToSet

\* No step writes the purchase, the policy or the table.
LEMMA TableStays ==
  ASSUME [Next]_vars
  PROVE  /\ purchase' = purchase /\ table' = table /\ policy' = policy
         /\ \A r : Applicable(r)' = Applicable(r) /\ Matches(r)' = Matches(r)
         /\ \A s : Sorted(s)' = Sorted(s)
<1>1. purchase' = purchase /\ table' = table /\ policy' = policy
  BY DEF Next, vars, engineVars, Judge, Evaluate, EngineNext, HardBlock, GetApplicableRules,
         Skip, Block, RequireApproval, Note, Done
<1>2. \A r : Applicable(r)' = Applicable(r)
  BY <1>1 DEF Applicable
<1>3. \A r : Matches(r)' = Matches(r)
  BY <1>1 DEF Matches
<1>4. \A s : Sorted(s)' = Sorted(s)
  BY <1>1 DEF Sorted
<1> QED BY <1>1, <1>2, <1>3, <1>4

\* A step that takes the first rule of the queue, h, and lists it when it matches.
LEMMA HeadTaken ==
  ASSUME EngineInv, [Next]_vars, pc = "evaluate", queue # << >>, queue' = Tail(queue),
         NEW h, h = Head(queue),
         \/ matched' = matched /\ ~Matches(h)
         \/ /\ matched' = Append(matched, h) /\ Matches(h)
            /\ table[h].action.type # "block",
         pc' = pc, blocked' = blocked
  PROVE  EngineInv'
<1>1. /\ purchase' = purchase /\ table' = table /\ policy' = policy
      /\ \A r : Applicable(r)' = Applicable(r) /\ Matches(r)' = Matches(r)
      /\ \A s : Sorted(s)' = Sorted(s)
  BY TableStays
<1>2. Queued /\ ~NothingSaid /\ blocked = FALSE
  BY DEF EngineInv, Outcome, NothingSaid, EngineTypes
<1>3. h \in Rules /\ queue' \in Seq(Rules) /\ ToSet(queue) = {h} \cup ToSet(queue')
  BY HeadAndTail DEF EngineInv, EngineTypes
<1>4. /\ Sorted(queue')
      /\ \A q \in ToSet(queue') : table[h].priority >= table[q].priority
  BY <1>2, SortedTail DEF EngineInv, EngineTypes, Queued
<1>5. /\ matched' \in Seq(Rules)
      /\ ToSet(matched') = ToSet(matched) \cup (IF Matches(h) THEN {h} ELSE {})
  <2>1. matched \in Seq(Rules)
    BY DEF EngineInv, EngineTypes
  <2>2. CASE matched' = matched /\ ~Matches(h)
    BY <2>1, <2>2
  <2>3. CASE matched' = Append(matched, h) /\ Matches(h)
    BY <1>3, <2>1, <2>3, OneMore
  <2> QED BY <2>2, <2>3
<1>6. TypesKnown' /\ EngineTypes'
  BY <1>1, <1>3, <1>5 DEF EngineInv, EngineTypes, TypesKnown
<1>7. ~NothingSaid'
  BY <1>1, <1>2 DEF NothingSaid
<1>8. Queued'
  <2>1. (Sorted(queue))'
    BY <1>1, <1>4
  <2>2. \A q \in ToSet(queue') : Applicable(q)'
    BY <1>1, <1>2, <1>3 DEF Queued
  <2>3. \A r \in Rules : Applicable(r) /\ Matches(r) => r \in ToSet(queue') \cup ToSet(matched')
    BY <1>2, <1>3, <1>5 DEF Queued
  <2>4. \A m \in ToSet(matched'), q \in ToSet(queue') : table[m].priority >= table[q].priority
    BY <1>2, <1>3, <1>4, <1>5 DEF Queued
  <2> QED BY <1>1, <2>1, <2>2, <2>3, <2>4 DEF Queued
<1>9. \A m \in ToSet(matched') : HadSay(m)'
  <2> TAKE m \in ToSet(matched')
  <2>1. CASE m \in ToSet(matched)
    BY <1>1, <2>1 DEF EngineInv, HadSay
  <2>2. CASE m = h /\ Matches(h)
    BY <1>1, <1>2, <1>3, <2>2 DEF Queued, HadSay
  <2> QED BY <1>5, <2>1, <2>2
<1>10. Outcome'
  BY <1>1, <1>2 DEF EngineInv, Outcome
<1> QED BY <1>6, <1>7, <1>8, <1>9, <1>10 DEF EngineInv

LEMMA EngineStep == EngineInv /\ [Next]_vars => EngineInv'
<1> SUFFICES ASSUME EngineInv, [Next]_vars PROVE EngineInv'
  OBVIOUS
<1>1. /\ purchase' = purchase /\ table' = table /\ policy' = policy
      /\ \A r : Applicable(r)' = Applicable(r) /\ Matches(r)' = Matches(r)
      /\ \A s : Sorted(s)' = Sorted(s)
  BY TableStays
<1>2. TypesKnown'
  BY <1>1 DEF EngineInv, TypesKnown
<1>3. CASE HardBlock
  <2>1. blocked' = TRUE /\ pc' = "done" /\ queue' = queue /\ matched' = matched
        /\ NothingSaid /\ NothingSaid'
    BY <1>1, <1>3 DEF HardBlock, NothingSaid
  <2>2. matched' = << >>
    BY <2>1 DEF EngineInv
  <2>3. EngineTypes' /\ Outcome'
    BY <1>1, <1>3, <2>1 DEF HardBlock, EngineInv, EngineTypes, Outcome
  <2> QED BY <1>2, <2>1, <2>2, <2>3, NothingInEmpty DEF EngineInv
<1>4. CASE GetApplicableRules
  <2> DEFINE A == {r \in Rules : Applicable(r)}
  <2>1. /\ purchase.category \notin HardBlocked /\ pc = "start" /\ pc' = "evaluate"
        /\ matched' = matched /\ blocked' = blocked
        /\ queue' \in SetToSeqs(A) /\ Sorted(queue')
    BY <1>4 DEF GetApplicableRules
  <2>2. IsFiniteSet(A)
    BY RulesAssumption, FS_Subset
  <2>3. queue' \in Seq(A) /\ ToSet(queue') = A
    BY <2>1, <2>2, AllQueued
  <2>4. queue' \in Seq(Rules)
    BY <2>3
  <2>5. matched' = << >> /\ ToSet(matched') = {} /\ ~NothingSaid'
    BY <1>1, <2>1, NothingInEmpty DEF EngineInv, NothingSaid
  <2>6. EngineTypes' /\ Outcome'
    BY <1>1, <2>1, <2>4 DEF EngineInv, EngineTypes, Outcome
  <2>7. Queued'
    BY <1>1, <2>1, <2>3, <2>5 DEF Queued
  <2> QED BY <1>2, <2>5, <2>6, <2>7 DEF EngineInv
<1>5. CASE Skip
  BY <1>5, HeadTaken DEF Skip
<1>6. CASE Block
  <2> DEFINE h == Head(queue)
  <2>1. /\ pc = "evaluate" /\ queue # << >> /\ Matches(h) /\ table[h].action.type = "block"
        /\ matched' = Append(matched, h) /\ blocked' = TRUE /\ pc' = "done" /\ queue' = queue
    BY <1>6 DEF Block
  <2>2. Queued /\ ~NothingSaid /\ ~NothingSaid'
    BY <1>1, <2>1 DEF EngineInv, Outcome, NothingSaid
  <2>3. h \in Rules /\ ToSet(queue) = {h} \cup ToSet(Tail(queue))
    BY <2>1, HeadAndTail DEF EngineInv, EngineTypes
  <2>4. \A q \in ToSet(queue) : table[h].priority >= table[q].priority
    <3>1. \A q \in ToSet(Tail(queue)) : table[h].priority >= table[q].priority
      BY <2>1, <2>2, SortedTail DEF EngineInv, EngineTypes, Queued
    <3>2. table[h].priority \in Int
      BY <2>3 DEF EngineInv, TypesKnown, CaseTypes
    <3> QED BY <2>3, <3>1, <3>2
  <2>5. matched' \in Seq(Rules) /\ ToSet(matched') = ToSet(matched) \cup {h}
    BY <2>1, <2>3, OneMore DEF EngineInv, EngineTypes
  <2>6. EngineTypes' /\ Outcome'
    BY <1>1, <2>1, <2>5 DEF EngineInv, EngineTypes, Outcome
  <2>7. Queued'
    BY <1>1, <2>1, <2>2, <2>4, <2>5 DEF Queued
  <2>8. \A m \in ToSet(matched') : HadSay(m)'
    BY <1>1, <2>1, <2>2, <2>3, <2>5 DEF EngineInv, HadSay, Queued
  <2> QED BY <1>2, <2>2, <2>6, <2>7, <2>8 DEF EngineInv
<1>7. CASE RequireApproval
  <2>1. table[Head(queue)].action.type # "block"
    BY <1>7 DEF RequireApproval
  <2> QED BY <1>7, <2>1, HeadTaken DEF RequireApproval
<1>8. CASE Note
  <2>1. table[Head(queue)].action.type # "block"
    BY <1>8 DEF Note
  <2> QED BY <1>8, <2>1, HeadTaken DEF Note
<1>9. CASE Done
  <2>1. pc = "evaluate" /\ queue = << >> /\ pc' = "done" /\ queue' = queue
        /\ matched' = matched /\ blocked' = blocked
    BY <1>9 DEF Done
  <2>2. Queued /\ ~NothingSaid /\ ~NothingSaid' /\ purchase.category \notin HardBlocked
    BY <1>1, <2>1 DEF EngineInv, Outcome, NothingSaid
  <2>3. EngineTypes' /\ Outcome'
    BY <1>1, <2>1, <2>2 DEF EngineInv, EngineTypes, Outcome
  <2>4. Queued' /\ \A m \in ToSet(matched') : HadSay(m)'
    BY <1>1, <2>1, <2>2 DEF EngineInv, Queued, HadSay
  <2> QED BY <1>2, <2>2, <2>3, <2>4 DEF EngineInv
<1>10. CASE UNCHANGED engineVars
  BY <1>1, <1>2, <1>10
     DEF engineVars, EngineInv, EngineTypes, NothingSaid, Queued, HadSay, Outcome
<1> QED BY <1>3, <1>4, <1>5, <1>6, <1>7, <1>8, <1>9, <1>10
        DEF Next, vars, Judge, Evaluate, EngineNext

LEMMA InitEngine == Init => EngineInv
<1> SUFFICES ASSUME Init PROVE EngineInv
  OBVIOUS
<1>1. TypesKnown
  BY CasesAssumption DEF Init, Start, TypesKnown
<1>2. pc = "start" /\ queue = << >> /\ matched = << >> /\ blocked = FALSE
  BY DEF Init, Start
<1>3. EngineTypes /\ NothingSaid /\ Outcome
  <2>1. << >> \in Seq(Rules)
    OBVIOUS
  <2>2. EngineTypes
    BY <1>2, <2>1 DEF EngineTypes
  <2> QED BY <1>2, <2>2 DEF NothingSaid, Outcome
<1>4. ToSet(matched) = {}
  BY <1>2, NothingInEmpty
<1> QED BY <1>1, <1>2, <1>3, <1>4 DEF EngineInv

LEMMA EngineInvariant == Spec => []EngineInv
  BY InitEngine, EngineStep, PTL DEF Spec

\* A purchase is refused exactly when its category is blocked everywhere or some
\* rule in force blocks it, whatever the other rules and the order in which the
\* database returned those of equal priority (evaluate).
THEOREM RefusedWhenBlocked == Spec => []AllowedUnlessBlocked
<1>1. EngineInv => AllowedUnlessBlocked
  <2> SUFFICES ASSUME EngineInv, pc = "done"
               PROVE  blocked <=> \/ purchase.category \in HardBlocked
                                  \/ \E r \in Rules : InForce(r, "block")
    BY DEF AllowedUnlessBlocked
  <2>1. \A m \in ToSet(matched) : m \in Rules
    BY DEF EngineInv, EngineTypes, ToSet
  <2>2. ASSUME blocked, purchase.category \notin HardBlocked
        PROVE  \E r \in Rules : InForce(r, "block")
    BY <2>1, <2>2 DEF EngineInv, Outcome, HadSay, InForce
  <2>3. ASSUME ~blocked, NEW r \in Rules, InForce(r, "block") PROVE FALSE
    <3>1. ~NothingSaid /\ queue = << >>
      BY <2>3 DEF EngineInv, Outcome, NothingSaid
    <3>2. r \in ToSet(matched)
      BY <2>3, <3>1, NothingInEmpty DEF EngineInv, Queued, InForce
    <3> QED BY <2>3, <3>2 DEF EngineInv, HadSay, InForce
  <2>4. purchase.category \in HardBlocked => blocked
    BY DEF EngineInv, Outcome
  <2> QED BY <2>2, <2>3, <2>4
<1> QED BY <1>1, EngineInvariant, PTL

\* No rule has its say before a matching one of higher priority: for every
\* finite table of rules (getApplicableRules, evaluate).
THEOREM PriorityKept == Spec => []HigherPriorityFirst
<1>1. EngineInv => HigherPriorityFirst
  <2> SUFFICES ASSUME EngineInv, NEW r \in Rules, NEW m \in ToSet(matched),
                      Applicable(r), Matches(r), table[r].priority > table[m].priority
               PROVE  r \in ToSet(matched)
    BY DEF HigherPriorityFirst
  <2>1. ~NothingSaid /\ Queued
    BY NothingInEmpty DEF EngineInv
  <2>2. m \in Rules
    BY DEF EngineInv, EngineTypes, ToSet
  <2>3. table[r].priority \in Int /\ table[m].priority \in Int
    BY <2>2 DEF EngineInv, TypesKnown, CaseTypes
  <2> QED BY <2>1, <2>3 DEF Queued
<1> QED BY <1>1, EngineInvariant, PTL

\* The roles in the chains of the rules ms that ask for an approval.
Demanded(ms) ==
  UNION {ToSet(table[r].action.approvalChain) :
           r \in {q \in ms : table[q].action.type = "require_approval"}}

RequiredInv ==
  /\ EngineInv
  /\ required \in Seq(STRING) /\ IsInjective(required)
  /\ ToSet(required) = Demanded(ToSet(matched))

LEMMA RequiredStep == RequiredInv /\ [Next]_vars => RequiredInv'
<1> SUFFICES ASSUME RequiredInv, [Next]_vars PROVE RequiredInv'
  OBVIOUS
<1>1. EngineInv /\ EngineInv'
  BY EngineStep DEF RequiredInv
<1>2. table' = table
  BY TableStays
<1>3. \A ms : Demanded(ms)' = Demanded(ms)
  BY <1>2 DEF Demanded
<1>4. CASE required' = required /\ matched' = matched
  BY <1>1, <1>3, <1>4 DEF RequiredInv
<1>5. ASSUME pc = "evaluate", queue # << >>, matched' = Append(matched, Head(queue))
      PROVE  /\ Head(queue) \in Rules
             /\ ToSet(matched') = ToSet(matched) \cup {Head(queue)}
  <2>1. Head(queue) \in Rules /\ matched \in Seq(Rules)
    BY <1>1, <1>5, HeadAndTail DEF EngineInv, EngineTypes
  <2> QED BY <1>5, <2>1, OneMore
<1>6. CASE Block \/ Note
  <2>1. /\ pc = "evaluate" /\ queue # << >> /\ matched' = Append(matched, Head(queue))
        /\ required' = required /\ table[Head(queue)].action.type # "require_approval"
    BY <1>6 DEF Block, Note
  <2>2. Demanded(ToSet(matched')) = Demanded(ToSet(matched))
    BY <1>5, <2>1 DEF Demanded
  <2> QED BY <1>1, <1>3, <2>1, <2>2 DEF RequiredInv
<1>7. CASE RequireApproval
  <2>1. PICK chain : chain = table[Head(queue)].action.approvalChain
    OBVIOUS
  <2>2. /\ pc = "evaluate" /\ queue # << >> /\ matched' = Append(matched, Head(queue))
        /\ required' = FoldLeft(Push, required, chain)
        /\ table[Head(queue)].action.type = "require_approval"
    BY <1>7, <2>1 DEF RequireApproval
  <2>3. chain \in Seq(STRING)
    BY <1>1, <1>5, <2>1, <2>2 DEF EngineInv, TypesKnown, CaseTypes
  <2>4. /\ required' \in Seq(STRING) /\ IsInjective(required')
        /\ ToSet(required') = ToSet(required) \cup ToSet(chain)
    BY <2>2, <2>3, PushAll DEF RequiredInv
  <2>5. Demanded(ToSet(matched')) = Demanded(ToSet(matched)) \cup ToSet(chain)
    BY <1>5, <2>1, <2>2 DEF Demanded
  <2> QED BY <1>1, <1>3, <2>4, <2>5 DEF RequiredInv
<1> QED BY <1>4, <1>6, <1>7
        DEF Next, vars, engineVars, Judge, Evaluate, EngineNext, HardBlock,
            GetApplicableRules, Skip, Done

\* An allowed purchase needs the approvals of all the chains in force and no
\* other, each role once: for chains of every length and every finite table
\* (evaluate).
THEOREM ChainsUnited == Spec => []ApprovalsComplete
<1>1. Init => RequiredInv
  <2> SUFFICES ASSUME Init PROVE RequiredInv
    OBVIOUS
  <2>1. EngineInv /\ required = << >> /\ matched = << >>
    BY InitEngine DEF Init, Start
  <2>2. << >> \in Seq(STRING) /\ IsInjective(<< >>)
    BY DEF IsInjective
  <2>3. Demanded({}) = {}
    BY DEF Demanded
  <2> QED BY <2>1, <2>2, <2>3, NothingInEmpty DEF RequiredInv
<1>2. RequiredInv => ApprovalsComplete
  <2> SUFFICES ASSUME RequiredInv, pc = "done", ~blocked
               PROVE  ToSet(required) = Demanded({r \in Rules : InForce(r, "require_approval")})
    BY DEF ApprovalsComplete, RequiredInv, Demanded, InForce
  <2>1. EngineInv /\ ~NothingSaid /\ queue = << >>
    BY DEF RequiredInv, EngineInv, Outcome, NothingSaid
  <2>2. \A m \in ToSet(matched) : m \in Rules /\ Applicable(m) /\ Matches(m)
    BY <2>1 DEF EngineInv, EngineTypes, HadSay, ToSet
  <2>3. \A r \in Rules : Applicable(r) /\ Matches(r) => r \in ToSet(matched)
    BY <2>1, NothingInEmpty DEF EngineInv, Queued
  <2>4. Demanded(ToSet(matched)) = Demanded({r \in Rules : InForce(r, "require_approval")})
    BY <2>2, <2>3 DEF Demanded, InForce
  <2> QED BY <2>4 DEF RequiredInv
<1> QED BY <1>1, <1>2, RequiredStep, PTL DEF Spec
=============================================================================

------------------------------ MODULE MCRules -------------------------------
(***************************************************************************)
(* The cases that PurchaseRules is checked on: each sweep varies what one   *)
(* group of checks reads, and leaves the rest at a purchase that passes.    *)
(***************************************************************************)
EXTENDS PurchaseRules

\* `bar' stands for a hard-blocked category, `bars' for a longer name with it
\* in, `CAFE' for another spelling, the empty name for a receipt without one.
MCNames == {"", "bar", "bars", "cafe", "CAFE", "seoul", "seoul jongno", "jongno"}
MCPart ==
  {<<n, n>> : n \in MCNames} \cup {<<"", n>> : n \in MCNames} \cup
  {<<"bar", "bars">>, <<"seoul", "seoul jongno">>, <<"jongno", "seoul jongno">>}
MCLower == [n \in MCNames |-> IF n = "CAFE" THEN "cafe" ELSE n]

Limit(n) == [value |-> n, text |-> TRUE]

Plain ==
  [distance |-> 0, category |-> "cafe", address |-> "seoul jongno", region |-> "seoul jongno",
   amount |-> 10, dailyUsed |-> 0, monthlyUsed |-> 0, dated |-> TRUE, hour |-> 12, day |-> 3,
   employeeId |-> "e1", department |-> "d1", dailyTransactionCount |-> 1]
Unlimited ==
  [allowedCategories |-> {}, allowedRegions |-> {}, restrictedAreas |-> {},
   perTransactionLimit |-> NoLimit, dailyLimit |-> NoLimit, monthlyLimit |-> Limit(100),
   start |-> NoHour, end |-> NoHour, weekends |-> TRUE]

AnyPurchase ==
  [categories |-> {}, regions |-> {}, amountThreshold |-> {}, timeRange |-> {},
   daysOfWeek |-> {}, maxTransactionsPerDay |-> {}]
Row(scope, target, priority, type, chain, conditions) ==
  [active |-> TRUE, scope |-> scope, scopeTarget |-> target, priority |-> priority,
   action |-> [type |-> type, approvalChain |-> chain], conditions |-> conditions]
Inactive == [Row("global", "", 9, "block", << >>, AnyPurchase) EXCEPT !.active = FALSE]
Empty == [r \in Rules |-> Inactive]

Case(p, pol, t) == [purchase |-> p, policy |-> pol, table |-> t]

TimeCases ==
  {Case([Plain EXCEPT !.hour = hour], [Unlimited EXCEPT !.start = start, !.end = end], Empty) :
     hour \in 0..23, start \in 0..NoHour, end \in 0..NoHour}
  \cup
  {Case([Plain EXCEPT !.day = day, !.dated = dated], [Unlimited EXCEPT !.weekends = weekends], Empty) :
     day \in {0, 3, 6}, dated \in BOOLEAN, weekends \in BOOLEAN}

Limits == {NoLimit, Limit(0), Limit(10), Limit(20)}
LimitCases ==
  {Case([Plain EXCEPT !.amount = amount, !.dailyUsed = used, !.monthlyUsed = used + 80],
        [Unlimited EXCEPT !.perTransactionLimit = per, !.dailyLimit = daily], Empty) :
     amount \in {0, 9, 10, 11, 20, 21}, used \in {0, 10}, per \in Limits, daily \in Limits}

PlaceCases ==
  {Case([Plain EXCEPT !.distance = distance, !.address = address],
        [Unlimited EXCEPT !.allowedRegions = allowed, !.restrictedAreas = restricted], Empty) :
     distance \in {500, 501, 1000, 1001}, address \in {"", "jongno", "seoul jongno"},
     allowed \in {{}, {"seoul"}}, restricted \in {{}, {"jongno"}, {""}}}
  \cup
  {Case([Plain EXCEPT !.category = category], [Unlimited EXCEPT !.allowedCategories = allowed], Empty) :
     category \in MCNames, allowed \in {{}, {"cafe"}, {"bars", "CAFE"}}}

\* Rules of two priorities, of every action, scope and condition.
Rows ==
  {Inactive,
   Row("global", "", 1, "block", << >>, [AnyPurchase EXCEPT !.categories = {"bars"}]),
   Row("global", "", 2, "block", << >>, [AnyPurchase EXCEPT !.amountThreshold = {10}]),
   Row("department", "d1", 1, "require_approval", <<"manager", "finance">>, AnyPurchase),
   Row("department", "d2", 2, "block", << >>, AnyPurchase),
   Row("individual", "e1", 2, "require_approval", <<"finance", "admin", "finance">>,
       [AnyPurchase EXCEPT !.timeRange = {[start |-> 22, end |-> 6]}]),
   Row("global", "", 1, "flag", << >>, [AnyPurchase EXCEPT !.daysOfWeek = {0, 6}]),
   Row("global", "", 2, "notify", << >>, [AnyPurchase EXCEPT !.regions = {"jongno"}]),
   Row("individual", "e1", 1, "block", << >>,
       [AnyPurchase EXCEPT !.maxTransactionsPerDay = {3}])}

RuleCases ==
  {Case([Plain EXCEPT !.category = category, !.amount = amount, !.hour = hour, !.day = day,
                      !.dailyTransactionCount = hour % 4], Unlimited, t) :
     category \in {"", "bar", "bars", "cafe"}, amount \in {9, 10}, hour \in {6, 7, 23},
     day \in {3, 6}, t \in [Rules -> Rows]}

MCFamilies == {TimeCases, LimitCases, PlaceCases, RuleCases}
=============================================================================

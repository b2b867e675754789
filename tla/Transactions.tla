---------------------------- MODULE Transactions ----------------------------
(***************************************************************************)
(* Transactions (modules/transactions): the table, and the calls in which   *)
(* managers approve and reject.  Such a call loads the transaction, tests   *)
(* its status and saves as TypeORM does: a SELECT that finds the columns in *)
(* which the copy differs from the row, and an UPDATE of those.             *)
(*                                                                          *)
(* Transactions are numbered by date, the newest first.  Rows come from     *)
(* createFromReceipt, which no code of the repository calls, and from the   *)
(* seeds, whose decided rows name nobody.                                   *)
(***************************************************************************)
EXTENDS Naturals, FiniteSets, Sequences

CONSTANTS
  NTransactions,   \* how many transactions there can be
  PageSize,        \* how many of them make a page
  Managers         \* who decides, one call at a time each

ASSUME PagesAssumption == NTransactions \in Nat \ {0} /\ PageSize \in Nat \ {0}

VARIABLES
  table,      \* the columns that change, for each transaction
  deciding,   \* the call in progress of each manager
  raced       \* history: the transactions that two calls worked on at once

tableVars == <<table, deciding, raced>>

Nobody == "nobody"
Ids == 1..NTransactions
Verdicts == {"approved", "rejected"}
Statuses == {"pending", "flagged"} \cup Verdicts

NoTransaction == [status |-> "absent", by |-> Nobody, reason |-> Nobody]
NoDecision == [pc |-> "idle", of |-> 0, copy |-> NoTransaction, dirty |-> {}]

\* A bound: the first transaction alone may be missing or of another status.
TableInit ==
  /\ \E first \in Statuses \cup {"absent"}, rest \in {"approved", "flagged"} :
       table = [t \in Ids |->
         [NoTransaction EXCEPT !.status = IF t = 1 THEN first ELSE rest]]
  /\ deciding = [m \in Managers |-> NoDecision]
  /\ raced = {}

CreateFromReceipt(t) ==
  /\ table[t] = NoTransaction
  /\ table' = [table EXCEPT ![t].status = "pending"]
  /\ UNCHANGED <<deciding, raced>>

-----------------------------------------------------------------------------
\* Mutant of Undecided: the status is not tested.
UndecidedAny(t) == table[t] # NoTransaction

Undecided(t) == table[t].status \in {"pending", "flagged"}

\* The reason of a rejection is told apart by who gives it.
Judged(row, m, verdict) ==
  [row EXCEPT !.status = verdict, !.by = m,
              !.reason = IF verdict = "rejected" THEN m ELSE @]

\* findOne and the test of the status: a decided transaction is refused.
Decide(m, t, verdict) ==
  /\ deciding[m].pc = "idle"
  /\ Undecided(t)
  /\ deciding' = [deciding EXCEPT ![m] =
       [pc |-> "compare", of |-> t, copy |-> Judged(table[t], m, verdict), dirty |-> {}]]
  /\ raced' = raced \cup {other \in {t} : \E n \in Managers : deciding[n].of = t}
  /\ UNCHANGED table

DecideCompare(m) ==
  LET d == deciding[m] IN
  /\ d.pc = "compare"
  /\ deciding' = [deciding EXCEPT
       ![m].dirty = {f \in DOMAIN d.copy : d.copy[f] # table[d.of][f]}, ![m].pc = "update"]
  /\ UNCHANGED <<table, raced>>

DecideUpdate(m) ==
  LET d == deciding[m] IN
  /\ d.pc = "update"
  /\ table' = [table EXCEPT ![d.of] =
       [f \in DOMAIN @ |-> IF f \in d.dirty THEN d.copy[f] ELSE @[f]]]
  /\ deciding' = [deciding EXCEPT ![m] = NoDecision]
  /\ UNCHANGED raced

\* The database connection is lost, or the process.
DecideFails(m) ==
  /\ deciding[m].pc # "idle"
  /\ deciding' = [deciding EXCEPT ![m] = NoDecision]
  /\ UNCHANGED <<table, raced>>

TableNext ==
  \/ \E t \in Ids : CreateFromReceipt(t)
  \/ \E m \in Managers, t \in Ids, verdict \in Verdicts : Decide(m, t, verdict)
  \/ \E m \in Managers : DecideCompare(m) \/ DecideUpdate(m) \/ DecideFails(m)

-----------------------------------------------------------------------------
(***************************************************************************)
(* GET /transactions: one query counts what matches, a second one reads the *)
(* page.  A parameter that the DTO does not know (search, department, the   *)
(* amounts), the filter "search" here, is refused by the validation pipe.   *)
(***************************************************************************)
Filters == {"all", "flagged", "search"}

\* ORDER BY: the k-th of the transactions selected has k - 1 newer ones before it.
Ordered(ids) ==
  [k \in 1..Cardinality(ids) |-> CHOOSE t \in ids : Cardinality({u \in ids : u <= t}) = k]

Matching(filter) ==
  Ordered({t \in Ids : table[t] # NoTransaction /\ filter \in {"all", table[t].status}})

PageOf(matching, page) ==
  SubSeq(matching, (page - 1) * PageSize + 1,
         IF page * PageSize < Len(matching) THEN page * PageSize ELSE Len(matching))

TotalPages(total) == (total + PageSize - 1) \div PageSize
=============================================================================

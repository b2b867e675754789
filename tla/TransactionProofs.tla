-------------------------- MODULE TransactionProofs --------------------------
(***************************************************************************)
(* A verdict that no other call overlapped is final, for any number of      *)
(* transactions and managers, and with any failures.                        *)
(*                                                                          *)
(* A stale save could replace it.  Whoever holds a copy of a decided        *)
(* transaction loaded it before the verdict was written, while the call     *)
(* that wrote it was in progress: the two have raced.                       *)
(*                                                                          *)
(* Then the lists of the apps, and the parts of SharedTables together.      *)
(***************************************************************************)
EXTENDS SharedTables, AdministrationProofs, FiniteSetTheorems, SequenceTheorems

Calls == [pc : {"idle", "compare", "update"}, of : Ids \cup {0}, copy : Rows,
          dirty : SUBSET {"status", "by", "reason"}]
CallsTyped ==
  /\ deciding \in [Managers -> Calls]
  /\ \A m \in Managers : deciding[m].pc # "idle" <=> deciding[m].of \in Ids
  /\ table \in [Ids -> Rows]

\* Two calls about one transaction have raced, and so has one about a transaction
\* that is decided already.
OthersRaced ==
  /\ \A m, n \in Managers :
       m # n /\ deciding[m].of = deciding[n].of /\ deciding[m].of \in Ids =>
         deciding[m].of \in raced
  /\ \A m \in Managers, t \in Ids :
       deciding[m].of = t /\ table[t].status \in Verdicts => t \in raced

DecisionInv == CallsTyped /\ OthersRaced

TableSpec == TableInit /\ [][TableNext]_tableVars

LEMMA IdsPositive == 0 \notin Ids
BY DEF Ids

LEMMA IdleTyped == NoDecision \in Calls /\ NoDecision.of = 0 /\ NoDecision.pc = "idle"
BY DEF NoDecision, NoTransaction, Calls, Rows, Statuses

LEMMA TableInitSound == TableInit => DecisionInv
<1> SUFFICES ASSUME TableInit PROVE DecisionInv
  OBVIOUS
<1>1. table \in [Ids -> Rows]
  <2>1. \A status \in Statuses \cup {"absent"} :
          [NoTransaction EXCEPT !.status = status] \in Rows
    BY DEF NoTransaction, Rows
  <2> QED
    BY <2>1 DEF TableInit, Statuses, Verdicts
<1>2. \A m \in Managers : deciding[m] = NoDecision
  BY DEF TableInit
<1> QED
  BY <1>1, <1>2, IdsPositive, IdleTyped
     DEF TableInit, DecisionInv, CallsTyped, OthersRaced

\* A decided transaction is not loaded for another decision (approve and reject).
LEMMA DecideStep ==
  ASSUME DecisionInv, NEW m \in Managers, NEW t \in Ids, NEW verdict \in Verdicts,
         Decide(m, t, verdict)
  PROVE  DecisionInv'
<1> DEFINE new == [pc |-> "compare", of |-> t, copy |-> Judged(table[t], m, verdict),
                   dirty |-> {}]
<1>1. new \in Calls /\ new.of = t /\ new.pc = "compare"
  <2>1. table[t] \in Rows
    BY DEF DecisionInv, CallsTyped
  <2>2. Judged(table[t], m, verdict) \in Rows
    BY <2>1 DEF Judged, Rows, Statuses
  <2> QED
    BY <2>2 DEF Calls
<1>2. deciding' = [deciding EXCEPT ![m] = new] /\ UNCHANGED table /\ Undecided(t)
  BY DEF Decide
<1> HIDE DEF new
<1>3. raced \subseteq raced' /\ \A n \in Managers : deciding[n].of = t => t \in raced'
  BY DEF Decide
<1>4. /\ deciding'[m] = new
      /\ \A n \in Managers \ {m} : deciding'[n] = deciding[n]
  BY <1>2 DEF DecisionInv, CallsTyped
<1>5. CallsTyped'
  BY <1>1, <1>2, <1>4 DEF DecisionInv, CallsTyped
<1>6. OthersRaced'
  <2>1. ASSUME NEW n \in Managers, NEW k \in Managers, n # k,
               deciding'[n].of = deciding'[k].of, deciding'[n].of \in Ids
        PROVE  deciding'[n].of \in raced'
    BY <1>1, <1>3, <1>4, <2>1 DEF DecisionInv, OthersRaced
  <2>2. ASSUME NEW n \in Managers, NEW u \in Ids,
               deciding'[n].of = u, table'[u].status \in Verdicts
        PROVE  u \in raced'
    BY <1>1, <1>2, <1>3, <1>4, <2>2 DEF DecisionInv, OthersRaced, Undecided, Verdicts
  <2> QED
    BY <2>1, <2>2 DEF OthersRaced
<1> QED
  BY <1>5, <1>6 DEF DecisionInv

\* A call that goes on to its UPDATE.
LEMMA CompareStep ==
  ASSUME DecisionInv, NEW m \in Managers, DecideCompare(m)
  PROVE  DecisionInv'
<1>1. /\ deciding' \in [Managers -> Calls]
      /\ \A n \in Managers : /\ deciding'[n].of = deciding[n].of
                             /\ deciding'[n].pc # "idle" <=> deciding[n].pc # "idle"
  <2> DEFINE dirty == {f \in DOMAIN deciding[m].copy :
                         deciding[m].copy[f] # table[deciding[m].of][f]}
  <2>1. dirty \subseteq {"status", "by", "reason"}
    BY DEF DecisionInv, CallsTyped, Calls, Rows
  <2>2. /\ deciding[m].pc = "compare"
        /\ deciding' = [deciding EXCEPT ![m].dirty = dirty, ![m].pc = "update"]
    BY DEF DecideCompare
  <2> HIDE DEF dirty
  <2> QED
    BY <2>1, <2>2 DEF DecisionInv, CallsTyped, Calls
<1>2. UNCHANGED <<table, raced>>
  BY DEF DecideCompare
<1>3. CallsTyped'
  BY <1>1, <1>2 DEF DecisionInv, CallsTyped
<1>4. OthersRaced'
  BY <1>1, <1>2 DEF DecisionInv, OthersRaced
<1> QED
  BY <1>3, <1>4 DEF DecisionInv

\* A call that ends, having written its transaction or not.
LEMMA EndStep ==
  ASSUME DecisionInv, NEW m \in Managers, DecideUpdate(m) \/ DecideFails(m)
  PROVE  DecisionInv'
<1> DEFINE d == deciding[m]
<1>0. d \in Calls /\ d.of \in Ids
  BY DEF DecideUpdate, DecideFails, DecisionInv, CallsTyped
<1>1. deciding' = [deciding EXCEPT ![m] = NoDecision] /\ UNCHANGED raced
  BY DEF DecideUpdate, DecideFails
<1>2. /\ deciding'[m] = NoDecision
      /\ \A n \in Managers \ {m} : deciding'[n] = deciding[n]
  BY <1>1 DEF DecisionInv, CallsTyped
<1>3. /\ table' \in [Ids -> Rows]
      /\ \A t \in Ids \ {d.of} : table'[t] = table[t]
  <2>1. CASE DecideFails(m)
    BY <2>1 DEF DecideFails, DecisionInv, CallsTyped
  <2>2. CASE DecideUpdate(m)
    <3> DEFINE row == [f \in DOMAIN table[d.of] |->
                         IF f \in d.dirty THEN d.copy[f] ELSE table[d.of][f]]
    <3>1. row \in Rows
      BY <1>0 DEF DecisionInv, CallsTyped, Calls, Rows
    <3>2. table' = [table EXCEPT ![d.of] = row]
      BY <2>2 DEF DecideUpdate
    <3> HIDE DEF row
    <3> QED
      BY <1>0, <3>1, <3>2 DEF DecisionInv, CallsTyped
  <2> QED
    BY <2>1, <2>2
<1>4. CallsTyped'
  BY <1>1, <1>2, <1>3, IdsPositive, IdleTyped DEF DecisionInv, CallsTyped
<1>5. OthersRaced'
  <2>1. ASSUME NEW n \in Managers, NEW k \in Managers, n # k,
               deciding'[n].of = deciding'[k].of, deciding'[n].of \in Ids
        PROVE  deciding'[n].of \in raced'
    BY <1>1, <1>2, <2>1, IdsPositive, IdleTyped DEF DecisionInv, OthersRaced
  <2>2. ASSUME NEW n \in Managers, NEW t \in Ids,
               deciding'[n].of = t, table'[t].status \in Verdicts
        PROVE  t \in raced'
    <3>1. n # m /\ deciding[n].of = t
      BY <1>2, <2>2, IdsPositive, IdleTyped
    <3>2. CASE t = d.of
      BY <1>1, <3>1, <3>2 DEF DecisionInv, OthersRaced
    <3>3. CASE t # d.of
      BY <1>1, <1>3, <2>2, <3>1, <3>3 DEF DecisionInv, OthersRaced
    <3> QED
      BY <3>2, <3>3
  <2> QED
    BY <2>1, <2>2 DEF OthersRaced
<1> QED
  BY <1>4, <1>5 DEF DecisionInv

LEMMA CreateFromReceiptStep ==
  ASSUME DecisionInv, NEW t \in Ids, CreateFromReceipt(t)
  PROVE  DecisionInv'
<1>1. /\ table' \in [Ids -> Rows] /\ table'[t].status = "pending"
      /\ \A u \in Ids \ {t} : table'[u] = table[u]
  BY DEF CreateFromReceipt, DecisionInv, CallsTyped, Rows, Statuses
<1> QED
  BY <1>1 DEF CreateFromReceipt, DecisionInv, CallsTyped, OthersRaced, Verdicts

LEMMA TableStep == DecisionInv /\ [TableNext]_tableVars => DecisionInv'
<1> SUFFICES ASSUME DecisionInv, [TableNext]_tableVars PROVE DecisionInv'
  OBVIOUS
<1>1. CASE UNCHANGED tableVars
  BY <1>1 DEF tableVars, DecisionInv, CallsTyped, OthersRaced
<1>2. CASE TableNext
  BY <1>2, DecideStep, CompareStep, EndStep, CreateFromReceiptStep DEF TableNext
<1> QED
  BY <1>1, <1>2

\* No step but the save of a call that has raced touches a decided transaction.
LEMMA DecidedKept ==
  ASSUME DecisionInv, TableNext, NEW t \in Ids, table[t].status \in Verdicts,
         table'[t] # table[t]
  PROVE  t \in raced
<1>1. ASSUME NEW u \in Ids, CreateFromReceipt(u) PROVE FALSE
  BY <1>1 DEF CreateFromReceipt, NoTransaction, Verdicts, DecisionInv, CallsTyped
<1>2. ASSUME NEW m \in Managers, DecideUpdate(m) PROVE t \in raced
  <2>1. deciding[m].of = t
    BY <1>2 DEF DecideUpdate, DecisionInv, CallsTyped
  <2> QED
    BY <2>1 DEF DecisionInv, OthersRaced
<1> QED
  BY <1>1, <1>2 DEF TableNext, Decide, DecideCompare, DecideFails

\* A verdict, its author and its reason stay, unless two calls worked on the
\* transaction at once (approve and reject test the status they have loaded).
THEOREM VerdictsStay == TableSpec => DecisionFinalAlone
<1>1. DecisionInv /\ [TableNext]_tableVars =>
        [\A t \in Ids : table[t].status \in Verdicts /\ table'[t] # table[t] =>
           t \in raced]_tableVars
  BY DecidedKept
<1> QED
  BY <1>1, TableInitSound, TableStep, PTL DEF TableSpec, DecisionFinalAlone

-----------------------------------------------------------------------------
(***************************************************************************)
(* Pages.                                                                   *)
(***************************************************************************)
Least(a, b) == IF a < b THEN a ELSE b
FirstPages(matching, come) == SubSeq(matching, 1, Least(come * PageSize, Len(matching)))

LEMMA TotalPagesBound ==
  ASSUME NEW total \in 0..NTransactions
  PROVE  /\ TotalPages(total) \in Pages \cup {0}
         /\ 1 \in Pages /\ Pages \subseteq Nat /\ 0 \notin Pages
         /\ \A more \in Pages : \A page \in Nat \ {0} : page < more => page + 1 \in Pages
<1> DEFINE most == TotalPages(NTransactions)
<1>1. NTransactions \in Nat /\ NTransactions >= 1 /\ PageSize \in Nat /\ PageSize >= 1
  BY PagesAssumption
<1>2. ASSUME NEW n \in Nat
      PROVE  /\ TotalPages(n) \in Nat
             /\ PageSize * TotalPages(n) <= n + PageSize - 1
             /\ n + PageSize - 1 < PageSize * (TotalPages(n) + 1)
  BY <1>1 DEF TotalPages
<1>3. TotalPages(total) <= most
  <2>1. SUFFICES ASSUME most < TotalPages(total) PROVE FALSE
    BY <1>1, <1>2
  <2>2. most \in Nat /\ TotalPages(total) \in Nat /\ most + 1 <= TotalPages(total)
    BY <1>1, <1>2, <2>1
  <2>3. \A a, b \in Nat : a <= b => PageSize * a <= PageSize * b
    BY <1>1
  <2>4. PageSize * (most + 1) <= PageSize * TotalPages(total)
    BY <2>2, <2>3
  <2>5. PageSize * TotalPages(total) <= total + PageSize - 1
    BY <1>1, <1>2
  <2>6. NTransactions + PageSize - 1 < PageSize * (most + 1)
    BY <1>1, <1>2
  <2> HIDE DEF most
  <2>7. PageSize * (most + 1) \in Nat /\ PageSize * TotalPages(total) \in Nat
    BY <1>1, <2>2
  <2> QED BY <1>1, <2>4, <2>5, <2>6, <2>7
<1>4. most >= 1
  <2>1. most # 0
    BY <1>1, <1>2
  <2> QED BY <1>1, <1>2, <2>1
<1> QED BY <1>1, <1>2, <1>3, <1>4 DEF Pages

\* A page comes after the pages before it, without a gap or a repetition.
LEMMA PageAppended ==
  ASSUME NEW S, NEW matching \in Seq(S), NEW page \in Nat, page >= 1
  PROVE  FirstPages(matching, page - 1) \o PageOf(matching, page) = FirstPages(matching, page)
<1> DEFINE a == (page - 1) * PageSize
           b == page * PageSize
           n == Len(matching)
<1>1. a \in Nat /\ b \in Nat /\ n \in Nat /\ a <= b
  BY PagesAssumption
<1>2. PageOf(matching, page) = SubSeq(matching, a + 1, Least(b, n))
  BY DEF PageOf, Least
<1>3. FirstPages(matching, page - 1) = SubSeq(matching, 1, Least(a, n))
  BY DEF FirstPages
<1>4. FirstPages(matching, page) = SubSeq(matching, 1, Least(b, n))
  BY DEF FirstPages
<1> HIDE DEF a, b
<1>5. SubSeq(matching, 1, Least(a, n)) \o SubSeq(matching, a + 1, Least(b, n))
        = SubSeq(matching, 1, Least(b, n))
  <2>1. CASE n <= a
    <3>1. Least(a, n) = n /\ Least(b, n) = n
      BY <1>1, <2>1 DEF Least
    <3>2. SubSeq(matching, a + 1, n) = << >>
      BY <1>1, <2>1, SubSeqEmpty
    <3>3. SubSeq(matching, 1, n) \in Seq(S)
      BY <1>1
    <3>4. SubSeq(matching, 1, n) \o << >> = SubSeq(matching, 1, n)
      BY <3>3, ConcatEmptySeq
    <3> QED BY <3>1, <3>2, <3>4
  <2>2. CASE a < n
    <3>1. Least(a, n) = a /\ a <= Least(b, n) /\ Least(b, n) <= n /\ Least(b, n) \in Nat
      BY <1>1, <2>2 DEF Least
    <3>2. PICK c \in Nat : c = Least(b, n) /\ a <= c /\ c <= n
      BY <3>1
    <3>3. SubSeq(matching, 1, a) \o SubSeq(matching, a + 1, c) = SubSeq(matching, 1, c)
      <4>1. /\ 1 \in 1..Len(matching) + 1 /\ a \in (1 - 1)..Len(matching)
            /\ c \in a..Len(matching)
        BY <1>1, <2>2, <3>2
      <4> QED BY <4>1, ConcatAdjacentSubSeq
    <3>4. Least(a, n) = a
      BY <3>1
    <3> QED BY <3>2, <3>3, <3>4, Zenon
  <2>3. n <= a \/ a < n
    BY <1>1
  <2> QED BY <2>1, <2>2, <2>3, Zenon
<1> QED BY <1>2, <1>3, <1>4, <1>5

LEMMA NoPages ==
  ASSUME NEW S, NEW matching \in Seq(S)
  PROVE  FirstPages(matching, 0) = << >>
<1>1. 0 * PageSize = 0
  BY PagesAssumption
<1>2. Least(0, Len(matching)) = 0
  BY DEF Least
<1> QED BY <1>1, <1>2 DEF FirstPages
-----------------------------------------------------------------------------
(***************************************************************************)
(* The transactions selected, one after the other.                          *)
(***************************************************************************)
LEMMA LeastNatural ==
  ASSUME NEW T, T \subseteq Nat, T # {}
  PROVE  \E n \in T : \A m \in T : n <= m
<1>1. PICK R : R = {ss \in Nat \X Nat : ss[1] < ss[2]} /\ IsWellFoundedOn(R, Nat)
  BY NatLessThanWellFounded DEF OpToRel
<1>2. PICK n \in T : \A m \in T : ~(<<m, n>> \in R)
  BY <1>1, WFMin
<1>3. \A m \in T : ~(m < n)
  BY <1>1, <1>2
<1> QED BY <1>3

LEMMA Counted ==
  ASSUME NEW ids \in SUBSET Ids
  PROVE  /\ IsFiniteSet(ids) /\ Cardinality(ids) \in 0..NTransactions
         /\ \A t \in Nat : /\ IsFiniteSet({u \in ids : u <= t})
                          /\ Cardinality({u \in ids : u <= t}) \in Nat
<1>1. IsFiniteSet(Ids) /\ Cardinality(Ids) = NTransactions
  BY PagesAssumption, FS_Interval DEF Ids
<1>2. /\ IsFiniteSet(ids) /\ Cardinality(ids) \in Nat /\ Cardinality(ids) <= NTransactions
  BY <1>1, FS_Subset, FS_CardinalityType
<1>3. ASSUME NEW t \in Nat
      PROVE  /\ IsFiniteSet({u \in ids : u <= t})
             /\ Cardinality({u \in ids : u <= t}) \in Nat
  BY <1>2, FS_Subset, FS_CardinalityType
<1> QED BY <1>2, <1>3, PagesAssumption

LEMMA OneMore ==
  ASSUME NEW ids \in SUBSET Ids, NEW t \in Nat, t # 0
  PROVE  Cardinality({u \in ids : u <= t}) =
           IF t \in ids THEN Cardinality({u \in ids : u <= t - 1}) + 1
                        ELSE Cardinality({u \in ids : u <= t - 1})
<1>1. PICK below : below = {u \in ids : u <= t - 1}
  OBVIOUS
<1>2. IsFiniteSet(below)
  BY <1>1, Counted
<1>3. ids \subseteq Nat
  BY DEF Ids
<1>4. CASE t \in ids
  <2>1. {u \in ids : u <= t} = below \cup {t} /\ t \notin below
    <3>1. /\ \A u \in ids : u <= t <=> u <= t - 1 \/ u = t
          /\ ~(t <= t - 1)
      BY <1>3
    <3> QED BY <1>1, <1>4, <3>1, Zenon
  <2>2. Cardinality(below \cup {t}) = Cardinality(below) + 1
    BY <1>2, <2>1, FS_AddElement
  <2> QED BY <1>1, <1>4, <2>1, <2>2
<1>5. CASE t \notin ids
  <2>1. {u \in ids : u <= t} = below
    <3>1. \A u \in ids : u <= t <=> u <= t - 1
      BY <1>3, <1>5
    <3> QED BY <1>1, <3>1, Zenon
  <2> QED BY <1>1, <1>5, <2>1
<1> QED BY <1>4, <1>5

\* The k-th transaction is one of those selected: of the numbers up to which there
\* are k of them or more, it is the least.
LEMMA KthSelected ==
  ASSUME NEW ids \in SUBSET Ids, NEW k \in 1..Cardinality(ids)
  PROVE  \E t \in ids : Cardinality({u \in ids : u <= t}) = k
<1> DEFINE upto(t) == Cardinality({u \in ids : u <= t})
           T == {t \in Nat : k <= upto(t)}
<1>1. \A t \in Nat : upto(t) \in Nat
  BY Counted
<1>2. k \in Nat /\ k >= 1
  BY Counted
<1>3. NTransactions \in T
  <2>1. {u \in ids : u <= NTransactions} = ids
    <3>1. \A u \in ids : u <= NTransactions
      BY PagesAssumption DEF Ids
    <3> QED BY <3>1, Zenon
  <2>2. NTransactions \in Nat
    BY PagesAssumption
  <2>3. k <= Cardinality(ids)
    BY Counted
  <2> QED BY <2>1, <2>2, <2>3
<1>4. PICK t \in T : \A u \in T : t <= u
  <2>1. T \subseteq Nat /\ T # {}
    BY <1>3
  <2> QED BY <2>1, LeastNatural
<1>5. t # 0
  <2>1. upto(0) = 0
    <3>1. {u \in ids : u <= 0} = {}
      <4>1. \A u \in ids : u \in Nat /\ u >= 1
        BY PagesAssumption DEF Ids
      <4>2. \A u \in ids : ~(u <= 0)
        BY <4>1
      <4> QED BY <4>2, Zenon
    <3> QED BY <3>1, FS_EmptySet
  <2> QED BY <1>2, <2>1
<1>6. t - 1 \in Nat /\ ~(k <= upto(t - 1))
  BY <1>4, <1>5
<1>7. upto(t) = IF t \in ids THEN upto(t - 1) + 1 ELSE upto(t - 1)
  BY <1>5, OneMore
<1>8. k <= upto(t) /\ t \in Nat
  OBVIOUS
<1>9. upto(t) \in Nat /\ upto(t - 1) \in Nat
  BY <1>1, <1>6, <1>8
<1> HIDE DEF upto, T
<1>10. t \in ids /\ upto(t) = k
  BY <1>2, <1>6, <1>7, <1>8, <1>9
<1> QED BY <1>10 DEF upto

LEMMA OrderedSelects ==
  ASSUME NEW ids \in SUBSET Ids
  PROVE  /\ Ordered(ids) \in Seq(ids) /\ Ordered(ids) \in Seq(Ids)
         /\ Len(Ordered(ids)) = Cardinality(ids)
         /\ Len(Ordered(ids)) \in 0..NTransactions
<1>1. Cardinality(ids) \in 0..NTransactions /\ Cardinality(ids) \in Nat
  BY Counted, PagesAssumption
<1>2. ASSUME NEW k \in 1..Cardinality(ids) PROVE Ordered(ids)[k] \in ids
  <2>1. Ordered(ids)[k] = CHOOSE t \in ids : Cardinality({u \in ids : u <= t}) = k
    BY DEF Ordered
  <2> QED BY <2>1, KthSelected, Zenon
<1>3. Ordered(ids) = [k \in 1..Cardinality(ids) |-> Ordered(ids)[k]]
  BY DEF Ordered
<1> QED BY <1>1, <1>2, <1>3

-----------------------------------------------------------------------------
(***************************************************************************)
(* The lists, for any number of transactions, sizes of a page and requests  *)
(* in progress.                                                             *)
(***************************************************************************)
QueryKeys == [filter : Filters, page : Pages]
Screens ==
  [filter : Filters, page : Pages, pages : Pages \cup {0}, shown : Seq(Ids),
   loading : BOOLEAN, more : BOOLEAN, broken : BOOLEAN, home : BOOLEAN]
Loads ==
  {l \in [pc : {"none", "sent", "counted", "read"}, filter : Filters, page : Pages \cup {0},
          total : 0..NTransactions, data : Data] :
     l.pc # "none" => l.page \in Pages}
Answers == [filter : Filters, page : Pages, data : Data]

ListsTyped ==
  /\ app \in {"none", "flutter", "native", "web"}
  /\ list \in Screens
  /\ cache \in [QueryKeys -> Answers \cup {Nothing}]
  /\ load \in [Slots -> Loads]
  /\ whole \in BOOLEAN

\* What is cached for a key was fetched for it.
CachedByKey ==
  \A key \in QueryKeys : cache[key] # Nothing =>
    cache[key].filter = key.filter /\ cache[key].page = key.page

\* The screen sc of Flutter with its loads ld, where the filter matches matching:
\* while nothing comes between, one page is on its way at most, it is the one
\* after those shown, and the screen waits for it.
InOrder(sc, ld, matching) ==
  /\ \A s \in Slots : ld[s].pc # "none" =>
       /\ sc.loading \/ sc.more
       /\ \A t \in Slots : ld[t].pc # "none" => t = s
       /\ ld[s].filter = sc.filter /\ ld[s].page = sc.page
       /\ ld[s].pc = "read" => ld[s].data = PageOf(matching, sc.page)
  /\ sc.shown = FirstPages(matching, IF sc.loading \/ sc.more THEN sc.page - 1 ELSE sc.page)

Gapless == app = "flutter" /\ whole => InOrder(list, load, Matching(list.filter))

ListInv == ListsTyped /\ CachedByKey /\ Gapless

LEMMA PagesTypes ==
  /\ Pages \subseteq Nat /\ 1 \in Pages /\ 0 \notin Pages
  /\ \A more \in Pages : \A page \in Nat \ {0} : page < more => page + 1 \in Pages
<1>1. 1 \in 0..NTransactions
  BY PagesAssumption
<1> QED BY <1>1, TotalPagesBound

LEMMA MatchingSelects ==
  ASSUME NEW filter
  PROVE  /\ Matching(filter) \in Seq(Ids)
         /\ Len(Matching(filter)) \in 0..NTransactions
         /\ \A page \in Pages : PageOf(Matching(filter), page) \in Data
<1> DEFINE ids == {t \in Ids : table[t] # NoTransaction /\ filter \in {"all", table[t].status}}
<1>1. ids \in SUBSET Ids /\ Matching(filter) = Ordered(ids)
  BY Zenon DEF Matching
<1> HIDE DEF ids
<1> QED BY <1>1, OrderedSelects DEF Data

LEMMA DataTypes == << >> \in Data /\ Data \subseteq Seq(Ids)
<1>1. << >> \in Data
  <2>1. Ordered({}) \in Seq({}) /\ Len(Ordered({})) = 0
    <3>1. {} \in SUBSET Ids /\ Cardinality({}) = 0
      BY FS_EmptySet
    <3> QED BY <3>1, OrderedSelects
  <2>2. Ordered({}) = << >>
    BY <2>1
  <2>3. (1 - 1) * PageSize + 1 = 1 /\ 1 * PageSize = PageSize /\ ~(PageSize < 0)
    BY PagesAssumption
  <2>4. PageOf(<< >>, 1) = SubSeq(<< >>, 1, 0)
    BY <2>3 DEF PageOf
  <2>5. SubSeq(<< >>, 1, 0) = << >>
    BY SubSeqEmpty
  <2>6. {} \in SUBSET Ids /\ 1 \in Pages
    BY PagesTypes
  <2>7. << >> = PageOf(Ordered({}), 1)
    BY <2>2, <2>4, <2>5
  <2> QED BY <2>6, <2>7 DEF Data
<1>2. ASSUME NEW ids \in SUBSET Ids, NEW page \in Pages
      PROVE  PageOf(Ordered(ids), page) \in Seq(Ids)
  <2>1. PICK s \in Seq(Ids) : s = Ordered(ids)
    BY OrderedSelects
  <2>2. PICK from \in Nat : from = (page - 1) * PageSize + 1 /\ from >= 1
    <3>1. page \in Nat /\ page >= 1
      BY PagesTypes
    <3>2. (page - 1) * PageSize \in Nat
      BY <3>1, PagesAssumption
    <3> QED BY <3>2
  <2>3. PICK to \in Nat :
          /\ to = IF page * PageSize < Len(s) THEN page * PageSize ELSE Len(s)
          /\ to <= Len(s)
    <3>1. page * PageSize \in Nat
      BY PagesTypes, PagesAssumption
    <3> QED BY <3>1
  <2>4. SubSeq(s, from, to) \in Seq(Ids)
    BY <2>2, <2>3
  <2> QED BY <2>1, <2>2, <2>3, <2>4 DEF PageOf
<1> QED BY <1>1, <1>2 DEF Data

LEMMA NoLoadTypes == NoLoad \in Loads /\ NoLoad.pc = "none" /\ Nothing \notin Answers
BY DataTypes, PagesTypes, PagesAssumption DEF NoLoad, Loads, Nothing, Answers, Filters

LEMMA SameTable == UNCHANGED tableVars => \A filter : Matching(filter)' = Matching(filter)
BY DEF tableVars, Matching

-----------------------------------------------------------------------------
\* Two actions of the server, about one request.
LEMMA ServerStep ==
  ASSUME ListInv, UNCHANGED tableVars, NEW s \in Slots, Count(s) \/ Read(s)
  PROVE  ListInv'
<1>1. PICK l \in Loads : l = load[s] /\ l.pc # "none" /\ l.page \in Pages
  BY DEF Count, Read, ListInv, ListsTyped, Loads
<1>2. PICK g \in Loads :
        /\ load' = [load EXCEPT ![s] = g]
        /\ g.pc # "none" /\ g.filter = l.filter /\ g.page = l.page
        /\ g.pc = "read" => g.data = PageOf(Matching(l.filter), l.page)
  <2>1. CASE Count(s)
    <3> DEFINE g == [l EXCEPT !.total = Len(Matching(l.filter)), !.pc = "counted"]
    <3>1. g \in Loads /\ g.pc = "counted" /\ g.filter = l.filter /\ g.page = l.page
      BY <1>1, MatchingSelects DEF Loads
    <3>2. load' = [load EXCEPT ![s] = g]
      BY <1>1, <2>1 DEF Count, ListInv, ListsTyped
    <3> HIDE DEF g
    <3> QED BY <3>1, <3>2
  <2>2. CASE Read(s)
    <3> DEFINE g == [l EXCEPT !.data = PageOf(Matching(l.filter), l.page), !.pc = "read"]
    <3>1. /\ g \in Loads /\ g.pc = "read" /\ g.filter = l.filter /\ g.page = l.page
          /\ g.data = PageOf(Matching(l.filter), l.page)
      BY <1>1, MatchingSelects DEF Loads
    <3>2. load' = [load EXCEPT ![s] = g]
      BY <1>1, <2>2 DEF Read, ListInv, ListsTyped
    <3> HIDE DEF g
    <3> QED BY <3>1, <3>2
  <2> QED BY <2>1, <2>2
<1>3. UNCHANGED <<app, list, cache, whole>> /\ \A f : Matching(f)' = Matching(f)
  BY SameTable DEF Count, Read
<1>4. load'[s] = g /\ \A t \in Slots \ {s} : load'[t] = load[t]
  BY <1>2 DEF ListInv, ListsTyped
<1>5. ListsTyped'
  BY <1>2, <1>3 DEF ListInv, ListsTyped
<1>6. CachedByKey'
  BY <1>3 DEF ListInv, CachedByKey
<1>7. ASSUME app = "flutter", whole
      PROVE  InOrder(list, load', Matching(list.filter))
  <2>1. PICK m : m = Matching(list.filter) /\ InOrder(list, load, m)
    BY <1>7 DEF ListInv, Gapless
  <2>2. /\ list.loading \/ list.more
        /\ \A t \in Slots : load[t].pc # "none" => t = s
        /\ g.filter = list.filter /\ g.page = list.page
    BY <1>1, <1>2, <2>1 DEF InOrder
  <2>3. g.pc = "read" => g.data = PageOf(m, list.page)
    BY <1>1, <1>2, <2>1, <2>2
  <2> QED BY <1>4, <2>1, <2>2, <2>3 DEF InOrder
<1>8. Gapless'
  BY <1>3, <1>7 DEF Gapless
<1> QED BY <1>5, <1>6, <1>8 DEF ListInv

-----------------------------------------------------------------------------
\* Flutter.  The answer of a reset alone begins a new list.
LEMMA AgainStep ==
  ASSUME ListInv, UNCHANGED tableVars, NEW s \in Slots, NEW filter \in Filters, Again(s, filter)
  PROVE  ListInv'
<1>1. PICK sc \in Screens :
        /\ list' = sc /\ sc.filter = filter /\ sc.page = 1 /\ sc.shown = << >> /\ sc.loading
  <2>1. list' = [list EXCEPT !.filter = filter, !.page = 1, !.shown = <<>>, !.loading = TRUE]
    BY DEF Again
  <2>2. list \in Screens
    BY DEF ListInv, ListsTyped
  <2> DEFINE sc == [list EXCEPT !.filter = filter, !.page = 1, !.shown = <<>>, !.loading = TRUE]
  <2>3. sc \in Screens
    <3>0. << >> \in Seq(Ids)
      OBVIOUS
    <3>1. PICK none \in Seq(Ids) : none = << >>
      BY <3>0, Zenon
    <3>2. PICK first \in Pages : first = 1
      BY PagesTypes
    <3>3. [list EXCEPT !.filter = filter, !.page = first, !.shown = none, !.loading = TRUE]
            \in Screens
      BY <2>2 DEF Screens
    <3> QED BY <3>1, <3>2, <3>3
  <2>4. sc.filter = filter /\ sc.page = 1 /\ sc.shown = << >> /\ sc.loading
    BY <2>2 DEF Screens
  <2> HIDE DEF sc
  <2> QED BY <2>1, <2>3, <2>4 DEF sc
<1>2. PICK g \in Loads :
        load' = [load EXCEPT ![s] = g] /\ g.pc = "sent" /\ g.filter = filter /\ g.page = 1
  <2> DEFINE g == [NoLoad EXCEPT !.pc = "sent", !.filter = filter, !.page = 1]
  <2>1. g \in Loads /\ g.pc = "sent" /\ g.filter = filter /\ g.page = 1
    BY NoLoadTypes, PagesTypes DEF Loads
  <2>2. load' = [load EXCEPT ![s] = g]
    BY DEF Again, Request
  <2> HIDE DEF g
  <2> QED BY <2>1, <2>2
<1>3. UNCHANGED <<app, cache>> /\ whole' \in BOOLEAN /\ (whole' => Quiet)
  BY DEF Again, Quiet
<1>4. load'[s] = g /\ \A t \in Slots \ {s} : load'[t] = load[t]
  BY <1>2 DEF ListInv, ListsTyped
<1>5. ListsTyped'
  BY <1>1, <1>2, <1>3 DEF ListInv, ListsTyped
<1>6. CachedByKey'
  BY <1>3 DEF ListInv, CachedByKey
<1>7. ASSUME Quiet, NEW m \in Seq(Ids)
      PROVE  InOrder(list', load', m)
  <2>1. \A t \in Slots : load'[t].pc # "none" => t = s
    BY <1>4, <1>7 DEF Quiet, Idle
  <2>2. FirstPages(m, 1 - 1) = << >>
    BY NoPages
  <2> QED BY <1>1, <1>2, <1>4, <2>1, <2>2 DEF InOrder
<1>8. Gapless'
  <2>1. Matching(filter)' = Matching(filter) /\ Matching(filter) \in Seq(Ids)
    BY SameTable, MatchingSelects
  <2>2. Matching(list.filter)' = Matching(filter)
    BY <1>1, <2>1
  <2> QED BY <1>3, <1>7, <2>1, <2>2 DEF Gapless
<1> QED BY <1>5, <1>6, <1>8 DEF ListInv

LEMMA LoadMoreStep ==
  ASSUME ListInv, UNCHANGED tableVars, NEW s \in Slots, LoadMore(s)
  PROVE  ListInv'
<1>1. /\ app = "flutter" /\ ~list.loading /\ ~list.more
      /\ list \in Screens /\ list.page \in Nat /\ list.page + 1 \in Pages
  <2>1. list \in Screens /\ list.page \in Pages /\ list.pages \in Pages \cup {0}
    BY DEF ListInv, ListsTyped, Screens
  <2>2. app = "flutter" /\ ~list.loading /\ ~list.more /\ list.page < list.pages
    BY DEF LoadMore
  <2>3. list.page \in Nat \ {0}
    BY <2>1, PagesTypes
  <2>4. list.pages # 0
    BY <2>2, <2>3
  <2>5. list.page + 1 \in Pages
    BY <2>1, <2>2, <2>3, <2>4, PagesTypes
  <2> QED BY <2>1, <2>2, <2>3, <2>5
<1>2. PICK sc \in Screens :
        /\ list' = sc /\ sc.filter = list.filter /\ sc.page = list.page + 1
        /\ sc.shown = list.shown /\ sc.more
  <2>1. list' = [list EXCEPT !.more = TRUE, !.page = list.page + 1]
    BY DEF LoadMore
  <2> DEFINE sc == [list EXCEPT !.more = TRUE, !.page = list.page + 1]
  <2>2. sc \in Screens
    BY <1>1 DEF Screens
  <2>3. /\ sc.filter = list.filter /\ sc.page = list.page + 1
        /\ sc.shown = list.shown /\ sc.more
    BY <1>1 DEF Screens
  <2> QED BY <2>1, <2>2, <2>3
<1>3. PICK g \in Loads :
        /\ load' = [load EXCEPT ![s] = g] /\ g.pc = "sent" /\ g.filter = list.filter
        /\ g.page = list.page + 1
  <2> DEFINE g == [NoLoad EXCEPT !.pc = "sent", !.filter = list.filter, !.page = list.page + 1]
  <2>1. g \in Loads /\ g.pc = "sent" /\ g.filter = list.filter /\ g.page = list.page + 1
    BY <1>1, NoLoadTypes DEF Loads, Screens
  <2>2. load' = [load EXCEPT ![s] = g]
    BY DEF LoadMore, Request
  <2> HIDE DEF g
  <2> QED BY <2>1, <2>2
<1>4. UNCHANGED <<app, cache, whole>>
  BY DEF LoadMore
<1>5. load'[s] = g /\ \A t \in Slots \ {s} : load'[t] = load[t]
  BY <1>3 DEF ListInv, ListsTyped
<1>6. ListsTyped'
  BY <1>2, <1>3, <1>4 DEF ListInv, ListsTyped
<1>7. CachedByKey'
  BY <1>4 DEF ListInv, CachedByKey
<1>8. ASSUME whole, NEW m, InOrder(list, load, m)
      PROVE  InOrder(sc, load', m)
  <2>1. /\ \A t \in Slots : load'[t].pc # "none" => t = s
        /\ list.shown = FirstPages(m, list.page)
    BY <1>1, <1>5, <1>8 DEF InOrder
  <2>2. sc.page - 1 = list.page
    BY <1>1, <1>2
  <2> QED BY <1>2, <1>3, <1>5, <2>1, <2>2 DEF InOrder
<1>9. Gapless'
  <2>1. Matching(list.filter)' = Matching(list.filter)
    BY <1>2, SameTable
  <2> QED BY <1>1, <1>2, <1>4, <1>8, <2>1 DEF Gapless, ListInv
<1> QED BY <1>6, <1>7, <1>9 DEF ListInv

\* The page that comes is the next one: it goes after those shown.
LEMMA AppendedStep ==
  ASSUME ListInv, UNCHANGED tableVars, NEW s \in Slots, Appended(s)
  PROVE  ListInv'
<1>1. /\ app = "flutter" /\ load[s].pc = "read" /\ load[s] \in Loads /\ list \in Screens
      /\ list.page \in Pages /\ list.page \in Nat /\ list.page >= 1
  BY PagesTypes DEF Appended, ListInv, ListsTyped, Screens
<1>2. PICK sc \in Screens :
        /\ list' = sc /\ sc.filter = list.filter /\ sc.page = list.page
        /\ sc.shown = list.shown \o load[s].data /\ ~sc.loading /\ ~sc.more
  <2> DEFINE shown == list.shown \o load[s].data
             pages == TotalPages(load[s].total)
  <2>1. shown \in Seq(Ids)
    <3>1. list.shown \in Seq(Ids) /\ load[s].data \in Seq(Ids)
      BY <1>1, DataTypes DEF Screens, Loads
    <3> QED BY <3>1
  <2>2. pages \in Pages \cup {0}
    BY <1>1, TotalPagesBound DEF Loads
  <2>3. list' = [list EXCEPT !.shown = shown, !.pages = pages, !.loading = FALSE, !.more = FALSE]
    BY DEF Appended
  <2> HIDE DEF shown, pages
  <2>4. [list EXCEPT !.shown = shown, !.pages = pages, !.loading = FALSE, !.more = FALSE]
          \in Screens
    BY <1>1, <2>1, <2>2 DEF Screens
  <2> QED BY <1>1, <2>3, <2>4 DEF Screens, shown
<1>3. load' = [load EXCEPT ![s] = NoLoad] /\ UNCHANGED <<app, cache, whole>>
  BY DEF Appended
<1>4. load'[s] = NoLoad /\ \A t \in Slots \ {s} : load'[t] = load[t]
  BY <1>3 DEF ListInv, ListsTyped
<1>5. ListsTyped'
  BY <1>2, <1>3, NoLoadTypes DEF ListInv, ListsTyped
<1>6. CachedByKey'
  BY <1>3 DEF ListInv, CachedByKey
<1>7. ASSUME whole, NEW m \in Seq(Ids), InOrder(list, load, m)
      PROVE  InOrder(sc, load', m)
  <2>1. /\ list.loading \/ list.more
        /\ \A t \in Slots : load[t].pc # "none" => t = s
        /\ load[s].data = PageOf(m, list.page)
        /\ list.shown = FirstPages(m, list.page - 1)
    BY <1>1, <1>7 DEF InOrder
  <2>2. list.shown \o load[s].data = FirstPages(m, list.page)
    BY <1>1, <2>1, PageAppended
  <2>3. \A t \in Slots : load'[t].pc = "none"
    BY <1>4, <2>1, NoLoadTypes
  <2> QED BY <1>2, <2>2, <2>3 DEF InOrder
<1>8. Gapless'
  <2>1. Matching(list.filter)' = Matching(list.filter) /\ Matching(list.filter) \in Seq(Ids)
    BY <1>2, SameTable, MatchingSelects
  <2> QED BY <1>1, <1>2, <1>3, <1>7, <2>1 DEF Gapless, ListInv
<1> QED BY <1>5, <1>6, <1>8 DEF ListInv

\* A request is refused, times out or is lost: nothing is claimed of the list until
\* it is loaded again.
LEMMA NotAppendedStep ==
  ASSUME ListInv, NEW s \in Slots, NotAppended(s)
  PROVE  ListInv'
<1>1. list' \in Screens
  <2>1. list' = [list EXCEPT !.loading = FALSE, !.more = FALSE] /\ list \in Screens
    BY DEF NotAppended, ListInv, ListsTyped
  <2>2. [list EXCEPT !.loading = FALSE, !.more = FALSE] \in Screens
    BY <2>1 DEF Screens
  <2> QED BY <2>1, <2>2
<1>2. load' \in [Slots -> Loads]
  BY NoLoadTypes DEF NotAppended, ListInv, ListsTyped
<1>3. UNCHANGED <<app, cache>> /\ whole' = FALSE
  BY DEF NotAppended
<1>4. ListsTyped'
  BY <1>1, <1>2, <1>3 DEF ListInv, ListsTyped
<1>5. CachedByKey'
  BY <1>3 DEF ListInv, CachedByKey
<1> QED BY <1>3, <1>4, <1>5 DEF ListInv, Gapless

-----------------------------------------------------------------------------
\* The other apps: types alone, and what the dashboard caches.
LEMMA Elsewhere ==
  ASSUME ListInv, app # "flutter", UNCHANGED <<app, whole>>,
         list' \in Screens, load' \in [Slots -> Loads],
         cache' \in [QueryKeys -> Answers \cup {Nothing}], CachedByKey'
  PROVE  ListInv'
<1>1. ListsTyped'
  BY DEF ListInv, ListsTyped
<1>2. Gapless'
  BY DEF Gapless
<1> QED BY <1>1, <1>2 DEF ListInv

LEMMA AskTyped ==
  ASSUME ListInv, NEW s \in Slots, NEW filter \in Filters, NEW page \in Pages,
         Request(s, filter, page)
  PROVE  load' \in [Slots -> Loads]
<1> DEFINE g == [NoLoad EXCEPT !.pc = "sent", !.filter = filter, !.page = page]
<1>1. g \in Loads
  BY NoLoadTypes DEF Loads
<1>2. load' = [load EXCEPT ![s] = g]
  BY DEF Request
<1> HIDE DEF g
<1> QED BY <1>1, <1>2 DEF ListInv, ListsTyped

LEMMA ShowStep ==
  ASSUME ListInv, app = "web", NEW filter \in Filters, NEW page \in Pages, Show(filter, page)
  PROVE  ListInv'
<1>1. list' \in Screens
  <2>2. list' = [list EXCEPT !.filter = filter, !.page = page,
                             !.loading = cache[KeyOf(filter, page)] = Nothing]
    BY DEF Show
  <2>3. list \in Screens
    BY DEF ListInv, ListsTyped
  <2>4. (cache[KeyOf(filter, page)] = Nothing) \in BOOLEAN
    OBVIOUS
  <2>5. ASSUME NEW w \in BOOLEAN
        PROVE  [list EXCEPT !.filter = filter, !.page = page, !.loading = w] \in Screens
    BY <2>3 DEF Screens
  <2> QED BY <2>2, <2>4, <2>5, Zenon
<1>2. load' \in [Slots -> Loads]
  BY AskTyped DEF Show, ListInv, ListsTyped
<1>3. UNCHANGED <<app, cache, whole>>
  BY DEF Show
<1>4. CachedByKey'
  BY <1>3 DEF ListInv, CachedByKey
<1> QED BY <1>1, <1>2, <1>3, <1>4, Elsewhere DEF ListInv, ListsTyped

\* Where an answer ends a request: the wait for it may end.
LEMMA NoLongerLoading ==
  ASSUME ListInv, NEW over, list' = [list EXCEPT !.loading = @ /\ over]
  PROVE  list' \in Screens
<1>1. list \in Screens
  BY DEF ListInv, ListsTyped
<1>2. (list.loading /\ over) \in BOOLEAN
  OBVIOUS
<1>3. ASSUME NEW w \in BOOLEAN PROVE [list EXCEPT !.loading = w] \in Screens
  BY <1>1 DEF Screens
<1> QED BY <1>2, <1>3, Zenon

\* An answer is cached for the key of its request.
LEMMA FetchedStep ==
  ASSUME ListInv, NEW s \in Slots, Fetched(s)
  PROVE  ListInv'
<1>1. PICK l \in Loads : l = load[s] /\ l.page \in Pages
  BY DEF Fetched, ListInv, ListsTyped, Loads
<1>2. PICK a \in Answers : a = [filter |-> l.filter, page |-> l.page, data |-> l.data]
  BY <1>1 DEF Answers, Loads
<1>3. PICK key \in QueryKeys : key = KeyOf(l.filter, l.page)
  BY <1>1 DEF QueryKeys, KeyOf, Loads
<1>4. app = "web" /\ UNCHANGED <<app, whole>> /\ cache' = [cache EXCEPT ![key] = a]
      /\ load' = [load EXCEPT ![s] = NoLoad]
  BY <1>1, <1>2, <1>3, Zenon DEF Fetched
<1>5. cache'[key] = a /\ \A k \in QueryKeys \ {key} : cache'[k] = cache[k]
  BY <1>4 DEF ListInv, ListsTyped
<1>6. a.filter = key.filter /\ a.page = key.page
  BY <1>2, <1>3 DEF KeyOf
<1>7. CachedByKey'
  BY <1>5, <1>6 DEF ListInv, CachedByKey
<1>8. cache' \in [QueryKeys -> Answers \cup {Nothing}] /\ load' \in [Slots -> Loads]
  BY <1>4, NoLoadTypes DEF ListInv, ListsTyped
<1>9. list' \in Screens
  <2>1. list' = [list EXCEPT !.loading = @ /\ KeyOf(load[s].filter, load[s].page) # Chosen]
    BY DEF Fetched
  <2> QED BY <2>1, NoLongerLoading
<1> QED BY <1>4, <1>7, <1>8, <1>9, Elsewhere

LEMMA OtherWebStep ==
  ASSUME ListInv,
         \/ \E s \in Slots : NotFetched(s)
         \/ \E key \in DOMAIN cache : Collected(key)
  PROVE  ListInv'
<1>1. ASSUME NEW s \in Slots, NotFetched(s) PROVE ListInv'
  <2>1. list' = [list EXCEPT !.loading = @ /\ KeyOf(load[s].filter, load[s].page) # Chosen]
    BY <1>1 DEF NotFetched
  <2>2. list' \in Screens
    BY <2>1, NoLongerLoading
  <2>3. app = "web" /\ UNCHANGED <<app, cache, whole>> /\ load' = [load EXCEPT ![s] = NoLoad]
    BY <1>1 DEF NotFetched
  <2>4. CachedByKey'
    BY <2>3 DEF ListInv, CachedByKey
  <2>5. load' \in [Slots -> Loads] /\ cache' \in [QueryKeys -> Answers \cup {Nothing}]
    BY <2>3, NoLoadTypes DEF ListInv, ListsTyped
  <2> QED BY <2>2, <2>3, <2>4, <2>5, Elsewhere
<1>2. ASSUME NEW key \in DOMAIN cache, Collected(key) PROVE ListInv'
  <2>1. app = "web" /\ UNCHANGED <<app, list, load, whole>>
        /\ cache' = [cache EXCEPT ![key] = Nothing]
    BY <1>2 DEF Collected
  <2>2. cache \in [QueryKeys -> Answers \cup {Nothing}] /\ key \in QueryKeys
    BY DEF ListInv, ListsTyped
  <2>3. cache' \in [QueryKeys -> Answers \cup {Nothing}]
    BY <2>1, <2>2
  <2>4. CachedByKey'
    BY <2>1, <2>2 DEF ListInv, CachedByKey
  <2>5. list' \in Screens /\ load' \in [Slots -> Loads]
    BY <2>1 DEF ListInv, ListsTyped
  <2> QED BY <2>1, <2>3, <2>4, <2>5, Elsewhere
<1> QED BY <1>1, <1>2

LEMMA NativeStep ==
  ASSUME ListInv, NEW s \in Slots, NEW filter \in Filters,
         \/ Breaks(s) \/ Emptied(s) \/ OpenList(s) \/ NativeAgain(s, filter) \/ Relaunched(s)
  PROVE  ListInv'
<1>1. app = "native" /\ UNCHANGED <<app, cache, whole>>
  BY DEF Breaks, Emptied, OpenList, NativeAgain, Relaunched
<1>2. list' \in Screens
  <2>1. PICK sc \in Screens : sc = list
    BY DEF ListInv, ListsTyped
  <2>2. "all" \in Filters
    BY DEF Filters
  <2>3. ASSUME Breaks(s) PROVE list' \in Screens
    <3>1. [sc EXCEPT !.broken = TRUE] \in Screens
      BY DEF Screens
    <3> QED BY <2>1, <2>3, <3>1 DEF Breaks
  <2>4. ASSUME Emptied(s) PROVE list' \in Screens
    <3>1. [sc EXCEPT !.loading = FALSE] \in Screens
      BY DEF Screens
    <3> QED BY <2>1, <2>4, <3>1 DEF Emptied
  <2>5. ASSUME OpenList(s) PROVE list' \in Screens
    <3>1. [sc EXCEPT !.home = FALSE, !.loading = TRUE] \in Screens
      BY DEF Screens
    <3> QED BY <2>1, <2>5, <3>1 DEF OpenList
  <2>6. ASSUME NativeAgain(s, filter) PROVE list' \in Screens
    <3>1. [sc EXCEPT !.filter = filter, !.loading = TRUE] \in Screens
      BY DEF Screens
    <3> QED BY <2>1, <2>6, <3>1 DEF NativeAgain
  <2>7. ASSUME Relaunched(s) PROVE list' \in Screens
    <3>1. [sc EXCEPT !.filter = "all", !.loading = TRUE, !.broken = FALSE, !.home = TRUE]
            \in Screens
      BY <2>2 DEF Screens
    <3> QED BY <2>1, <2>7, <3>1 DEF Relaunched
  <2> QED BY <2>3, <2>4, <2>5, <2>6, <2>7
<1>3. load' \in [Slots -> Loads]
  <2>1. CASE Breaks(s) \/ Emptied(s)
    BY <2>1, NoLoadTypes DEF Breaks, Emptied, ListInv, ListsTyped
  <2>2. CASE OpenList(s) \/ NativeAgain(s, filter) \/ Relaunched(s)
    <3>1. "all" \in Filters
      BY DEF Filters
    <3> QED BY <2>2, <3>1, AskTyped, PagesTypes DEF OpenList, NativeAgain, Relaunched
  <2> QED BY <2>1, <2>2
<1>4. CachedByKey'
  BY <1>1 DEF ListInv, CachedByKey
<1>5. cache' \in [QueryKeys -> Answers \cup {Nothing}]
  BY <1>1 DEF ListInv, ListsTyped
<1> QED BY <1>1, <1>2, <1>3, <1>4, <1>5, Elsewhere

-----------------------------------------------------------------------------
LEMMA TableKeepsLists ==
  ASSUME ListInv, Table
  PROVE  ListInv'
<1>1. UNCHANGED <<app, list, cache, load>>
      /\ whole' = (whole /\ Matching(list.filter)' = Matching(list.filter))
  BY DEF Table
<1>2. ListsTyped'
  BY <1>1 DEF ListInv, ListsTyped
<1>3. CachedByKey'
  BY <1>1 DEF ListInv, CachedByKey
<1>4. Gapless'
  BY <1>1 DEF ListInv, Gapless
<1> QED BY <1>2, <1>3, <1>4 DEF ListInv

LEMMA ListsStart == ListInit => ListInv
<1> SUFFICES ASSUME ListInit PROVE ListInv
  OBVIOUS
<1>1. PICK s \in Slots : load = [other \in Slots |->
        IF app # "none" /\ other = s THEN [NoLoad EXCEPT !.pc = "sent", !.page = 1] ELSE NoLoad]
  BY DEF ListInit
<1>2. PICK first \in Loads :
        first = [NoLoad EXCEPT !.pc = "sent", !.page = 1] /\ first.pc = "sent" /\ first.page = 1
        /\ first.filter = "all"
  <2>1. [NoLoad EXCEPT !.pc = "sent", !.page = 1] \in Loads
    BY NoLoadTypes, PagesTypes DEF Loads
  <2> QED BY <2>1 DEF NoLoad
<1>3. load = [other \in Slots |-> IF app # "none" /\ other = s THEN first ELSE NoLoad]
  BY <1>1, <1>2
<1>4. load \in [Slots -> Loads]
  BY <1>2, <1>3, NoLoadTypes
<1>5. PICK b \in BOOLEAN : b <=> app = "native"
  OBVIOUS
<1>6. /\ list.filter = "all" /\ list.page = 1 /\ list.shown = << >> /\ list.loading
      /\ list \in Screens
  <2>1. << >> \in Seq(Ids)
    OBVIOUS
  <2>2. PICK none \in Seq(Ids) : none = << >>
    BY <2>1, Zenon
  <2>3. PICK one \in Pages : one = 1
    BY PagesTypes
  <2>4. list = [filter |-> "all", page |-> one, pages |-> one, shown |-> none,
                loading |-> TRUE, more |-> FALSE, broken |-> FALSE, home |-> app = "native"]
    BY <2>2, <2>3 DEF ListInit
  <2>5. (app = "native") \in BOOLEAN
    OBVIOUS
  <2>6. ASSUME NEW w \in BOOLEAN
        PROVE  [filter |-> "all", page |-> one, pages |-> one, shown |-> none,
                loading |-> TRUE, more |-> FALSE, broken |-> FALSE, home |-> w] \in Screens
    BY DEF Screens, Filters
  <2>7. list \in Screens
    BY <2>4, <2>5, <2>6, Zenon
  <2> QED BY <2>2, <2>3, <2>4, <2>7
<1>7. ListsTyped
  BY <1>4, <1>6 DEF ListInit, ListsTyped, QueryKeys
<1>8. CachedByKey
  BY DEF ListInit, CachedByKey, QueryKeys
<1>9. Gapless
  <2>1. Matching("all") \in Seq(Ids)
    BY MatchingSelects
  <2>2. PICK m \in Seq(Ids) : m = Matching("all")
    BY <2>1
  <2>3. FirstPages(m, 1 - 1) = << >>
    BY NoPages
  <2>4. \A t \in Slots : load[t].pc # "none" => t = s /\ load[t] = first
    BY <1>3, NoLoadTypes
  <2>5. InOrder(list, load, m)
    BY <1>2, <1>6, <2>3, <2>4 DEF InOrder
  <2> QED BY <1>6, <2>2, <2>5 DEF Gapless
<1> QED BY <1>7, <1>8, <1>9 DEF ListInv

LEMMA ListStep == ListInv /\ [ListNext]_<<tableVars, listVars>> => ListInv'
<1> SUFFICES ASSUME ListInv, [ListNext]_<<tableVars, listVars>> PROVE ListInv'
  OBVIOUS
<1>1. CASE UNCHANGED <<tableVars, listVars>>
  <2>1. \A f : Matching(f)' = Matching(f)
    BY <1>1, SameTable
  <2> QED BY <1>1, <2>1 DEF listVars, ListInv, ListsTyped, CachedByKey, Gapless
<1>2. CASE UNCHANGED tableVars /\ Client
  <2>1. ASSUME app = "web", Visit PROVE ListInv'
    BY <2>1, ShowStep, PagesTypes DEF Visit, Filters
  <2>2. ASSUME NEW filter \in Filters, HandleFilter(filter) PROVE ListInv'
    BY <2>2, ShowStep, PagesTypes DEF HandleFilter
  <2>3. ASSUME NEW page \in Pages, HandlePageChange(page) PROVE ListInv'
    BY <2>3, ShowStep DEF HandlePageChange, ListInv, ListsTyped, Screens
  <2>4. ASSUME NEW s \in Slots, NEW filter \in Filters, Again(s, filter) PROVE ListInv'
    BY <1>2, <2>4, AgainStep
  <2>5. ASSUME NEW s \in Slots, NEW filter \in Filters, NativeAgain(s, filter) PROVE ListInv'
    BY <2>5, NativeStep
  <2>6. ASSUME NEW s \in Slots,
               HomeBroken(s) \/ ListBroken(s) \/ Emptied(s) \/ OpenList(s) \/ Relaunched(s)
        PROVE  ListInv'
    BY <2>6, NativeStep DEF HomeBroken, ListBroken, Filters
  <2>7. ASSUME NEW s \in Slots, LoadMore(s) \/ Appended(s) \/ NotAppended(s) PROVE ListInv'
    BY <1>2, <2>7, LoadMoreStep, AppendedStep, NotAppendedStep
  <2>8. ASSUME NEW s \in Slots, Fetched(s) PROVE ListInv'
    BY <2>8, FetchedStep
  <2>9. Visit => app = "web"
    BY DEF Visit
  <2> QED BY <1>2, <2>1, <2>2, <2>3, <2>4, <2>5, <2>6, <2>7, <2>8, <2>9, OtherWebStep DEF Client
<1>3. CASE Table
  BY <1>3, TableKeepsLists
<1>4. CASE UNCHANGED tableVars /\ \E s \in Slots : Count(s) \/ Read(s)
  BY <1>4, ServerStep
<1> QED BY <1>1, <1>2, <1>3, <1>4 DEF ListNext

LEMMA ListsInvariant == ListSpec => []ListInv
  BY ListsStart, ListStep, PTL DEF ListSpec

\* Whatever the order of the answers, the dashboard shows under a filter and page
\* what was fetched for them; and Flutter's list is the first pages of its filter,
\* none missing or twice, while nothing comes between (_loadData, useQuery, findAll).
THEOREM ListsShowWhatIsSelected == ListSpec => []ListShowsSelection
<1>1. ListInv => ListShowsSelection
  <2> SUFFICES ASSUME ListInv PROVE ListShowsSelection
    OBVIOUS
  <2>1. list.filter \in Filters /\ list.page \in Pages
    BY DEF ListInv, ListsTyped, Screens
  <2>2. Chosen \in QueryKeys /\ Chosen.filter = list.filter /\ Chosen.page = list.page
    BY <2>1 DEF Chosen, KeyOf, QueryKeys
  <2>3. cache[Chosen] # Nothing =>
          cache[Chosen].filter = list.filter /\ cache[Chosen].page = list.page
    BY <2>2 DEF ListInv, CachedByKey
  <2>4. app = "flutter" /\ whole =>
          list.shown = FirstPages(Matching(list.filter),
                         IF list.loading \/ list.more THEN list.page - 1 ELSE list.page)
    BY DEF ListInv, Gapless, InOrder
  <2> QED BY <2>3, <2>4 DEF ListShowsSelection, FirstPages, Least
<1> QED BY <1>1, ListsInvariant, PTL

-----------------------------------------------------------------------------
(***************************************************************************)
(* The whole: what is proved of each part holds of the four together.       *)
(***************************************************************************)
LEMMA PartsStep ==
  [Next]_vars => /\ [ListNext]_<<tableVars, listVars>> /\ [TableNext]_tableVars
                 /\ [SettingsNext]_settingsVars /\ [ModelNext]_modelVars
                 /\ [EmployeesNext]_employeeVars
<1>1. ListNext => [TableNext]_tableVars
  BY DEF ListNext, Table
<1>2. UNCHANGED vars => UNCHANGED <<tableVars, listVars, settingsVars, modelVars, employeeVars>>
  BY DEF vars
<1> QED BY <1>1, <1>2 DEF Next

\* The parts share no variable (modules/transactions, settings, llm, employees and
\* policies), so each behaves as it does alone.
THEOREM PartsAreIndependent == Spec => ListSpec /\ SettingsSpec /\ ModelSpec /\ EmployeesSpec
<1>1. Init => ListInit /\ SettingsInit /\ ModelInit /\ EmployeesInit
  BY DEF Init
<1> QED BY <1>1, PartsStep, PTL DEF Spec, ListSpec, SettingsSpec, ModelSpec, EmployeesSpec

LEMMA TableOfLists == ListSpec => TableSpec
<1>1. ListInit => TableInit
  BY DEF ListInit
<1>2. [ListNext]_<<tableVars, listVars>> => [TableNext]_tableVars
  BY DEF ListNext, Table
<1> QED BY <1>1, <1>2, PTL DEF ListSpec, TableSpec

\* Types of the transactions and of the lists.
LEMMA ListsTypes == ListSpec => []ListsTypeOK
<1>1. TableInit => raced \subseteq Ids
  BY DEF TableInit
<1>2. raced \subseteq Ids /\ [TableNext]_tableVars => (raced \subseteq Ids)'
  BY DEF TableNext, tableVars, CreateFromReceipt, Decide, DecideCompare, DecideUpdate, DecideFails
<1>3. ListInv /\ DecisionInv /\ raced \subseteq Ids => ListsTypeOK
  <2> SUFFICES ASSUME ListInv, DecisionInv, raced \subseteq Ids PROVE ListsTypeOK
    OBVIOUS
  <2>1. table \in [Ids -> Rows] /\ deciding \in [Managers -> Calls]
    BY DEF DecisionInv, CallsTyped
  <2>2. /\ list.filter \in Filters /\ list.page \in Pages /\ list.pages \in Pages \cup {0}
        /\ \A i \in DOMAIN list.shown : list.shown[i] \in Ids
    BY DEF ListInv, ListsTyped, Screens
  <2>3. \A key \in DOMAIN cache : cache[key] = Nothing \/ cache[key].data \in Data
    BY DEF ListInv, ListsTyped, Answers
  <2>4. load \in [Slots ->
          [pc : {"none", "sent", "counted", "read"}, filter : Filters, page : Pages \cup {0},
           total : 0..NTransactions, data : Data]]
    BY DEF ListInv, ListsTyped, Loads
  <2> QED BY <2>1, <2>2, <2>3, <2>4, Zenon DEF ListsTypeOK, ListInv, ListsTyped, Calls
<1>4. TableSpec => [](raced \subseteq Ids)
  BY <1>1, <1>2, PTL DEF TableSpec
<1>5. TableSpec => []DecisionInv
  BY TableInitSound, TableStep, PTL DEF TableSpec
<1> QED BY <1>3, <1>4, <1>5, TableOfLists, ListsInvariant, PTL

LEMMA SettingsTypes == SettingsSpec => []SettingsTypeOK
<1>1. SettingsInv => SettingsTypeOK
  <2>1. 1..Len(Fields) + 1 = 1..4
    BY DEF Fields
  <2> QED BY <2>1 DEF SettingsInv, SettingsTyped, SettingsTypeOK, Saves
<1> QED BY <1>1, SettingsSound, PTL

\* Types of the provider and of the requests that are out.
ProviderTyped ==
  /\ provider \in [name : ProviderTypes \cup {"none"},
                   baseURL : Hosted \cup Endpoints \cup {NoEndpoint},
                   defaultModel : Hosted \cup Endpoints \cup {Unnamed}]
  /\ config \in Settable \cup {NoConfig}
Requests ==
  [kind : {"none", "chat", "test", "list"}, to : Hosted \cup Endpoints \cup {NoEndpoint},
   key : Hosted \cup Endpoints \cup {NoEndpoint}, model : Hosted \cup Endpoints \cup {Unnamed}]
ModelTyped == ProviderTyped /\ sent \in [Askers -> Requests]

LEMMA MessageTyped ==
  ASSUME NEW p, OfOnePlace(p), p.baseURL \in Hosted \cup Endpoints,
         NEW kind \in {"chat", "test", "list"}, NEW key, key = p.baseURL,
         NEW model \in {p.baseURL, Unnamed}
  PROVE  Message(kind, p, key, model) \in Requests
BY DEF Message, Requests, OfOnePlace

LEMMA ModelTypedStep == ModelInv /\ ModelTyped /\ [ModelNext]_modelVars => ModelTyped'
<1> SUFFICES ASSUME ModelInv, ModelTyped, [ModelNext]_modelVars PROVE ModelTyped'
  OBVIOUS
<1>1. ASSUME NEW setting \in Settable, SetProvider(setting) PROVE ModelTyped'
  <2>1. PICK t \in ProviderTypes, e \in Endpoints \cup {NoEndpoint}, named \in BOOLEAN :
          setting = Setting(t, e, named)
    BY DEF Settable
  <2>2. setting.type = t /\ setting.endpoint = e
    BY <2>1 DEF Setting
  <2>3. setting.model \in (IF t = "custom" THEN {e} ELSE {t}) \cup {Unnamed}
    BY <2>1 DEF Setting
  <2>4. CreateProvider(setting, setting.model) \in
          [name : ProviderTypes \cup {"none"}, baseURL : Hosted \cup Endpoints \cup {NoEndpoint},
           defaultModel : Hosted \cup Endpoints \cup {Unnamed}]
    <3>1. CASE t \in Hosted
      BY <2>2, <3>1 DEF CreateProvider, ProviderTypes, Hosted, Anthropic, OpenAI, Google
    <3>2. CASE t = "custom"
      <4>1. e \in Endpoints
        BY <1>1, <2>2, <3>2 DEF SetProvider, Creatable
      <4>2. CreateProvider(setting, setting.model) = Custom(e, setting.model)
        BY <2>2, <3>2 DEF CreateProvider
      <4> QED BY <2>3, <3>2, <4>1, <4>2 DEF Custom, ProviderTypes
    <3> QED BY <2>1, <3>1, <3>2 DEF ProviderTypes
  <2> QED BY <1>1, <2>4 DEF SetProvider, ModelTyped, ProviderTyped
<1>2. NotSent \in Requests
  BY DEF NotSent, Requests
<1>3. CASE Restarted
  <2>1. NoProvider \in [name : ProviderTypes \cup {"none"},
                        baseURL : Hosted \cup Endpoints \cup {NoEndpoint},
                        defaultModel : Hosted \cup Endpoints \cup {Unnamed}]
    BY DEF NoProvider
  <2> QED BY <1>2, <1>3, <2>1 DEF Restarted, ModelTyped, ProviderTyped
<1>4. ASSUME NEW a \in Askers, NEW m \in Requests, sent' = [sent EXCEPT ![a] = m],
             UNCHANGED <<provider, config>>
      PROVE  ModelTyped'
  BY <1>4 DEF ModelTyped, ProviderTyped
<1>5. ASSUME NEW a \in Askers, Returned(a) PROVE ModelTyped'
  BY <1>2, <1>4, <1>5 DEF Returned
<1>6. ASSUME NEW a \in Askers, Chat(a) PROVE ModelTyped'
  <2>1. Message("chat", provider, config.key, config.model) \in Requests
    BY <1>6, MessageTyped DEF Chat, IsConfigured, ModelInv, FieldsAgree
  <2> QED BY <1>4, <1>6, <2>1 DEF Chat
<1>7. ASSUME NEW a \in Askers, NEW setting \in Settable, TestConnection(a, setting)
      PROVE  ModelTyped'
  <2>1. PICK p : p = CreateProvider(setting, Unnamed)
    OBVIOUS
  <2>2. /\ OfOnePlace(p) /\ setting.key = p.baseURL
        /\ setting.model \in {p.baseURL, Unnamed} /\ p.baseURL \in Hosted \cup Endpoints
    <3>1. PICK model \in {setting.model, Unnamed} : model = Unnamed
      OBVIOUS
    <3> QED
      BY <1>7, <2>1, <3>1, SettingOfOnePlace DEF TestConnection
  <2>3. Message("test", p, setting.key, setting.model) \in Requests
    BY <2>2, MessageTyped
  <2> QED BY <1>4, <1>7, <2>1, <2>3 DEF TestConnection
<1>8. ASSUME NEW a \in Askers, NEW setting \in Settable, ListModels(a, setting)
      PROVE  ModelTyped'
  <2>1. setting.key = "openai"
    BY <1>8 DEF ListModels, Settable, Setting
  <2>2. [Message("list", OpenAI, setting.key, Unnamed) EXCEPT !.model = Unnamed] \in Requests
    BY <2>1 DEF Message, OpenAI, Requests, Hosted
  <2> QED BY <1>4, <1>8, <2>2 DEF ListModels
<1>9. CASE UNCHANGED modelVars
  BY <1>9 DEF modelVars, ModelTyped, ProviderTyped
<1> QED BY <1>1, <1>3, <1>5, <1>6, <1>7, <1>8, <1>9 DEF ModelNext

LEMMA ModelTypes == ModelSpec => []ModelTypeOK
<1>1. ModelInit => ModelTyped
  BY DEF ModelInit, ModelTyped, ProviderTyped, NoProvider, NotSent, Requests
<1>2. ModelTyped => ModelTypeOK
  BY DEF ModelTyped, ProviderTyped, ModelTypeOK, Requests
<1> QED BY <1>1, <1>2, ModelInitSound, ModelStep, ModelTypedStep, PTL DEF ModelSpec

\* Types of the row of the policy.
PolicyTyped == policy \in [PolicyColumns -> Names] /\ registered \in BOOLEAN

LEMMA NoPolicyTyped == NoPolicy \in [PolicyColumns -> Names]
BY DEF NoPolicy, PolicyColumns, Names

LEMMA PolicyTypedStep == PolicyTyped /\ [EmployeesNext]_employeeVars => PolicyTyped'
<1> SUFFICES ASSUME PolicyTyped, [EmployeesNext]_employeeVars PROVE PolicyTyped'
  OBVIOUS
<1>1. NoPolicy \in [PolicyColumns -> Names]
  BY NoPolicyTyped
<1>2. ASSUME NEW a \in Callers, CreatePolicy(a) PROVE PolicyTyped'
  <2>1. [monthlyLimit |-> a, otherLimits |-> a] \in [PolicyColumns -> Names]
    BY DEF PolicyColumns, Names
  <2> QED BY <1>2, <2>1 DEF CreatePolicy, PolicyTyped
<1>3. ASSUME NEW a \in Callers, UpdatePolicyRow(a) PROVE PolicyTyped'
  BY <1>1, <1>3 DEF UpdatePolicyRow, PolicyTyped, Names
<1>4. ASSUME NEW a \in Callers, Delete(a) PROVE PolicyTyped'
  BY <1>1, <1>4 DEF Delete, PolicyTyped
<1>5. ASSUME NEW a \in Callers, NEW role, Create(a, role) PROVE PolicyTyped'
  BY <1>5 DEF Create, PolicyTyped
<1>6. ASSUME UNCHANGED <<policy, registered>> PROVE PolicyTyped'
  BY <1>6 DEF PolicyTyped
<1>7. ASSUME NEW a \in Callers
      PROVE  /\ \A named : Update(a, named) \/ UpdatePolicy(a, named)
                             => UNCHANGED <<policy, registered>>
             /\ SaveSelect(a) \/ UpdateRow(a) \/ Reinsert(a) \/ Remove(a) \/ ChangePassword(a)
                  \/ SelectPolicy(a) => UNCHANGED <<policy, registered>>
  BY DEF Update, UpdatePolicy, SaveSelect, UpdateRow, Reinsert, Remove, ChangePassword,
         SelectPolicy
<1> QED BY <1>2, <1>3, <1>4, <1>5, <1>6, <1>7 DEF EmployeesNext, employeeVars

LEMMA EmployeesTypes == EmployeesSpec => []EmployeesTypeOK
<1>1. EmployeesInit => PolicyTyped
  BY NoPolicyTyped DEF EmployeesInit, PolicyTyped
<1>2. RowsInv /\ PolicyTyped => EmployeesTypeOK
  <2> SUFFICES ASSUME RowsInv, PolicyTyped PROVE EmployeesTypeOK
    OBVIOUS
  <2>1. issued \in 0..MaxPasswords /\ retired \subseteq 1..MaxPasswords
    BY MaxPasswordsAssumption DEF RowsInv, TypesHold
  <2> QED BY <2>1 DEF RowsInv, TypesHold, CallTypes, PolicyTyped, EmployeesTypeOK
<1> QED BY <1>1, <1>2, EmployeesInitSound, EmployeesStep, PolicyTypedStep, PTL DEF EmployeesSpec

\* The tables and what the apps hold of them keep their types; in particular Flutter
\* never asks for a page that no table of NTransactions has (_loadMore, findAll).
THEOREM SharedTablesTyped == Spec => []TypeOK
BY PartsAreIndependent, ListsTypes, SettingsTypes, ModelTypes, EmployeesTypes, PTL DEF TypeOK
=============================================================================

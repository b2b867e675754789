------------------------ MODULE TransactionListsProps -----------------------
(***************************************************************************)
(* What the table and the lists of transactions guarantee.                  *)
(***************************************************************************)
EXTENDS TransactionLists

Rows ==
  [status : Statuses \cup {"absent"}, by : Managers \cup {Nobody},
   reason : Managers \cup {Nobody}]
Data == {PageOf(Ordered(ids), page) : ids \in SUBSET Ids, page \in Pages}

ListsTypeOK ==
  /\ table \in [Ids -> Rows]
  /\ deciding \in [Managers ->
       [pc : {"idle", "compare", "update"}, of : Ids \cup {0}, copy : Rows,
        dirty : SUBSET {"status", "by", "reason"}]]
  /\ raced \subseteq Ids
  /\ app \in {"none", "flutter", "native", "web"}
  /\ list.filter \in Filters /\ list.page \in Pages /\ list.pages \in Pages \cup {0}
  /\ \A i \in DOMAIN list.shown : list.shown[i] \in Ids
  /\ \A key \in DOMAIN cache : cache[key] = Nothing \/ cache[key].data \in Data
  /\ load \in [Slots ->
       [pc : {"none", "sent", "counted", "read"}, filter : Filters, page : Pages \cup {0},
        total : 0..NTransactions, data : Data]]
  /\ whole \in BOOLEAN

\* A verdict on a transaction is final, and so are its author and its reason,
\* unless two calls worked on it at once (approve and reject test the status of
\* what they have loaded).
DecisionFinalAlone ==
  [][\A t \in Ids : table[t].status \in Verdicts /\ table'[t] # table[t] => t \in raced]_tableVars

\* What is on the screen belongs to what is selected.  The dashboard never shows
\* under one filter or page what it fetched for another, in whatever order the
\* answers come.  Flutter's list is the first pages of the filter, without gaps
\* or repetitions, as long as no transaction enters or leaves the filter, no
\* request fails, and no filter is tapped while a page is still to come.
ListShowsSelection ==
  /\ app = "web" /\ cache[Chosen] # Nothing =>
       cache[Chosen].filter = list.filter /\ cache[Chosen].page = list.page
  /\ app = "flutter" /\ whole =>
       LET come == IF list.loading \/ list.more THEN list.page - 1 ELSE list.page
           matching == Matching(list.filter)
       IN list.shown = SubSeq(matching, 1, IF come * PageSize < Len(matching)
                                             THEN come * PageSize ELSE Len(matching))

ListSpec == ListInit /\ [][ListNext]_<<tableVars, listVars>>
=============================================================================

-------------------------- MODULE TransactionLists --------------------------
(***************************************************************************)
(* The list of transactions in one client: Flutter's screen, which appends  *)
(* page to page, the dashboard's table, which shows one page and keeps what *)
(* it has fetched in the cache of react-query, and React Native's screens.  *)
(*                                                                          *)
(* React Native takes the envelope of the answer for the page in it, so that *)
(* the first answer throws while its home or list screen renders.           *)
(***************************************************************************)
EXTENDS Transactions

CONSTANT Slots   \* the list requests a client can have in progress at once

VARIABLES
  app,     \* which client is open: "flutter", "native", "web" or "none"
  list,    \* the state of the screen or page
  cache,   \* web: what is cached for each key
  load,    \* the requests in progress
  whole    \* history: nothing has come between the pages loaded, see Again

listVars == <<app, list, cache, load, whole>>

NoLoad == [pc |-> "none", filter |-> "all", page |-> 0, total |-> 0, data |-> <<>>]
Nothing == [filter |-> "none", page |-> 0, data |-> <<>>]
Pages == 1..TotalPages(NTransactions)

\* Mutant of KeyOf: the filters are left out of the query key.
KeyOfPage(filter, page) == [filter |-> "all", page |-> page]

KeyOf(filter, page) == [filter |-> filter, page |-> page]

\* The screen as it opens, its first request under way.
ListInit ==
  /\ TableInit
  /\ app \in {"none", "flutter", "native", "web"}
  /\ list = [filter |-> "all", page |-> 1, pages |-> 1, shown |-> <<>>,
             loading |-> TRUE, more |-> FALSE, broken |-> FALSE, home |-> app = "native"]
  /\ cache = [key \in [filter : Filters, page : Pages] |-> Nothing]
  /\ \E s \in Slots : load = [other \in Slots |->
       IF app # "none" /\ other = s THEN [NoLoad EXCEPT !.pc = "sent", !.page = 1] ELSE NoLoad]
  /\ whole = TRUE

Idle(s) == load[s].pc = "none"
Quiet == \A s \in Slots : Idle(s)

Request(s, filter, page) ==
  /\ Idle(s)
  /\ load' = [load EXCEPT ![s] = [NoLoad EXCEPT !.pc = "sent", !.filter = filter,
                                               !.page = page]]

-----------------------------------------------------------------------------
(***************************************************************************)
(* The server: findAll counts, then reads the page.                         *)
(***************************************************************************)
Count(s) ==
  /\ load[s].pc = "sent" /\ load[s].filter # "search"
  /\ load' = [load EXCEPT ![s].total = Len(Matching(load[s].filter)), ![s].pc = "counted"]
  /\ UNCHANGED <<app, list, cache, whole>>

Read(s) ==
  /\ load[s].pc = "counted"
  /\ load' = [load EXCEPT ![s].data = PageOf(Matching(load[s].filter), load[s].page),
                          ![s].pc = "read"]
  /\ UNCHANGED <<app, list, cache, whole>>

-----------------------------------------------------------------------------
(***************************************************************************)
(* Flutter.                                                                 *)
(***************************************************************************)
\* Mutant of Again: what was shown stays.
AgainKept(s, filter) ==
  /\ app = "flutter" /\ ~list.loading
  /\ list' = [list EXCEPT !.filter = filter, !.page = 1, !.loading = TRUE]
  /\ Request(s, filter, 1)
  /\ whole' = Quiet
  /\ UNCHANGED <<app, cache>>

\* A filter chip, the chosen one included, or a pull: _loadData with its reset.
\* Nothing is offered while the screen loads.  A request still in progress will
\* append what it brings to the new list.
Again(s, filter) ==
  /\ app = "flutter" /\ ~list.loading
  /\ list' = [list EXCEPT !.filter = filter, !.page = 1, !.shown = <<>>, !.loading = TRUE]
  /\ Request(s, filter, 1)
  /\ whole' = Quiet
  /\ UNCHANGED <<app, cache>>

\* Mutant of LoadMore: one page too many.
LoadMoreOver(s) ==
  /\ app = "flutter" /\ ~list.loading /\ list.shown # <<>>
  /\ ~list.more /\ list.page <= list.pages
  /\ list' = [list EXCEPT !.more = TRUE, !.page = @ + 1]
  /\ Request(s, list.filter, list.page + 1)
  /\ UNCHANGED <<app, cache, whole>>

\* The end of the list comes near.  The page is counted before it has come.
LoadMore(s) ==
  /\ app = "flutter" /\ ~list.loading /\ list.shown # <<>>
  /\ ~list.more /\ list.page < list.pages
  /\ list' = [list EXCEPT !.more = TRUE, !.page = @ + 1]
  /\ Request(s, list.filter, list.page + 1)
  /\ UNCHANGED <<app, cache, whole>>

Appended(s) ==
  /\ app = "flutter" /\ load[s].pc = "read"
  /\ list' = [list EXCEPT !.shown = @ \o load[s].data, !.pages = TotalPages(load[s].total),
                          !.loading = FALSE, !.more = FALSE]
  /\ load' = [load EXCEPT ![s] = NoLoad]
  /\ UNCHANGED <<app, cache, whole>>

\* At any time: refused, timed out, lost.  The page stays counted.
NotAppended(s) ==
  /\ app = "flutter" /\ ~Idle(s)
  /\ list' = [list EXCEPT !.loading = FALSE, !.more = FALSE]
  /\ load' = [load EXCEPT ![s] = NoLoad]
  /\ whole' = FALSE
  /\ UNCHANGED <<app, cache>>

-----------------------------------------------------------------------------
(***************************************************************************)
(* The dashboard.  useQuery shows what is cached for the key of the filters *)
(* and the page chosen, and fetches what is missing or, after 30 s, stale;  *)
(* a fetch goes on when its key is not chosen any more.                     *)
(***************************************************************************)
Chosen == KeyOf(list.filter, list.page)
Fetching(key) == \E s \in Slots : ~Idle(s) /\ KeyOf(load[s].filter, load[s].page) = key

\* Data in the cache may be fresh or stale.  One request for a key at a time.
Show(filter, page) ==
  LET key == KeyOf(filter, page) IN
  /\ list' = [list EXCEPT !.filter = filter, !.page = page, !.loading = cache[key] = Nothing]
  /\ \/ (Fetching(key) \/ cache[key] # Nothing) /\ UNCHANGED load
     \/ ~Fetching(key) /\ \E s \in Slots : Request(s, filter, page)
  /\ UNCHANGED <<app, cache, whole>>

\* handleFilter and handleReset go to the first page.  The key chosen already is
\* not fetched again.
HandleFilter(filter) ==
  /\ app = "web"
  /\ KeyOf(filter, 1) # Chosen
  /\ Show(filter, 1)

\* (Which pages the table offers is left open.)
HandlePageChange(page) ==
  /\ app = "web"
  /\ page # list.page
  /\ Show(list.filter, page)

\* The page is left, and opened again.
Visit == app = "web" /\ Show("all", 1)

Fetched(s) ==
  LET key == KeyOf(load[s].filter, load[s].page) IN
  /\ app = "web" /\ load[s].pc = "read"
  /\ cache' = [cache EXCEPT ![key] =
       [filter |-> load[s].filter, page |-> load[s].page, data |-> load[s].data]]
  /\ list' = [list EXCEPT !.loading = @ /\ key # Chosen]
  /\ load' = [load EXCEPT ![s] = NoLoad]
  /\ UNCHANGED <<app, whole>>

\* An error, after the one retry: the table is empty, or keeps what it has.
NotFetched(s) ==
  /\ app = "web" /\ ~Idle(s)
  /\ list' = [list EXCEPT !.loading = @ /\ KeyOf(load[s].filter, load[s].page) # Chosen]
  /\ load' = [load EXCEPT ![s] = NoLoad]
  /\ UNCHANGED <<app, cache, whole>>

\* What nobody has looked at for five minutes is dropped.
Collected(key) ==
  /\ app = "web" /\ key # Chosen
  /\ cache[key] # Nothing
  /\ cache' = [cache EXCEPT ![key] = Nothing]
  /\ UNCHANGED <<app, list, load, whole>>

-----------------------------------------------------------------------------
(***************************************************************************)
(* React Native, which opens at home: an error, after two retries, leaves   *)
(* an empty list; an answer breaks the app, until it is started again.      *)
(***************************************************************************)
Breaks(s) ==
  /\ app = "native" /\ load[s].pc = "read"
  /\ list' = [list EXCEPT !.broken = TRUE]
  /\ load' = [load EXCEPT ![s] = NoLoad]
  /\ UNCHANGED <<app, cache, whole>>

HomeBroken(s) == list.home /\ Breaks(s)
ListBroken(s) == ~list.home /\ Breaks(s)

Emptied(s) ==
  /\ app = "native" /\ ~Idle(s)
  /\ list' = [list EXCEPT !.loading = FALSE]
  /\ load' = [load EXCEPT ![s] = NoLoad]
  /\ UNCHANGED <<app, cache, whole>>

\* The tab of the transactions; home stays mounted behind it.
OpenList(s) ==
  /\ app = "native" /\ list.home /\ ~list.broken
  /\ list' = [list EXCEPT !.home = FALSE, !.loading = TRUE]
  /\ Request(s, "all", 1)
  /\ UNCHANGED <<app, cache, whole>>

\* Another filter, or a pull.
NativeAgain(s, filter) ==
  /\ app = "native" /\ Quiet
  /\ ~list.home /\ ~list.broken
  /\ list' = [list EXCEPT !.filter = filter, !.loading = TRUE]
  /\ Request(s, filter, 1)
  /\ UNCHANGED <<app, cache, whole>>

Relaunched(s) ==
  /\ app = "native" /\ Quiet
  /\ list.broken
  /\ list' = [list EXCEPT !.filter = "all", !.loading = TRUE, !.broken = FALSE, !.home = TRUE]
  /\ Request(s, "all", 1)
  /\ UNCHANGED <<app, cache, whole>>

-----------------------------------------------------------------------------
Client ==
  \/ \E s \in Slots, filter \in Filters \ {"search"} : Again(s, filter) \/ NativeAgain(s, filter)
  \/ \E s \in Slots : LoadMore(s) \/ Appended(s) \/ NotAppended(s)
  \/ \E s \in Slots :
       HomeBroken(s) \/ ListBroken(s) \/ Emptied(s) \/ OpenList(s) \/ Relaunched(s)
  \/ (\E filter \in Filters : HandleFilter(filter)) \/ (\E page \in Pages : HandlePageChange(page))
  \/ Visit
  \/ \E s \in Slots : Fetched(s) \/ NotFetched(s)
  \/ \E key \in DOMAIN cache : Collected(key)

\* Bounds: decisions are about the first transaction; where an app is open one
\* manager decides, and where the dashboard is, nobody.  A transaction that enters
\* or leaves what a list shows disturbs it.
Table ==
  /\ TableNext
  /\ \A m \in Managers : deciding'[m] # NoDecision =>
       /\ deciding'[m].of = 1 /\ app # "web"
       /\ app # "none" => m = CHOOSE n \in Managers : TRUE
  /\ UNCHANGED <<app, list, cache, load>>
  /\ whole' = (whole /\ Matching(list.filter)' = Matching(list.filter))

ListNext == Table \/ (UNCHANGED tableVars /\ (Client \/ \E s \in Slots : Count(s) \/ Read(s)))
=============================================================================

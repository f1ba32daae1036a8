------------------------------ MODULE MemoryLists ------------------------------
(***************************************************************************)
(* The two lists of memories of the web interface, views/memories/         *)
(* memory-list.tsx and views/vault/vault-memories.tsx (unlocked).  A fetch *)
(* is never cancelled, so that answers arrive in any order; the server     *)
(* answers it at some moment between.  Memories stand in the order the     *)
(* server sorts them by.                                                   *)
(***************************************************************************)
EXTENDS Naturals, Sequences, FiniteSets, SequencesExt

CONSTANTS
  Ids,         \* memories, numbers
  Matching,    \* those the filter and the words of the search hit
  PageSize,
  MaxFetches   \* bound: requests of a page of each kind

ASSUME ListAssumption == Ids \subseteq Nat /\ Matching \subseteq Ids /\ PageSize \in Nat \ {0}

VARIABLES
  kind,        \* "list" or "vault": which page is open
  rows,        \* server: the memories that are there
  view,        \* [page, filter, typed, query, key] of the page
  timer,       \* the search is being debounced
  fetches,     \* requests in flight [n, what, ask, ids, old, answer];
               \* "again" is a fetch for what an old render was showing
  shown,       \* [rows, total, ask]
  loading,
  sent,        \* number of requests so far
  newest,      \* number of the newest fetch that came to an end
  gone,        \* what the page said it deleted
  errs         \* why the list shown may be another: see ListSettled

lvars == <<kind, rows, view, timer, fetches, shown, loading, sent, newest, gone, errs>>

InVault == kind = "vault"

ListAsks(v) == [page |-> v.page, filter |-> v.filter, words |-> v.query]
\* The vault page names the words of its search by a parameter the server
\* does not read.
VaultAsks(v) == [page |-> v.page, filter |-> v.filter, words |-> FALSE]
\* What a view asks for.
Asked(v) == IF InVault THEN VaultAsks(v) ELSE ListAsks(v)

Hits(ask) == IF ask.filter \/ ask.words THEN Matching ELSE Ids
Answer(ask) ==
  LET hits == rows \cap Hits(ask)
      place(i) == Cardinality({j \in hits : j <= i})
  IN  [rows  |-> {i \in hits : (ask.page - 1) * PageSize < place(i) /\ place(i) <= ask.page * PageSize},
       total |-> Cardinality(hits)]

Get(n, ask) == [n |-> n, what |-> "get", ask |-> ask, ids |-> {}, old |-> {}, answer |-> {}]

NoAsk == [page |-> 0, filter |-> FALSE, words |-> FALSE]
Opening(page, filter, q) == [page |-> page, filter |-> filter, typed |-> q, query |-> q, key |-> 0]

\* The list takes its page, its filter and its words from its address.
LInit ==
  /\ kind \in {"list", "vault"} /\ rows \in SUBSET Ids /\ Cardinality(Ids \ rows) <= 1
  /\ IF InVault THEN view = Opening(1, FALSE, FALSE)
     ELSE \E page \in 1 .. 2, filter, q \in BOOLEAN : view = Opening(page, filter, q)
  /\ timer = InVault /\ loading = TRUE
  /\ fetches = {Get(1, Asked(view))} /\ sent = 1 /\ newest = 0
  /\ shown = [rows |-> {}, total |-> 0, ask |-> Asked(view)]
  /\ gone = {} /\ errs = {}

-----------------------------------------------------------------------------
\* Requests for `asks`, in this order, join the set `left` in flight.
Fetching(left, asks) ==
  /\ sent + Len(asks) <= MaxFetches[kind]
  /\ fetches' = left \cup {Get(sent + i, asks[i]) : i \in DOMAIN asks}
  /\ sent' = sent + Len(asks)
  /\ loading' = (loading \/ asks # <<>>)

\* Fault: the list is not fetched again after a deletion.
WithoutKey(v, w) == <<v.page, v.filter, v.query>> # <<w.page, w.filter, w.query>>
\* What the effect that fetches depends on.
ListChanges(v, w) == <<v.page, v.filter, v.query, v.key>> # <<w.page, w.filter, w.query, w.key>>
VaultChanges(v, w) == <<v.page, v.filter, v.typed>> # <<w.page, w.filter, w.typed>>

Refetch(v, w) ==
  IF IF InVault THEN VaultChanges(v, w) ELSE ListChanges(v, w) THEN <<Asked(w)>> ELSE <<>>

\* The page is rendered with the view w; the vault's debounce is started
\* anew with every new filter.
Render(w) ==
  /\ view' = w /\ Fetching(fetches, Refetch(view, w))
  /\ timer' = (timer \/ w.typed # view.typed \/ (InVault /\ w.filter # view.filter))
  /\ UNCHANGED <<kind, rows, shown, newest, gone, errs>>

Type == Render([view EXCEPT !.typed = ~@])
SetFilter == ~InVault /\ Render([view EXCEPT !.filter = ~@, !.page = 1])
SetVaultFilter == InVault /\ Render([view EXCEPT !.filter = ~@, !.page = 1])
\* A chip of an active filter clears it and leaves the page where it is.
ClearFilter == ~InVault /\ view.filter /\ Render([view EXCEPT !.filter = FALSE])
ActiveFilters == view.filter \/ view.typed
ResetFilters ==
  /\ ~InVault /\ ActiveFilters
  /\ Render([view EXCEPT !.filter = FALSE, !.typed = FALSE, !.page = 1])

HasNext == ~loading /\ view.page * PageSize < shown.total
HasPrevious == ~loading /\ view.page > 1
NextPage == HasNext /\ Render([view EXCEPT !.page = @ + 1])
PreviousPage == HasPrevious /\ Render([view EXCEPT !.page = @ - 1])

\* The timer of the search: the list takes the words over.
ListDebounced ==
  LET w == [view EXCEPT !.page = 1, !.query = view.typed]
  IN  /\ ~InVault /\ timer /\ timer' = FALSE /\ view' = w
      /\ Fetching(fetches, Refetch(view, w))
      /\ UNCHANGED <<kind, rows, shown, newest, gone, errs>>
\* The vault fetches the first page by itself, and once more when it was on
\* another.
VaultDebounced ==
  LET w == [view EXCEPT !.page = 1]
  IN  /\ InVault /\ timer /\ timer' = FALSE /\ view' = w
      /\ Fetching(fetches, <<Asked(w)>> \o Refetch(view, w))
      /\ UNCHANGED <<kind, rows, shown, newest, gone, errs>>

-----------------------------------------------------------------------------
Deleting == \E r \in fetches : r.what = "delete"

\* confirmDelete of the vault takes the row away at once and keeps what was
\* shown for a failure.
VaultDelete(i) ==
  /\ fetches' = fetches \cup {[Get(0, Asked(view)) EXCEPT !.what = "delete", !.ids = {i}, !.old = shown.rows]}
  /\ shown' = [shown EXCEPT !.rows = @ \ {i}]
\* confirmDelete and confirmBatchDelete of the list.
ListDelete(ids) ==
  /\ fetches' = fetches \cup {[Get(0, NoAsk) EXCEPT !.what = "delete", !.ids = ids]}
  /\ UNCHANGED shown

DeleteRow ==
  /\ ~loading /\ ~Deleting
  /\ \E i \in shown.rows : IF InVault THEN VaultDelete(i) ELSE ListDelete({i})
  /\ UNCHANGED <<kind, rows, view, timer, loading, sent, newest, gone, errs>>

\* A selection of batch mode outlives pages, filters and its rows: any set.
Selections == SUBSET Ids \ {{}}
DeleteSelected ==
  /\ ~InVault /\ ~Deleting /\ \E ids \in Selections : ListDelete(ids)
  /\ UNCHANGED <<kind, rows, view, timer, loading, sent, newest, gone, errs>>

Serve(r) ==
  /\ r.answer = {}
  /\ fetches' = (fetches \ {r}) \cup {[r EXCEPT !.answer = IF r.what = "delete" THEN {TRUE} ELSE {Answer(r.ask)}]}
  /\ rows' = rows \ r.ids
  /\ UNCHANGED <<kind, view, timer, shown, loading, sent, newest, gone, errs>>

\* Another client stores a memory.
StoredElsewhere(i) ==
  /\ i \notin rows \cup gone \cup UNION {r.ids : r \in fetches} /\ rows' = rows \cup {i}
  /\ UNCHANGED <<kind, view, timer, fetches, shown, loading, sent, newest, gone, errs>>

\* A list arrives and is shown, whatever was asked since.
Arrive(r) ==
  /\ r.what # "delete" /\ r.answer # {} /\ fetches' = fetches \ {r}
  /\ \E a \in r.answer : shown' = [rows |-> a.rows, total |-> a.total, ask |-> r.ask]
  /\ loading' = FALSE
  /\ newest' = IF r.n > newest THEN r.n ELSE newest
  /\ errs' = IF r.n < newest THEN errs \cup {"overtaken"} ELSE IF r.what = "again" THEN {"moved"} ELSE {}
  /\ UNCHANGED <<kind, rows, view, timer, sent, gone>>

\* The list says so and raises refreshKey.
ListDeleted(r) ==
  LET w == [view EXCEPT !.key = @ + 1]
  IN  /\ ~InVault /\ r.what = "delete" /\ r.answer # {} /\ view' = w
      /\ Fetching(fetches \ {r}, Refetch(view, w)) /\ gone' = gone \cup r.ids
      /\ UNCHANGED <<kind, rows, timer, shown, newest, errs>>

\* The vault fetches what its closure, of the moment of the click, was
\* showing, or the page before when the row was its last.
VaultDeleted(r) ==
  LET back == r.old \subseteq r.ids /\ r.ask.page > 1
      w == IF back THEN [view EXCEPT !.page = r.ask.page - 1] ELSE view
      ask == IF back THEN [r.ask EXCEPT !.page = @ - 1] ELSE r.ask
      again == [Get(sent + 1, ask) EXCEPT !.what = IF ask = Asked(w) THEN "get" ELSE "again"]
      more == ToSet(Refetch(view, w))
  IN  /\ InVault /\ r.what = "delete" /\ r.answer # {} /\ view' = w
      /\ sent < MaxFetches[kind] /\ sent' = sent + 1 + Cardinality(more) /\ loading' = TRUE
      /\ fetches' = (fetches \ {r}) \cup {again} \cup {Get(sent + 2, a) : a \in more}
      /\ gone' = gone \cup r.ids
      /\ UNCHANGED <<kind, rows, timer, shown, newest, errs>>

\* A fetch fails: the list that was there stays.
FetchFails(r) ==
  /\ r.what # "delete" /\ fetches' = fetches \ {r} /\ loading' = FALSE
  /\ newest' = IF r.n > newest THEN r.n ELSE newest
  /\ errs' = IF r.n > newest THEN errs \cup {"lost"} ELSE errs
  /\ UNCHANGED <<kind, rows, view, timer, shown, sent, gone>>

\* A deletion fails, served or not: the vault puts back what was shown.
DeletionFails(r) ==
  /\ r.what = "delete" /\ fetches' = fetches \ {r}
  /\ shown' = IF InVault THEN [shown EXCEPT !.rows = r.old] ELSE shown
  /\ errs' = errs \cup {"rolled back"}
  /\ UNCHANGED <<kind, rows, view, timer, loading, sent, newest, gone>>

LNext ==
  \/ Type \/ SetFilter \/ SetVaultFilter \/ ClearFilter \/ ResetFilters \/ PreviousPage \/ NextPage
  \/ ListDebounced \/ VaultDebounced \/ DeleteRow \/ DeleteSelected
  \/ \E r \in fetches :
       Serve(r) \/ Arrive(r) \/ ListDeleted(r) \/ VaultDeleted(r) \/ FetchFails(r) \/ DeletionFails(r)
  \/ \E i \in Ids : StoredElsewhere(i)

LSpec == LInit /\ [][LNext]_lvars

-----------------------------------------------------------------------------
\* A page that waits for nothing shows the list its filters and its page
\* number ask for, hit by them and without what it said it deleted: unless an
\* older answer came last, the last request failed, a deletion was rolled
\* back, or the vault fetched what an old render was showing.
ListSettled ==
  fetches = {} /\ ~timer /\ errs = {} =>
    shown.ask = Asked(view) /\ shown.rows \subseteq Hits(Asked(view)) \ gone
=============================================================================

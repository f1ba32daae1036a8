----------------------------- MODULE MemoryDetail -----------------------------
(***************************************************************************)
(* The page of one memory, omem-web/src/views/memories/memory-detail.tsx.  *)
(* The address may change under the page: a click on a related memory      *)
(* keeps the component and its requests, and so does the browser's way     *)
(* back from there.                                                        *)
(***************************************************************************)
EXTENDS Naturals, FiniteSets

CONSTANTS
  Mems,        \* memories
  Scopes,      \* scopes a memory may have
  MaxAsks,     \* bound: requests of a page
  MaxElsewhere \* bound: changes that others make

NoMem == [id |-> "no memory", scope |-> ""]

\* Ids are UUIDs.
ASSUME DetailAssumption == NoMem.id \notin Mems

VARIABLES
  scope,       \* server: the scope of the memories that are there
  address,     \* useParams: id
  visited,     \* the addresses of the browser's history
  memory,      \* what was set last [id, scope], or NoMem
  waiting,     \* loading
  failed,      \* error
  asks,        \* requests in flight [n, what, id, scope, answer]
  asked,       \* number of requests so far
  lastGet,     \* number of the last fetch
  left,        \* the page was left after a deletion
  elsewhere,   \* memories that others changed since the newest fetch read
               \* them, or the page changed them, with no older answer to come
  others,      \* number of those changes
  astray,      \* another memory was deleted than the one on the page,
               \* which no late answer had brought there
  dslips       \* why the page may show another memory, see the properties

servervars == <<scope, elsewhere, others>>

detvars == <<servervars, address, visited, memory, waiting, failed, asks, asked, lastGet, left, astray, dslips>>

Ask(what, id, s) == [n |-> asked + 1, what |-> what, id |-> id, scope |-> s, answer |-> {}]

DetInit ==
  /\ scope \in [Mems -> Scopes] /\ address \in Mems /\ visited = {address} /\ memory = NoMem
  /\ waiting = TRUE /\ failed = FALSE /\ left = FALSE
  /\ asks = {[n |-> 1, what |-> "get", id |-> address, scope |-> "", answer |-> {}]}
  /\ asked = 1 /\ lastGet = 1 /\ astray = FALSE /\ dslips = {} /\ elsewhere = {} /\ others = 0

Visible == ~left /\ ~waiting /\ ~failed /\ memory # NoMem
Busy(what) == \E a \in asks : a.what = what

Put(a) ==
  /\ asked < MaxAsks /\ asks' = asks \cup {a} /\ asked' = asked + 1

-----------------------------------------------------------------------------
\* Fault: the effect runs at the first rendering only.
FetchOnce(id) == UNCHANGED <<asks, asked, lastGet, waiting, failed>>
\* The effect that fetches the memory of the address.
FetchMemory(id) ==
  /\ Put(Ask("get", id, "")) /\ lastGet' = asked + 1
  /\ waiting' = TRUE /\ failed' = FALSE

\* A node of the relation graph is clicked.
Follow(id) ==
  /\ Visible /\ id # address /\ address' = id /\ FetchMemory(id)
  /\ visited' = visited \cup {id}
  /\ UNCHANGED <<servervars, memory, left, astray, dslips>>

\* The browser goes back or forth, loaded or not.
History(id) ==
  /\ ~left /\ id \in visited \ {address} /\ address' = id /\ FetchMemory(id)
  /\ UNCHANGED <<servervars, visited, memory, left, astray, dslips>>

\* handleUpdateScope: for the memory on the page.
UpdateScope(s) ==
  /\ Visible /\ ~Busy("scope") /\ s # memory.scope /\ Put(Ask("scope", memory.id, s))
  /\ UNCHANGED <<servervars, address, visited, memory, waiting, failed, lastGet, left, astray, dslips>>

\* The deletion is confirmed: of the memory of the address.
Confirm ==
  /\ Visible /\ ~Busy("delete") /\ Put(Ask("delete", address, ""))
  /\ astray' = (astray \/ (memory.id # address /\ "late" \notin dslips))
  /\ UNCHANGED <<servervars, address, visited, memory, waiting, failed, lastGet, left, dslips>>

-----------------------------------------------------------------------------
There(id) == id \in DOMAIN scope
Got(a) == a.answer # {} /\ \A g \in a.answer : g # NoMem

\* The server's side: an answer is {} before, then one memory or "none".
Replied(a, g) ==
  /\ a.answer = {} /\ asks' = (asks \ {a}) \cup {[a EXCEPT !.answer = {g}]}
  /\ UNCHANGED <<others, address, visited, memory, waiting, failed, asked, lastGet, left, astray, dslips>>

StoredMemory(id) == IF There(id) THEN [id |-> id, scope |-> scope[id]] ELSE NoMem

\* get_memory.
ServeGet(a) ==
  /\ a.what = "get" /\ Replied(a, StoredMemory(a.id))
  /\ elsewhere' = IF a.n = lastGet /\ ~\E b \in asks : b.what = "scope" /\ Got(b) /\ b.id = a.id
                  THEN elsewhere \ {a.id} ELSE elsewhere
  /\ UNCHANGED scope

\* delete_memory: a memory that is not there is an error.
ServeDelete(a) ==
  /\ a.what = "delete" /\ Replied(a, StoredMemory(a.id))
  /\ scope' = [m \in DOMAIN scope \ {a.id} |-> scope[m]] /\ UNCHANGED elsewhere

\* batch_update_visibility: of the memories that are there, and well for the
\* others.
ServeScope(a) ==
  /\ a.what = "scope" /\ Replied(a, [id |-> a.id, scope |-> a.scope])
  /\ scope' = [m \in DOMAIN scope |-> IF m = a.id THEN a.scope ELSE scope[m]]
  /\ elsewhere' = elsewhere \ {a.id}

\* Another client changes or deletes a memory, or what had read it before
\* writes its whole row back, or again; so does a request of this page that
\* it has given up.
Elsewhere(m, s) ==
  /\ others < MaxElsewhere /\ others' = others + 1 /\ elsewhere' = elsewhere \cup {m}
  /\ \/ scope' = [k \in DOMAIN scope \cup {m} |-> IF k = m THEN s ELSE scope[k]]
     \/ There(m) /\ scope' = [k \in DOMAIN scope \ {m} |-> scope[k]]
  /\ UNCHANGED <<address, visited, memory, waiting, failed, asks, asked, lastGet, left, astray, dslips>>

\* An answer is shown whatever the address is by now.
MemoryArrives(a) ==
  /\ a.what = "get" /\ Got(a) /\ asks' = asks \ {a}
  /\ memory' = (CHOOSE g \in a.answer : TRUE) /\ waiting' = FALSE
  /\ dslips' = IF a.n = lastGet THEN dslips \ {"late"} ELSE dslips \cup {"late"}
  /\ UNCHANGED <<servervars, address, visited, failed, asked, lastGet, left, astray>>

\* Fault: a refusal is taken for an agreement.
ScopeAnyway(a) == [memory EXCEPT !.scope = a.scope]
ScopeKept(a) == memory

\* The scope goes to whatever memory is on the page by now.
ScopeArrives(a) ==
  /\ a.what = "scope" /\ Got(a) /\ asks' = asks \ {a}
  /\ memory' = [memory EXCEPT !.scope = a.scope]
  /\ dslips' = dslips \cup (IF memory.id # a.id \/ Busy("get") THEN {"moved"} ELSE {})
  /\ UNCHANGED <<servervars, address, visited, waiting, failed, asked, lastGet, left, astray>>

DeletionArrives(a) ==
  /\ a.what = "delete" /\ Got(a) /\ asks' = {} /\ left' = TRUE
  /\ UNCHANGED <<servervars, address, visited, memory, waiting, failed, asked, lastGet, astray, dslips>>

\* The memory is gone, or the request was lost, served or not.
AskFails(a) ==
  /\ asks' = asks \ {a}
  /\ failed' = (failed \/ a.what = "get") /\ waiting' = (waiting /\ a.what # "get")
  /\ memory' = IF a.what = "scope" THEN ScopeKept(a) ELSE memory
  /\ dslips' = dslips \cup (IF a.what # "get" /\ Got(a) THEN {"lost"} ELSE {})
  /\ UNCHANGED <<servervars, address, visited, asked, lastGet, left, astray>>

DetNext ==
  \/ \E id \in Mems : Follow(id) \/ History(id)
  \/ \E s \in Scopes : UpdateScope(s)
  \/ Confirm
  \/ \E m \in Mems, s \in Scopes : Elsewhere(m, s)
  \/ \E a \in asks : ServeGet(a) \/ ServeDelete(a) \/ ServeScope(a)
  \/ \E a \in asks : MemoryArrives(a) \/ ScopeArrives(a) \/ DeletionArrives(a) \/ AskFails(a)

DetSpec == DetInit /\ [][DetNext]_detvars

-----------------------------------------------------------------------------
\* The memory that is deleted is the one on the page, unless an answer for
\* an address left since came late.
DeletedWasShown == ~astray

\* A page that waits for nothing shows the memory of its address, with the
\* scope it has unless others changed it since: but for answers that came
\* late or were lost, and a new scope that was written over another memory.
DetailTrue ==
  Visible /\ asks = {} /\ dslips = {} =>
    /\ memory.id = address
    /\ There(address) /\ address \notin elsewhere => memory.scope = scope[address]
=============================================================================

----------------------------- MODULE ProfilePage -----------------------------
(***************************************************************************)
(* The preferences of the profile page, omem-web/src/views/profile/        *)
(* profile-page.tsx with api/profile-v2.ts: they are loaded for the chosen *)
(* project, and after each operation fetched again by the handler, for the *)
(* project of the rendering it belongs to.                                 *)
(***************************************************************************)
EXTENDS Naturals, FiniteSets

CONSTANTS
  Projects,    \* project paths
  Wishes,      \* preferences the user wants to create, once each
  MaxSent      \* bound: requests of the page

Everything == ""            \* before a project is chosen: no parameter
AllProjects == "__all__"    \* the entry "all projects": sent as a path
Global == "global"

\* PInit's old preference is of no wish.
ASSUME WishesAssumption == "old" \notin Wishes /\ "none" \notin Wishes

VARIABLES
  prefs,       \* server: preferences [wish, id, n, home], where n is the request
               \* that made or changed it last
  prior,       \* server: what was there before the last change
  projectPath,
  inFlight,    \* requests [n, what, step, path, pref, answer]: of a handler the
               \* step "do", then "fetch", or "moved" for a project left since,
               \* or "stale" when it is answered from a list of before
  list,        \* [prefs, path] of the page
  loadingAll,  \* loading
  saving, isDeleting,
  told,        \* the wishes the page said it had created
  made,        \* the preferences as the page said it had made or changed them
  removed,     \* ids of those it said it had deleted
  number,      \* of requests so far
  newestList,  \* number of the newest fetch that came to an end
  lapses,      \* why the list may be another: see PrefsSettled
  misled       \* the wishes whose creation was told as a failure, or not at all

pvars == <<prefs, prior, projectPath, inFlight, list, loadingAll, saving, isDeleting, told, made, removed, number,
           newestList, lapses, misled>>

NoPref == [wish |-> "none", id |-> 0, n |-> 0, home |-> Global]
Request(what, step, path, p) ==
  [n |-> number + 1, what |-> what, step |-> step, path |-> path, pref |-> p, answer |-> {}]

PInit ==
  /\ \E h \in Projects : prefs \in {{}, {[wish |-> "old", id |-> 0, n |-> 0, home |-> h]}}
  /\ prior = prefs
  /\ projectPath = Everything
  /\ inFlight = {[n |-> 1, what |-> "load", step |-> "fetch", path |-> Everything, pref |-> NoPref, answer |-> {}]}
  /\ list = [prefs |-> {}, path |-> Everything] /\ loadingAll = TRUE
  /\ saving = FALSE /\ isDeleting = FALSE /\ told = {} /\ made = {} /\ removed = {}
  /\ number = 1 /\ newestList = 0 /\ lapses = {} /\ misled = {}

\* What the server lists for a path; it takes every path for a project's.
ListedOf(ps, path) == {p \in ps : path = Everything \/ p.home \in {Global, path}}
Listed(path) == ListedOf(prefs, path)

Post(out, r) ==
  /\ number < MaxSent /\ number' = number + 1
  /\ inFlight' = (inFlight \ out) \cup {r}

-----------------------------------------------------------------------------
\* The choice of projects is made of the list on the page.
Homes == {p.home : p \in list.prefs} \ {Global}

SelectPath(path) ==
  /\ Homes # {} /\ path \in Homes \cup {AllProjects} /\ path # projectPath
  /\ projectPath' = path /\ loadingAll' = TRUE /\ Post({}, Request("load", "fetch", path, NoPref))
  /\ UNCHANGED <<prefs, prior, list, saving, isDeleting, told, made, removed, newestList, lapses, misled>>

\* The cards on the page; its filters and its pages only hide some.
SlotsShown == IF loadingAll THEN {} ELSE list.prefs
\* What the form of a new preference sends.
Filled(w, home) == [wish |-> w, id |-> number + 1, n |-> number + 1, home |-> home]

\* Fault: the button of the form is not disabled.
Always(busy) == TRUE
Enabled(busy) == ~busy

\* handleCreate.  The user submits what the page did not tell him it has.
Create(w, home) ==
  /\ Enabled(saving) /\ w \notin told /\ saving' = TRUE
  /\ Post({}, Request("create", "do", projectPath, Filled(w, home)))
  /\ UNCHANGED <<prefs, prior, projectPath, list, loadingAll, isDeleting, told, made, removed, newestList, lapses, misled>>

\* handleUpdate: another value, another home or both.  The form sends what
\* differs from the preference it was opened with, which may be from before a
\* load.
Unchanged == "unchanged"
Version(p, n, home) == [wish |-> p.wish, id |-> p.id, n |-> n, home |-> home]
Update(p, home) ==
  /\ p \in list.prefs /\ Enabled(saving) /\ saving' = TRUE
  /\ Post({}, Request("update", "do", projectPath,
                      Version(p, number + 1, IF home = p.home THEN Unchanged ELSE home)))
  /\ UNCHANGED <<prefs, prior, projectPath, list, loadingAll, isDeleting, told, made, removed, newestList, lapses, misled>>

\* handleDelete
RemovePref(p) ==
  /\ p \in SlotsShown /\ Enabled(isDeleting) /\ isDeleting' = TRUE
  /\ Post({}, Request("delete", "do", projectPath, p))
  /\ UNCHANGED <<prefs, prior, projectPath, list, loadingAll, saving, told, made, removed, newestList, lapses, misled>>

Reply(r, ps, step) ==
  /\ r.answer = {} /\ inFlight' = (inFlight \ {r}) \cup {[r EXCEPT !.answer = {ps}, !.step = step]}
  /\ UNCHANGED <<projectPath, list, loadingAll, saving, isDeleting, told, made, removed, number, newestList, lapses, misled>>

IsStored(p) == \E q \in prefs : q.id = p.id
Changed(q, p) == Version(q, p.n, IF p.home = Unchanged THEN q.home ELSE p.home)

\* get_preferences: of the table, or of a list in the store's cache that was
\* read before a change and put there after it.
ServeList(r) ==
  /\ r.step # "do" /\ UNCHANGED <<prefs, prior>>
  /\ \/ Reply(r, Listed(r.path), r.step)
     \/ prior # prefs /\ Reply(r, ListedOf(prior, r.path), "stale")

\* create_preference, update_preference, delete_preference: of a preference
\* that is not there they fail.
ServePref(r) ==
  /\ r.step = "do" /\ Reply(r, {}, "do") /\ prior' = prefs
  /\ \/ r.what = "create" /\ prefs' = prefs \cup {r.pref}
     \/ r.what = "update" /\ IsStored(r.pref) /\ prefs' = {IF q.id = r.pref.id THEN Changed(q, r.pref) ELSE q : q \in prefs}
     \/ r.what = "delete" /\ IsStored(r.pref) /\ prefs' = {q \in prefs : q.id # r.pref.id}

-----------------------------------------------------------------------------
\* Fault: the project is forgotten.
ForAll(r) == Everything
ProjectOf(r) == r.path

\* An operation succeeded: the handler says so and fetches again.
Done(r) ==
  LET path == ProjectOf(r)
  IN  /\ r.step = "do" /\ r.answer # {}
      /\ Post({r}, Request(r.what, IF r.path = projectPath THEN "fetch" ELSE "moved", path, r.pref))
      /\ told' = IF r.what = "create" THEN told \cup {r.pref.wish} ELSE told
      /\ made' = IF r.what \in {"create", "update"} THEN made \cup {r.pref} ELSE made
      /\ removed' = IF r.what = "delete" THEN removed \cup {r.pref.id} ELSE removed
      /\ UNCHANGED <<prefs, prior, projectPath, list, loadingAll, saving, isDeleting, newestList, lapses, misled>>

\* The flag of the operation a fetch belongs to is taken back.
Finish(r) ==
  /\ saving' = (saving /\ r.what \in {"load", "delete"})
  /\ isDeleting' = (isDeleting /\ r.what # "delete")

ListArrives(r) ==
  /\ r.step # "do" /\ r.answer # {} /\ inFlight' = inFlight \ {r}
  /\ list' = [prefs |-> CHOOSE a \in r.answer : TRUE, path |-> r.path]
  /\ loadingAll' = (loadingAll /\ r.what # "load") /\ Finish(r)
  /\ newestList' = IF r.n > newestList THEN r.n ELSE newestList
  /\ lapses' = IF r.n < newestList THEN lapses \cup {"overtaken"} ELSE {r.step} \ {"fetch"}
  /\ UNCHANGED <<prefs, prior, projectPath, told, made, removed, number, misled>>

\* A load that fails leaves an empty list; a refresh that fails says that its
\* operation failed.
ListLost(r) ==
  /\ r.step # "do" /\ inFlight' = inFlight \ {r}
  /\ list' = IF r.what = "load" THEN [prefs |-> {}, path |-> r.path] ELSE list
  /\ loadingAll' = (loadingAll /\ r.what # "load") /\ Finish(r)
  /\ newestList' = IF r.n > newestList THEN r.n ELSE newestList
  /\ lapses' = IF r.n < newestList /\ r.what # "load" THEN lapses ELSE lapses \cup {"lost"}
  /\ told' = IF r.what = "create" THEN told \ {r.pref.wish} ELSE told
  /\ misled' = IF r.what = "create" THEN misled \cup {r.pref.wish} ELSE misled
  /\ UNCHANGED <<prefs, prior, projectPath, made, removed, number>>

\* An operation fails, or its answer does.
NotDone(r) ==
  /\ r.step = "do" /\ inFlight' = inFlight \ {r}
  /\ Finish(r)
  /\ misled' = IF r.what = "create" /\ r.answer # {} THEN misled \cup {r.pref.wish} ELSE misled
  /\ UNCHANGED <<prefs, prior, projectPath, list, loadingAll, told, made, removed, number, newestList, lapses>>

PNext ==
  \/ \E path \in Projects \cup {AllProjects} : SelectPath(path)
  \/ \E w \in Wishes, home \in Projects \cup {Global} : Create(w, home)
  \/ \E p \in list.prefs : RemovePref(p) \/ \E home \in Projects \cup {Global} : Update(p, home)
  \/ \E r \in inFlight : ServeList(r) \/ ServePref(r) \/ Done(r) \/ ListArrives(r) \/ ListLost(r) \/ NotDone(r)

PSpec == PInit /\ [][PNext]_pvars

-----------------------------------------------------------------------------
\* A page that waits for nothing shows the preferences of the chosen project,
\* those it said it created or changed among them as it had said, and without
\* what it said it deleted: unless an older list came last, a fetch failed or
\* was answered from the cache, or an operation fetched for the project that
\* was chosen when it began.
PrefsSettled ==
  inFlight = {} /\ lapses = {} =>
    /\ list.path = projectPath
    /\ Listed(projectPath) \cap made \subseteq list.prefs
    /\ \A p \in list.prefs : p.id \notin removed

\* A preference is created twice only after the page told the user that its
\* creation had failed.
TwiceOnlyMisled ==
  \A p, q \in prefs : p.id # q.id /\ p.wish = q.wish => p.wish \in misled
=============================================================================

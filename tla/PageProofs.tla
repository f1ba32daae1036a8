------------------------------ MODULE PageProofs ------------------------------
(***************************************************************************)
(* Proofs about the web interface, its accounts and five of its pages, for *)
(* any memories, words, projects, keys and numbers of requests: what the   *)
(* session page shows of private memories (SessionPage), which tags the    *)
(* form that edits a memory keeps (MemoryForm), when a preference is       *)
(* created twice and what the list of preferences shows (ProfilePage),     *)
(* what the page of a memory shows and deletes (MemoryDetail), what the    *)
(* two lists of memories show (MemoryLists), who is signed in and which    *)
(* passwords of a vault are kept (Accounts).  The answers to the fetches   *)
(* of the three pages that show lists or a memory come in any order; what  *)
(* is shown once nothing is under way follows from an invariant of the     *)
(* same form for each: it is good, or a fetch that is newer than it is     *)
(* under way.                                                              *)
(***************************************************************************)
EXTENDS SessionPage, MemoryForm, ProfilePage, MemoryDetail, MemoryLists, Accounts, FiniteSetTheorems,
        WellFoundedInduction, TLAPS

-----------------------------------------------------------------------------
(* SessionPage.                                                            *)

\* What the locks of the page open, whether its card is loaded or not.
OpenOnlyProved == \A m \in Recalled : IsOpen(m, Seen) => m \notin closedByUser

\* A step that leaves the locks as they are opens nothing.
LEMMA LocksStay ==
  ASSUME OpenOnlyProved,
         UNCHANGED <<sessionVaultUnlocked, unlockedMemories, manuallyLocked, closedByUser>>
  PROVE  OpenOnlyProved'
BY DEF OpenOnlyProved, IsOpen, Seen

\* The button of a shown memory closes it in both sets.
LEMMA LockCardSafe ==
  ASSUME OpenOnlyProved, NEW m \in Recalled, LockCard(m)
  PROVE  OpenOnlyProved'
<1>1. IsOpen(m, Seen)
  BY DEF LockCard, ShownNow
<1>2. /\ manuallyLocked' = manuallyLocked \cup {m}
      /\ unlockedMemories' = unlockedMemories \ {m}
      /\ closedByUser' = closedByUser \cup {m}
      /\ UNCHANGED sessionVaultUnlocked
  BY <1>1 DEF LockCard, Toggle
<1>3. QED
  BY <1>2 DEF OpenOnlyProved, IsOpen, Seen

\* The button of a closed one opens it only while the page is unlocked.
LEMMA UnlockCardSafe ==
  ASSUME OpenOnlyProved, NEW m \in Recalled, UnlockCard(m)
  PROVE  OpenOnlyProved'
<1>1. CASE sessionVaultUnlocked
  <2>1. /\ manuallyLocked' = manuallyLocked \ {m}
        /\ closedByUser' = closedByUser \ {m}
        /\ UNCHANGED <<sessionVaultUnlocked, unlockedMemories>>
    BY <1>1 DEF UnlockCard, Toggle, Seen
  <2>2. QED  BY <2>1 DEF OpenOnlyProved, IsOpen, Seen
<1>2. CASE ~sessionVaultUnlocked
  <2>1. UNCHANGED <<sessionVaultUnlocked, unlockedMemories, manuallyLocked, closedByUser>>
    BY <1>2 DEF UnlockCard, Toggle, Seen
  <2>2. QED  BY <2>1, LocksStay
<1>3. QED  BY <1>1, <1>2

\* A right password opens what was closed with the page, or one memory.
LEMMA RightPasswordSafe ==
  ASSUME OpenOnlyProved, NEW p, RightPassword(p)
  PROVE  OpenOnlyProved'
<1>1. /\ sessionVaultUnlocked' = TRUE
      /\ closedByUser' = (IF sessionVaultUnlocked THEN closedByUser ELSE {}) \ {p.card, p.pending}
  BY DEF RightPassword
<1>2. CASE ~sessionVaultUnlocked
  BY <1>1, <1>2 DEF OpenOnlyProved
<1>3. CASE sessionVaultUnlocked /\ p.card = NoCard
  <2>1. /\ unlockedMemories' = unlockedMemories \cup ({p.pending} \ {NoCard})
        /\ UNCHANGED manuallyLocked
    BY <1>3 DEF RightPassword
  <2>2. QED  BY <1>1, <1>3, <2>1 DEF OpenOnlyProved, IsOpen, Seen
<1>4. CASE sessionVaultUnlocked /\ p.card # NoCard
  <2>1. /\ unlockedMemories' \subseteq unlockedMemories
        /\ \A m \in Recalled \ {p.card} : m \in manuallyLocked => m \in manuallyLocked'
    BY <1>4 DEF RightPassword, Toggle
  <2>2. QED  BY <1>1, <1>4, <2>1 DEF OpenOnlyProved, IsOpen, Seen
<1>5. QED  BY <1>2, <1>3, <1>4

\* The lock of the page leaves nothing open.
LEMMA LockVaultSafe ==
  ASSUME LockVault
  PROVE  OpenOnlyProved'
BY DEF LockVault, Relocked, OpenOnlyProved, IsOpen, Seen

\* A private memory is shown only when a password was found right since the
\* user last locked it: handleVaultUnlock, handleVaultLock and the cards of
\* session-detail.tsx keep three sets and a flag that say so together.
THEOREM ShownProved == SeSpec => []ShownOnlyProved
<1>1. SeInit => OpenOnlyProved
  BY DEF SeInit, OpenOnlyProved, IsOpen, Seen
<1>2. OpenOnlyProved /\ [SeNext]_sevars => OpenOnlyProved'
  <2> SUFFICES ASSUME OpenOnlyProved, [SeNext]_sevars  PROVE OpenOnlyProved'
    OBVIOUS
  <2>1. CASE EventsArrive \/ DeleteSession \/ SessionDeleted \/ UNCHANGED sevars
    BY <2>1, LocksStay DEF EventsArrive, DeleteSession, SessionDeleted, sevars, sepage
  <2>2. ASSUME NEW m \in Recalled,
               Expand(m) \/ CardLoads(m, "loaded") \/ CardLoads(m, "failed") \/ ProveForCard(m)
        PROVE  OpenOnlyProved'
    BY <2>2, LocksStay DEF Expand, CardLoads, ProveForCard, Prove
  <2>3. ASSUME NEW m \in Recalled, LockCard(m)  PROVE OpenOnlyProved'
    BY <2>3, LockCardSafe
  <2>4. ASSUME NEW m \in Recalled, UnlockCard(m)  PROVE OpenOnlyProved'
    BY <2>4, UnlockCardSafe
  <2>5. CASE TurnPage \/ ToggleBox \/ ProveForPage
    BY <2>5, LocksStay DEF TurnPage, ToggleBox, ProveForPage, Prove
  <2>6. CASE LockVault
    BY <2>6, LockVaultSafe
  <2>7. ASSUME NEW p \in proofs, RightPassword(p)  PROVE OpenOnlyProved'
    BY <2>7, RightPasswordSafe
  <2>8. ASSUME NEW p \in proofs, WrongPassword(p)  PROVE OpenOnlyProved'
    BY <2>8, LocksStay DEF WrongPassword
  <2>9. QED
    BY <2>1, <2>2, <2>3, <2>4, <2>5, <2>6, <2>7, <2>8 DEF SeNext
<1>3. OpenOnlyProved => ShownOnlyProved
  BY DEF OpenOnlyProved, ShownOnlyProved, ShownNow
<1>4. QED
  BY <1>1, <1>2, <1>3, PTL DEF SeSpec

-----------------------------------------------------------------------------
(* MemoryForm.                                                             *)

\* The box and the list agree, and nothing but what the user took out is
\* missing from the list, nor from what is sent and from the memory later.
FormInv ==
  ~excused =>
    /\ formState \in {"shown", "saving"} /\ ~entered =>
         UNION tags \subseteq tagInput /\ loaded \ dropped \subseteq UNION tags
    /\ formState = "saving" /\ ~payload.entered => loaded \ payload.dropped \subseteq UNION payload.tags
    /\ formState = "done" /\ ~payload.entered => loaded \ payload.dropped \subseteq UNION saved

\* Tags made of the words of a text have these words.
LEMMA TagsOfWords ==
  ASSUME NEW text
  PROVE  UNION TagsOf(text) = text
BY DEF TagsOf

\* Typing: the list is what the box says, and what it no longer says is out.
LEMMA TypeTagsSafe ==
  ASSUME FormInv, NEW text, TypeTags(text)
  PROVE  FormInv'
<1>1. /\ formState \in {"shown", "saving"} /\ UNCHANGED <<saved, formState, loaded, payload, entered, excused>>
      /\ tags' = TagsOf(text) /\ tagInput' = text
      /\ dropped' = (dropped \cup (tagInput \ text)) \ text
  BY TagsOfWords DEF TypeTags, Edit
<1>2. UNION tags' = text
  BY <1>1, TagsOfWords
<1>3. ASSUME ~excused, ~entered, NEW w \in loaded \ dropped'  PROVE w \in text
  <2>1. CASE w \in dropped  BY <1>1, <1>3, <2>1
  <2>2. CASE w \notin dropped
    <3>1. w \in tagInput  BY <1>1, <1>3, <2>2 DEF FormInv
    <3>2. QED  BY <1>1, <1>3, <3>1
  <2>3. QED  BY <2>1, <2>2
<1>4. QED
  BY <1>1, <1>2, <1>3 DEF FormInv

\* A click on a tag takes out its words that no other tag has.
LEMMA RemoveTagSafe ==
  ASSUME FormInv, NEW t \in tags, RemoveTag(t)
  PROVE  FormInv'
<1>1. /\ formState \in {"shown", "saving"}
      /\ UNCHANGED <<saved, formState, loaded, payload, entered, excused, tagInput>>
      /\ tags' = tags \ {t} /\ dropped' = (dropped \cup t) \ UNION (tags \ {t})
  BY DEF RemoveTag, Edit
<1>2. UNION tags' \subseteq UNION tags  BY <1>1
<1>3. ASSUME ~excused, ~entered, NEW w \in loaded \ dropped'  PROVE w \in UNION tags'
  <2>1. CASE w \in dropped \cup t  BY <1>1, <1>3, <2>1
  <2>2. CASE w \notin dropped \cup t
    <3>1. PICK u \in tags : w \in u  BY <1>1, <1>3, <2>2 DEF FormInv
    <3>2. u # t  BY <2>2, <3>1
    <3>3. QED  BY <1>1, <3>1, <3>2
  <2>3. QED  BY <2>1, <2>2
<1>4. QED
  BY <1>1, <1>2, <1>3 DEF FormInv

\* A memory that was edited in the form keeps the words of its tags that the
\* user had not taken out when he pressed Save, whatever he types, clicks and
\* submits again, and whatever he types while it is saved (memory-form.tsx,
\* handleTagInputChange to handleSubmit).
THEOREM TagsKept == FormSpec => []SavedKeepsTags
<1>1. FormInit => FormInv
  BY DEF FormInit, FormInv
<1>2. FormInv /\ [FormNext]_fvars => FormInv'
  <2> SUFFICES ASSUME FormInv, [FormNext]_fvars  PROVE FormInv'
    OBVIOUS
  <2>1. CASE FormLoaded
    BY <2>1 DEF FormLoaded, BoxOf, FormInv
  <2>2. CASE LoadFails \/ EnterTag
    BY <2>2 DEF LoadFails, EnterTag, Edit, FormInv
  <2>3. CASE Submit \/ SaveFails
    BY <2>3 DEF Submit, SaveFails, FormInv
  <2>4. ASSUME NEW text \in SUBSET Words, TypeTags(text)  PROVE FormInv'
    BY <2>4, TypeTagsSafe
  <2>5. ASSUME NEW text \in SUBSET Words, EditedElsewhere(text)  PROVE FormInv'
    <3>1. /\ UNCHANGED <<tags, tagInput, formState, loaded, dropped, entered, payload>>
          /\ formState # "done" /\ (excused => excused')
      BY <2>5 DEF EditedElsewhere
    <3>2. QED  BY <3>1 DEF FormInv
  <2>6. ASSUME NEW t \in tags, RemoveTag(t)  PROVE FormInv'
    BY <2>6, RemoveTagSafe
  <2>7. ASSUME NEW arrives \in BOOLEAN, Put2xx(arrives)  PROVE FormInv'
    BY <2>7 DEF Put2xx, FormInv
  <2>8. CASE UNCHANGED fvars
    BY <2>8 DEF fvars, FormInv
  <2>9. QED
    BY <2>1, <2>2, <2>3, <2>4, <2>5, <2>6, <2>7, <2>8 DEF FormNext
<1>3. FormInv => SavedKeepsTags
  BY DEF FormInv, SavedKeepsTags
<1>4. QED
  BY <1>1, <1>2, <1>3, PTL DEF FormSpec

-----------------------------------------------------------------------------
(* ProfilePage.                                                            *)

\* Requests that disable the button of the form.
Saver(r)    == r.what \in {"create", "update"}
Creation(r) == r.what = "create" /\ r.step = "do"

Shape ==
  \A r \in inFlight :
    /\ r.what \in {"load", "create", "update", "delete"}
    /\ r = [n |-> r.n, what |-> r.what, step |-> r.step, path |-> r.path,
            pref |-> r.pref, answer |-> r.answer]

SaverAlone ==
  \A r \in inFlight : Saver(r) => saving /\ \A q \in inFlight : Saver(q) => q = r

\* The user was not told of what he asks for.
Untold == \A r \in inFlight : Creation(r) => r.pref.wish \in Wishes \ told

\* Of a preference that is there he was told, or misled, or he will be.
Answered ==
  \A p \in prefs :
    \/ p.wish \in told \cup misled \cup {"old"}
    \/ \E r \in inFlight : Creation(r) /\ r.answer # {} /\ r.pref.wish = p.wish

PrefsInv == Shape /\ SaverAlone /\ Untold /\ Answered /\ TwiceOnlyMisled

\* A reply changes nothing but the answer.
LEMMA ReplyShape ==
  ASSUME Shape, NEW r \in inFlight, NEW ps, NEW step, Reply(r, ps, step)
  PROVE  \E s : /\ inFlight' = (inFlight \ {r}) \cup {s} /\ r.answer = {}
                /\ s = [n |-> s.n, what |-> s.what, step |-> s.step, path |-> s.path,
                        pref |-> s.pref, answer |-> s.answer]
                /\ s.n = r.n /\ s.what = r.what /\ s.step = step /\ s.path = r.path /\ s.pref = r.pref
                /\ s.answer = {ps}
<1>1. PICK s : s = [r EXCEPT !.answer = {ps}, !.step = step]
  OBVIOUS
<1>2. r = [n |-> r.n, what |-> r.what, step |-> r.step, path |-> r.path, pref |-> r.pref, answer |-> r.answer]
  BY DEF Shape
<1>3. s = [n |-> r.n, what |-> r.what, step |-> step, path |-> r.path, pref |-> r.pref, answer |-> {ps}]
  BY <1>1, <1>2
<1>4. /\ s = [n |-> s.n, what |-> s.what, step |-> s.step, path |-> s.path, pref |-> s.pref, answer |-> s.answer]
      /\ s.n = r.n /\ s.what = r.what /\ s.step = step /\ s.path = r.path /\ s.pref = r.pref /\ s.answer = {ps}
  BY <1>3
<1>5. inFlight' = (inFlight \ {r}) \cup {s} /\ r.answer = {}
  BY <1>1 DEF Reply
<1>6. QED  BY <1>4, <1>5

\* A list is sent: of the creations nothing changes.
LEMMA ServeListSafe ==
  ASSUME PrefsInv, NEW r \in inFlight, ServeList(r)
  PROVE  PrefsInv'
<1>1. PICK ps, step : /\ Reply(r, ps, step) /\ r.step # "do" /\ (step = r.step \/ step = "stale")
                      /\ UNCHANGED <<prefs, prior>>
  BY DEF ServeList
<1>2. PICK s : /\ inFlight' = (inFlight \ {r}) \cup {s}
               /\ s = [n |-> s.n, what |-> s.what, step |-> s.step, path |-> s.path,
                       pref |-> s.pref, answer |-> s.answer]
               /\ s.n = r.n /\ s.what = r.what /\ s.step = step /\ s.pref = r.pref
  BY <1>1, ReplyShape DEF PrefsInv
<1>3. UNCHANGED <<prefs, saving, told, misled>> /\ ~Creation(r) /\ ~Creation(s)
  BY <1>1, <1>2 DEF Reply, Creation
<1>4. Shape' /\ SaverAlone' /\ Untold'
  BY <1>2, <1>3 DEF PrefsInv, Shape, SaverAlone, Untold, Saver, Creation
<1>5. \A q \in inFlight : Creation(q) => q \in inFlight'
  BY <1>2, <1>3
<1>6. Answered' /\ TwiceOnlyMisled'
  BY <1>3, <1>5 DEF PrefsInv, Answered, TwiceOnlyMisled, Creation
<1>7. QED  BY <1>4, <1>6 DEF PrefsInv

\* The server creates what nobody has created: its creation is the only one,
\* and the user was told of no earlier one.
LEMMA ServePrefSafe ==
  ASSUME PrefsInv, NEW r \in inFlight, ServePref(r)
  PROVE  PrefsInv'
<1>1. PICK s : /\ inFlight' = (inFlight \ {r}) \cup {s} /\ r.answer = {} /\ s.answer # {}
               /\ s = [n |-> s.n, what |-> s.what, step |-> s.step, path |-> s.path,
                       pref |-> s.pref, answer |-> s.answer]
               /\ s.what = r.what /\ s.step = r.step /\ s.pref = r.pref
  BY ReplyShape DEF PrefsInv, ServePref
<1>2. r.step = "do" /\ UNCHANGED <<saving, told, misled>>
  BY DEF ServePref, Reply
<1>3. Shape' /\ SaverAlone' /\ Untold'
  BY <1>1, <1>2 DEF PrefsInv, Shape, SaverAlone, Untold, Saver, Creation
<1>4. CASE Creation(r)
  <2>1. prefs' = prefs \cup {r.pref} /\ r.pref.wish \in Wishes \ told
    BY <1>4 DEF ServePref, Creation, PrefsInv, Untold
  <2>2. \A q \in inFlight : Creation(q) /\ q.answer # {} => FALSE
    BY <1>1, <1>4 DEF PrefsInv, SaverAlone, Saver, Creation
  <2>3. Answered'
    BY <1>1, <1>2, <1>4, <2>1, <2>2 DEF PrefsInv, Answered, Creation
  <2>4. \A p \in prefs : p.wish = r.pref.wish => p.wish \in misled
    BY <2>1, <2>2, WishesAssumption DEF PrefsInv, Answered
  <2>5. TwiceOnlyMisled'
    BY <1>2, <2>1, <2>4 DEF PrefsInv, TwiceOnlyMisled
  <2>6. QED  BY <1>3, <2>3, <2>5 DEF PrefsInv
<1>5. CASE ~Creation(r)
  <2>1. \A p \in prefs' : \E q \in prefs : p.id = q.id /\ p.wish = q.wish
    BY <1>2, <1>5 DEF ServePref, Creation, Changed, Version
  <2>2. Answered'
    BY <1>1, <1>2, <1>5, <2>1 DEF PrefsInv, Answered, Creation
  <2>3. TwiceOnlyMisled'
    BY <1>2, <2>1 DEF PrefsInv, TwiceOnlyMisled
  <2>4. QED  BY <1>3, <2>2, <2>3 DEF PrefsInv
<1>6. QED  BY <1>4, <1>5

\* A request that comes: of a load or a deletion, or, when the form is enabled,
\* of a creation or a change.
LEMMA AskSafe ==
  ASSUME PrefsInv,
         \/ \E path \in Projects \cup {AllProjects} : SelectPath(path)
         \/ \E w \in Wishes, home \in Projects \cup {Global} : Create(w, home)
         \/ \E p \in list.prefs : RemovePref(p) \/ \E home \in Projects \cup {Global} : Update(p, home)
  PROVE  PrefsInv'
<1>1. PICK what, step, path, p :
        /\ inFlight' = inFlight \cup {Request(what, step, path, p)}
        /\ UNCHANGED <<prefs, told, misled>>
        /\ what \in {"load", "create", "update", "delete"}
        /\ what = "create" => p.wish \in Wishes \ told
        /\ IF what \in {"create", "update"} THEN ~saving /\ saving' ELSE UNCHANGED saving
  <2>1. ASSUME NEW path \in Projects \cup {AllProjects}, SelectPath(path)
        PROVE  /\ inFlight' = inFlight \cup {Request("load", "fetch", path, NoPref)}
               /\ UNCHANGED <<prefs, told, misled, saving>>
    BY <2>1 DEF SelectPath, Post
  <2>2. ASSUME NEW w \in Wishes, NEW home \in Projects \cup {Global}, Create(w, home)
        PROVE  /\ inFlight' = inFlight \cup {Request("create", "do", projectPath, Filled(w, home))}
               /\ UNCHANGED <<prefs, told, misled>> /\ ~saving /\ saving'
               /\ Filled(w, home).wish \in Wishes \ told
    BY <2>2 DEF Create, Post, Filled, Enabled
  <2>3. ASSUME NEW p \in list.prefs, NEW home \in Projects \cup {Global}, Update(p, home)
        PROVE  /\ \E q : inFlight' = inFlight \cup {Request("update", "do", projectPath, q)}
               /\ UNCHANGED <<prefs, told, misled>> /\ ~saving /\ saving'
    BY <2>3 DEF Update, Post, Enabled
  <2>4. ASSUME NEW p \in list.prefs, RemovePref(p)
        PROVE  /\ inFlight' = inFlight \cup {Request("delete", "do", projectPath, p)}
               /\ UNCHANGED <<prefs, told, misled, saving>>
    BY <2>4 DEF RemovePref, Post
  <2>5. QED  BY <2>1, <2>2, <2>3, <2>4
<1>2. /\ Request(what, step, path, p).what = what /\ Request(what, step, path, p).pref = p
      /\ Request(what, step, path, p)
           = [n |-> Request(what, step, path, p).n, what |-> Request(what, step, path, p).what,
              step |-> Request(what, step, path, p).step, path |-> Request(what, step, path, p).path,
              pref |-> Request(what, step, path, p).pref, answer |-> Request(what, step, path, p).answer]
  BY DEF Request
<1>3. Shape' /\ SaverAlone' /\ Untold'
  BY <1>1, <1>2 DEF PrefsInv, Shape, SaverAlone, Untold, Saver, Creation
<1>4. Answered' /\ TwiceOnlyMisled'
  BY <1>1 DEF PrefsInv, Answered, TwiceOnlyMisled
<1>5. QED  BY <1>3, <1>4 DEF PrefsInv

\* A creation that succeeded is told, before another can be asked for.
LEMMA DoneSafe ==
  ASSUME PrefsInv, NEW r \in inFlight, Done(r)
  PROVE  PrefsInv'
<1> DEFINE s == Request(r.what, IF r.path = projectPath THEN "fetch" ELSE "moved", ProjectOf(r), r.pref)
<1>1. /\ r.step = "do" /\ inFlight' = (inFlight \ {r}) \cup {s}
      /\ told' = (IF r.what = "create" THEN told \cup {r.pref.wish} ELSE told)
      /\ UNCHANGED <<prefs, saving, misled>>
  BY DEF Done, Post
<1>2. /\ s = [n |-> s.n, what |-> s.what, step |-> s.step, path |-> s.path,
              pref |-> s.pref, answer |-> s.answer]
      /\ s.what = r.what /\ s.step # "do"
  BY DEF Request
<1> HIDE DEF s
<1>3. Shape' /\ SaverAlone'
  BY <1>1, <1>2 DEF PrefsInv, Shape, SaverAlone, Saver
<1>4. Untold'
  BY <1>1, <1>2 DEF PrefsInv, SaverAlone, Untold, Saver, Creation
<1>5. Answered' /\ TwiceOnlyMisled'
  BY <1>1 DEF PrefsInv, Answered, TwiceOnlyMisled, Creation
<1>6. QED  BY <1>3, <1>4, <1>5 DEF PrefsInv

\* A request that ends otherwise: if it had created a preference, the user is
\* misled.
LEMMA EndSafe ==
  ASSUME PrefsInv, NEW r \in inFlight, ListArrives(r) \/ ListLost(r) \/ NotDone(r)
  PROVE  PrefsInv'
<1>1. /\ inFlight' = inFlight \ {r} /\ prefs' = prefs
      /\ saving' = (saving /\ r.what \in {"load", "delete"})
      /\ told' \subseteq told /\ told \cup misled \subseteq told' \cup misled' /\ misled \subseteq misled'
      /\ Creation(r) /\ r.answer # {} => r.pref.wish \in misled'
  BY DEF ListArrives, ListLost, NotDone, Finish, Creation
<1>2. Shape' /\ Untold' /\ Answered' /\ TwiceOnlyMisled'
  BY <1>1 DEF PrefsInv, Shape, Untold, Answered, TwiceOnlyMisled
<1>3. SaverAlone'
  <2> SUFFICES ASSUME NEW q \in inFlight', Saver(q)
               PROVE  saving' /\ \A o \in inFlight' : Saver(o) => o = q
    BY DEF SaverAlone, Saver
  <2>1. q \in inFlight /\ q # r /\ ~Saver(r)
    BY <1>1 DEF PrefsInv, SaverAlone
  <2>2. saving /\ r.what \in {"load", "delete"}
    BY <2>1 DEF PrefsInv, SaverAlone, Shape, Saver
  <2>3. QED
    BY <1>1, <2>1, <2>2 DEF PrefsInv, SaverAlone
<1>4. QED  BY <1>2, <1>3 DEF PrefsInv

\* PrefsInv always holds.
LEMMA PrefsAlways == PSpec => []PrefsInv
<1>1. PInit => PrefsInv
  <2> SUFFICES ASSUME PInit  PROVE PrefsInv
    OBVIOUS
  <2>1. \A r \in inFlight : r.what = "load"
    BY DEF PInit
  <2>2. Shape
    BY DEF PInit, Shape
  <2>3. \A p \in prefs : p.wish = "old"
    BY DEF PInit
  <2>4. \A p, q \in prefs : p = q
    BY DEF PInit
  <2>5. QED
    BY <2>1, <2>2, <2>3, <2>4
    DEF PrefsInv, SaverAlone, Saver, Untold, Creation, Answered, TwiceOnlyMisled
<1>2. PrefsInv /\ [PNext]_pvars => PrefsInv'
  <2> SUFFICES ASSUME PrefsInv, [PNext]_pvars  PROVE PrefsInv'
    OBVIOUS
  <2>1. CASE PNext
    BY <2>1, AskSafe, ServeListSafe, ServePrefSafe, DoneSafe, EndSafe DEF PNext
  <2>2. CASE UNCHANGED pvars
    BY <2>2 DEF pvars, PrefsInv, Shape, SaverAlone, Untold, Answered, TwiceOnlyMisled
  <2>3. QED  BY <2>1, <2>2
<1>3. QED
  BY <1>1, <1>2, PTL DEF PSpec

\* The profile page creates a preference twice only after it told the user that
\* the creation had failed, or never told him, for any projects, wishes and
\* number of requests (profile-page.tsx).
THEOREM CreatedOnce == PSpec => []TwiceOnlyMisled
<1>1. PrefsInv => TwiceOnlyMisled
  BY DEF PrefsInv
<1>2. QED
  BY <1>1, PrefsAlways, PTL
-----------------------------------------------------------------------------
(* The lists of ProfilePage.                                              *)

\* A fetch, and that one comes after the n-th request.
Fetch(r)  == r.step # "do"
Behind(n) == \E q \in inFlight : Fetch(q) /\ q.n > n

\* A list of preferences is what the page should show for a path.
Good(ps, path) ==
  /\ path = projectPath
  /\ Listed(projectPath) \cap made \subseteq ps
  /\ \A p \in ps : p.id \notin removed

Numbered ==
  /\ number \in Nat /\ newestList \in 0 .. number
  /\ \A r \in inFlight : r.n \in 1 .. number /\ r.step \in {"do", "fetch", "moved", "stale"}

\* A preference that the server or the page has or had, in a version of it; a
\* creation that is not served yet is of none of them, and neither is the
\* version that a change will make.
Had(p) ==
  \/ p \in prefs \/ p \in prior \/ p \in list.prefs \/ p \in made
  \/ \E r \in inFlight : \E a \in r.answer : p \in a

Pending(r) == Saver(r) /\ r.step = "do"
Mentioned(i) ==
  \/ i \in removed \/ \E p : Had(p) /\ p.id = i
  \/ \E r \in inFlight : r.what = "delete" /\ r.pref.id = i

Unheard ==
  /\ \A p : Had(p) => p.n \in 0 .. number
  /\ \A i : Mentioned(i) => i \in 0 .. number
  /\ \A r \in inFlight : Pending(r) => r.pref.n \in 1 .. number /\ r.pref.id \in 0 .. number
  /\ \A r \in inFlight : Pending(r) /\ r.answer = {} => \A p : Had(p) => p.n # r.pref.n
  /\ \A r \in inFlight : Creation(r) /\ r.answer = {} => ~Mentioned(r.pref.id)

\* What is deleted does not come back.
Gone ==
  /\ \A p \in prefs : p.id \notin removed
  /\ \A r \in inFlight : r.what = "delete" /\ r.step = "do" /\ r.answer # {} => \A p \in prefs : p.id # r.pref.id

\* The newest fetch that was answered, and every other one, brought or brings
\* the list that should be shown, or a newer one is under way.
ListGood == lapses = {} => Good(list.prefs, list.path) \/ Behind(newestList)
AnswersGood ==
  \A r \in inFlight : r.step = "fetch" =>
    \/ newestList > r.n \/ Behind(r.n)
    \/ r.path = projectPath /\ \A a \in r.answer : Good(a, r.path)

ListInv == Numbered /\ Unheard /\ Gone /\ ListGood /\ AnswersGood

\* A new fetch outdates every other.
LEMMA FetchOutdates ==
  ASSUME ListInv, NEW s, NEW out, s.step \in {"fetch", "moved"}, s.n = number + 1, number' = number + 1, s.answer = {},
         inFlight' = (inFlight \ out) \cup {s},
         s.step = "fetch" => s.path = projectPath',
         UNCHANGED newestList
  PROVE  Numbered' /\ ListGood' /\ AnswersGood'
<1>1. \A r \in inFlight : r.n < s.n
  BY DEF ListInv, Numbered
<1>2. Numbered'
  BY DEF ListInv, Numbered
<1>3. s \in inFlight' /\ s.n > newestList /\ \A r \in inFlight : Behind(r.n)'
  BY <1>1 DEF ListInv, Numbered, Behind, Fetch
<1>4. ListGood'
  BY <1>3 DEF ListGood, Behind, Fetch
<1>5. AnswersGood'
  BY <1>3 DEF AnswersGood, Behind
<1>6. QED  BY <1>2, <1>4, <1>5

\* The user's requests: of a project, of a new preference, or about one shown.
LEMMA AskListed ==
  ASSUME PrefsInv, ListInv,
         \/ \E path \in Projects \cup {AllProjects} : SelectPath(path)
         \/ \E w \in Wishes, home \in Projects \cup {Global} : Create(w, home)
         \/ \E p \in list.prefs : RemovePref(p) \/ \E home \in Projects \cup {Global} : Update(p, home)
  PROVE  ListInv'
<1>1. PICK what, step, path, p, s :
        /\ s = Request(what, step, path, p) /\ inFlight' = inFlight \cup {s} /\ number' = number + 1
        /\ UNCHANGED <<prefs, prior, list, made, removed, newestList, lapses>>
        /\ \/ what = "load" /\ step = "fetch" /\ projectPath' = path
           \/ /\ step = "do" /\ UNCHANGED projectPath
              /\ what \in {"create", "update"} => p.n = number + 1
              /\ what = "create" => p.id = number + 1
              /\ what \in {"update", "delete"} => \E q \in list.prefs : p.id = q.id
  <2>1. ASSUME NEW path \in Projects \cup {AllProjects}, SelectPath(path)
        PROVE  /\ inFlight' = inFlight \cup {Request("load", "fetch", path, NoPref)} /\ number' = number + 1
               /\ projectPath' = path /\ UNCHANGED <<prefs, prior, list, made, removed, newestList, lapses>>
    BY <2>1 DEF SelectPath, Post
  <2>2. ASSUME NEW w \in Wishes, NEW home \in Projects \cup {Global}, Create(w, home)
        PROVE  /\ inFlight' = inFlight \cup {Request("create", "do", projectPath, Filled(w, home))}
               /\ UNCHANGED <<prefs, prior, list, made, removed, newestList, lapses, projectPath>>
               /\ number' = number + 1
               /\ Filled(w, home).n = number + 1 /\ Filled(w, home).id = number + 1
    BY <2>2 DEF Create, Post, Filled
  <2>3. ASSUME NEW p \in list.prefs, NEW home \in Projects \cup {Global}, Update(p, home)
        PROVE  /\ \E q : /\ inFlight' = inFlight \cup {Request("update", "do", projectPath, q)}
                       /\ q.n = number + 1 /\ q.id = p.id
               /\ number' = number + 1
               /\ UNCHANGED <<prefs, prior, list, made, removed, newestList, lapses, projectPath>>
    BY <2>3 DEF Update, Post, Version
  <2>4. ASSUME NEW p \in list.prefs, RemovePref(p)
        PROVE  /\ inFlight' = inFlight \cup {Request("delete", "do", projectPath, p)} /\ number' = number + 1
               /\ UNCHANGED <<prefs, prior, list, made, removed, newestList, lapses, projectPath>>
    BY <2>4 DEF RemovePref, Post
  <2>5. QED  BY <2>1, <2>2, <2>3, <2>4
<1>2. s.n = number + 1 /\ s.what = what /\ s.step = step /\ s.path = path /\ s.pref = p /\ s.answer = {}
  BY <1>1 DEF Request
<1>3. number \in Nat /\ number' = number + 1
  BY <1>1 DEF ListInv, Numbered
<1>4. \A q : Had(q)' => Had(q)
  BY <1>1, <1>2 DEF Had
<1>10. \A q \in list.prefs : Had(q) /\ Mentioned(q.id)
  BY DEF Had, Mentioned
<1>11. \A i : Mentioned(i)' => Mentioned(i)
  <2> SUFFICES ASSUME NEW i, Mentioned(i)'  PROVE Mentioned(i)
    OBVIOUS
  <2>1. CASE i \in removed \/ \E q : Had(q)' /\ q.id = i
    BY <1>1, <1>4, <2>1 DEF Mentioned
  <2>2. CASE \E r \in inFlight' : r.what = "delete" /\ r.pref.id = i
    BY <1>1, <1>2, <1>10, <2>2 DEF Mentioned
  <2>3. QED  BY <1>1, <2>1, <2>2 DEF Mentioned
<1>5. Unheard'
  <2>1. \A q : Had(q)' => q.n \in 0 .. number
    BY <1>4 DEF ListInv, Unheard
  <2>2. \A i : Mentioned(i)' => i \in 0 .. number
    BY <1>11 DEF ListInv, Unheard
  <2>3. Pending(s) => s.pref.n = number + 1 /\ s.pref.id \in 0 .. number + 1
    <3>1. what = "update" => s.pref.id \in 0 .. number
      BY <1>1, <1>2, <1>10 DEF ListInv, Unheard
    <3>2. QED  BY <1>1, <1>2, <1>3, <3>1 DEF Pending, Saver
  <2>4. Creation(s) => s.pref.id = number + 1
    BY <1>1, <1>2 DEF Creation
  <2>5. \A r \in inFlight : Pending(r) => r.pref.n \in 1 .. number /\ r.pref.id \in 0 .. number
    BY DEF ListInv, Unheard
  <2>6. \A r \in inFlight' : Pending(r) => r.pref.n \in 1 .. number' /\ r.pref.id \in 0 .. number'
    BY <1>1, <1>3, <2>3, <2>5
  <2>7. \A r \in inFlight' : Pending(r) /\ r.answer = {} => \A q : Had(q)' => q.n # r.pref.n
    BY <1>1, <1>3, <1>4, <2>1, <2>3 DEF ListInv, Unheard
  <2>8. \A r \in inFlight' : Creation(r) /\ r.answer = {} => ~Mentioned(r.pref.id)'
    BY <1>1, <1>3, <1>11, <2>2, <2>4 DEF ListInv, Unheard
  <2>9. (\A q : Had(q)' => q.n \in 0 .. number') /\ (\A i : Mentioned(i)' => i \in 0 .. number')
    BY <1>3, <2>1, <2>2
  <2>10. QED  BY <2>6, <2>7, <2>8, <2>9 DEF Unheard, Pending, Saver, Creation
<1>6. Gone'
  BY <1>1, <1>2 DEF ListInv, Gone
<1>7. CASE step = "fetch"
  BY <1>1, <1>2, <1>3, <1>5, <1>6, <1>7, FetchOutdates DEF ListInv
<1>8. CASE step = "do"
  <2>1. Numbered'
    BY <1>1, <1>2, <1>3 DEF ListInv, Numbered
  <2>2. \A n : Behind(n) => Behind(n)'
    BY <1>1 DEF Behind, Fetch
  <2>3. ListGood' /\ AnswersGood'
    BY <1>1, <1>2, <1>8, <2>2 DEF ListInv, ListGood, AnswersGood, Good, Listed, ListedOf
  <2>4. QED  BY <1>5, <1>6, <2>1, <2>3 DEF ListInv
<1>9. QED  BY <1>1, <1>7, <1>8

\* The server answers with its list, or with one of before.
LEMMA ServeListListed ==
  ASSUME PrefsInv, ListInv, NEW r \in inFlight, ServeList(r)
  PROVE  ListInv'
<1>1. PICK ps, step : /\ Reply(r, ps, step) /\ r.step # "do" /\ UNCHANGED <<prefs, prior>>
                      /\ \/ step = r.step /\ ps = Listed(r.path)
                         \/ step = "stale" /\ ps = ListedOf(prior, r.path)
  BY DEF ServeList
<1>2. PICK s : /\ inFlight' = (inFlight \ {r}) \cup {s}
               /\ s.n = r.n /\ s.what = r.what /\ s.step = step /\ s.path = r.path /\ s.pref = r.pref
               /\ s.answer = {ps}
  BY <1>1, ReplyShape DEF PrefsInv
<1>3. UNCHANGED <<prefs, prior, projectPath, list, made, removed, number, newestList, lapses>>
  BY <1>1 DEF Reply
<1>4. \A p : Had(p)' => Had(p)
  BY <1>1, <1>2, <1>3 DEF Had, Listed, ListedOf
<1>5. \A i : Mentioned(i)' => Mentioned(i)
  <2> SUFFICES ASSUME NEW i, Mentioned(i)'  PROVE Mentioned(i)
    OBVIOUS
  <2>1. CASE i \in removed \/ \E q : Had(q)' /\ q.id = i
    BY <1>4, <2>1 DEF Mentioned
  <2>2. CASE \E q \in inFlight' : q.what = "delete" /\ q.pref.id = i
    BY <1>2, <2>2 DEF Mentioned
  <2>3. QED  BY <1>3, <2>1, <2>2 DEF Mentioned
<1>6. Numbered'
  BY <1>1, <1>2, <1>3 DEF ListInv, Numbered
<1>7. ~Pending(s) /\ ~Creation(s) /\ s.step # "do"
  BY <1>1, <1>2 DEF Pending, Creation
<1>8. Unheard'
  <2>1. (\A p : Had(p)' => p.n \in 0 .. number) /\ (\A i : Mentioned(i)' => i \in 0 .. number)
    BY <1>4, <1>5 DEF ListInv, Unheard
  <2>2. \A q \in inFlight' : Pending(q) \/ Creation(q) => q \in inFlight
    BY <1>2, <1>7
  <2>3. \A q \in inFlight' : Pending(q) => q.pref.n \in 1 .. number /\ q.pref.id \in 0 .. number
    BY <2>2 DEF ListInv, Unheard
  <2>4. \A q \in inFlight' : Pending(q) /\ q.answer = {} => \A p : Had(p)' => p.n # q.pref.n
    BY <1>4, <2>2 DEF ListInv, Unheard
  <2>5. \A q \in inFlight' : Creation(q) /\ q.answer = {} => ~Mentioned(q.pref.id)'
    BY <1>5, <2>2 DEF ListInv, Unheard
  <2>6. QED  BY <1>3, <2>1, <2>3, <2>4, <2>5 DEF Unheard, Pending, Saver, Creation
<1>9. Gone'
  BY <1>2, <1>3, <1>7 DEF ListInv, Gone
<1>10. \A n : Behind(n) => Behind(n)'
  BY <1>1, <1>2, <1>7 DEF Behind, Fetch
<1>11. \A qs, path : Good(qs, path) => Good(qs, path)'
  BY <1>3 DEF Good, Listed, ListedOf
<1>12. ListGood'
  BY <1>3, <1>10, <1>11 DEF ListInv, ListGood
<1>13. AnswersGood'
  <2> SUFFICES ASSUME NEW q \in inFlight', q.step = "fetch", ~(newestList > q.n), ~Behind(q.n)'
               PROVE  q.path = projectPath /\ \A a \in q.answer : Good(a, q.path)'
    BY <1>3 DEF AnswersGood
  <2>1. CASE q \in inFlight
    BY <1>10, <1>11, <2>1 DEF ListInv, AnswersGood
  <2>2. CASE q = s
    <3>1. r.path = projectPath /\ ps = Listed(r.path)
      BY <1>1, <1>2, <1>10, <2>2 DEF ListInv, AnswersGood
    <3>2. Good(Listed(projectPath), projectPath)
      BY DEF ListInv, Gone, Good, Listed, ListedOf
    <3>3. QED  BY <1>2, <1>11, <2>2, <3>1, <3>2
  <2>3. QED  BY <1>2, <2>1, <2>2
<1>14. QED  BY <1>6, <1>8, <1>9, <1>12, <1>13 DEF ListInv

\* The server creates or changes a preference to a version that nobody had
\* heard of, or deletes one.
LEMMA ServeListed ==
  ASSUME PrefsInv, ListInv, NEW r \in inFlight, ServePref(r)
  PROVE  ListInv'
<1>1. PICK s : /\ inFlight' = (inFlight \ {r}) \cup {s} /\ r.answer = {}
               /\ s.n = r.n /\ s.what = r.what /\ s.step = r.step /\ s.path = r.path /\ s.pref = r.pref
               /\ s.answer = {{}} /\ r.step = "do"
  <2>1. r.step = "do" /\ Reply(r, {}, "do") /\ Shape
    BY DEF PrefsInv, ServePref
  <2>2. \E s : /\ inFlight' = (inFlight \ {r}) \cup {s} /\ r.answer = {}
              /\ s.n = r.n /\ s.what = r.what /\ s.step = "do" /\ s.path = r.path /\ s.pref = r.pref
              /\ s.answer = {{}}
    BY <2>1, ReplyShape
  <2>3. QED  BY <2>1, <2>2
<1>2. prior' = prefs /\ UNCHANGED <<projectPath, list, made, removed, number, newestList, lapses>>
  BY DEF ServePref, Reply
<1>3. \A p \in prefs' : p \in prefs \/ (Pending(r) /\ p.n = r.pref.n /\ (Creation(r) \/ \E q \in prefs : q.id = p.id))
  BY <1>1 DEF ServePref, Pending, Saver, Creation, Changed, Version
<1>4. \A p \in prefs' : p \notin prefs => p.id = r.pref.id
  BY DEF ServePref, Changed, Version
<1>5. \A p : Had(p)' => Had(p) \/ (Pending(r) /\ p \in prefs' /\ p \notin prefs /\ p.n = r.pref.n)
  <2> SUFFICES ASSUME NEW p, Had(p)', ~Had(p)  PROVE Pending(r) /\ p \in prefs' /\ p \notin prefs /\ p.n = r.pref.n
    OBVIOUS
  <2>1. p \in prefs'
    BY <1>1, <1>2 DEF Had
  <2>2. p \notin prefs
    BY DEF Had
  <2>3. QED  BY <1>3, <2>1, <2>2
<1>6. Pending(r) => r.pref.n \in 1 .. number /\ r.pref.id \in 0 .. number /\ \A p : Had(p) => p.n # r.pref.n
  BY <1>1 DEF ListInv, Unheard
<1>7. \A i : Mentioned(i)' => Mentioned(i) \/ (Creation(r) /\ i = r.pref.id)
  <2> SUFFICES ASSUME NEW i, Mentioned(i)'  PROVE Mentioned(i) \/ (Creation(r) /\ i = r.pref.id)
    OBVIOUS
  <2>1. CASE i \in removed
    BY <2>1 DEF Mentioned
  <2>2. CASE \E q \in inFlight' : q.what = "delete" /\ q.pref.id = i
    BY <1>1, <2>2 DEF Mentioned
  <2>3. ASSUME NEW p, Had(p)', p.id = i  PROVE Mentioned(i) \/ (Creation(r) /\ i = r.pref.id)
    <3>1. CASE Had(p)
      BY <2>3, <3>1 DEF Mentioned
    <3>2. CASE ~Had(p) /\ ~Creation(r)
      BY <1>3, <1>5, <2>3, <3>2 DEF Mentioned, Had
    <3>3. CASE ~Had(p) /\ Creation(r)
      BY <1>4, <1>5, <2>3, <3>3
    <3>4. QED  BY <3>1, <3>2, <3>3
  <2>4. QED  BY <1>2, <2>1, <2>2, <2>3 DEF Mentioned
<1>8. Numbered'
  BY <1>1, <1>2 DEF ListInv, Numbered
<1>9. \A q \in inFlight : Pending(q) /\ Pending(r) => q = r
  BY DEF PrefsInv, SaverAlone, Pending
<1>15. Creation(r) => Pending(r)
  BY DEF Creation, Pending, Saver
<1>10. Unheard'
  <2>1. \A p : Had(p)' => p.n \in 0 .. number
    BY <1>5, <1>6 DEF ListInv, Unheard
  <2>2. \A i : Mentioned(i)' => i \in 0 .. number
    BY <1>6, <1>7, <1>15 DEF ListInv, Unheard
  <2>3. \A q \in inFlight' : Pending(q) => q.pref.n \in 1 .. number /\ q.pref.id \in 0 .. number
    BY <1>1 DEF ListInv, Unheard, Pending, Saver
  <2>4. \A q \in inFlight' : q.answer = {} => q \in inFlight /\ q # r
    BY <1>1
  <2>5. \A q \in inFlight' : Pending(q) /\ q.answer = {} => \A p : Had(p)' => p.n # q.pref.n
    BY <1>5, <1>9, <2>4 DEF ListInv, Unheard
  <2>6. \A q \in inFlight' : Creation(q) /\ q.answer = {} => ~Mentioned(q.pref.id)'
    <3> SUFFICES ASSUME NEW q \in inFlight', Creation(q), q.answer = {}  PROVE ~Mentioned(q.pref.id)'
      OBVIOUS
    <3>1. q \in inFlight /\ q # r /\ Pending(q)
      BY <2>4 DEF Creation, Pending, Saver
    <3>2. ~Creation(r)
      BY <1>9, <1>15, <3>1
    <3>3. QED  BY <1>7, <3>1, <3>2 DEF ListInv, Unheard
  <2>7. QED  BY <1>2, <2>1, <2>2, <2>3, <2>5, <2>6 DEF Unheard, Pending, Saver, Creation
<1>11. Gone'
  <2>1. \A p \in prefs' : p.id \notin removed
    <3> SUFFICES ASSUME NEW p \in prefs'  PROVE p.id \notin removed
      OBVIOUS
    <3>1. CASE \E q \in prefs : q.id = p.id
      BY <3>1 DEF ListInv, Gone
    <3>2. CASE ~\E q \in prefs : q.id = p.id
      <4>1. Creation(r) /\ p.id = r.pref.id
        BY <1>3, <1>4, <3>2
      <4>2. QED  BY <1>1, <4>1 DEF ListInv, Unheard, Mentioned
    <3>3. QED  BY <3>1, <3>2
  <2>2. ASSUME NEW q \in inFlight', q.what = "delete", q.step = "do", q.answer # {}, NEW p \in prefs'
        PROVE p.id # q.pref.id
    <3>1. CASE q = s
      BY <1>1, <2>2, <3>1 DEF ServePref
    <3>2. CASE q \in inFlight /\ q # r
      <4>1. CASE \E o \in prefs : o.id = p.id
        BY <2>2, <3>2, <4>1 DEF ListInv, Gone
      <4>2. CASE ~\E o \in prefs : o.id = p.id
        <5>1. Creation(r) /\ p.id = r.pref.id
          BY <1>3, <1>4, <4>2
        <5>2. QED  BY <1>1, <2>2, <3>2, <5>1 DEF ListInv, Unheard, Mentioned
      <4>3. QED  BY <4>1, <4>2
    <3>3. QED  BY <1>1, <3>1, <3>2
  <2>3. QED  BY <1>2, <2>1, <2>2 DEF Gone
<1>12. \A n : Behind(n) => Behind(n)'
  BY <1>1, <1>2 DEF Behind, Fetch
<1>13. \A path : Listed(path)' \cap made \subseteq Listed(path)
  <2> SUFFICES ASSUME NEW path, NEW p \in prefs', p \in made, p \notin prefs  PROVE FALSE
    BY DEF Listed, ListedOf
  <2>1. Had(p)  BY DEF Had
  <2>2. QED  BY <1>3, <1>6, <2>1
<1>14. \A ps, path : Good(ps, path) => Good(ps, path)'
  BY <1>2, <1>13 DEF Good
<1>16. ListGood'
  BY <1>2, <1>12, <1>14 DEF ListInv, ListGood
<1>17. AnswersGood'
  BY <1>1, <1>2, <1>12, <1>14 DEF ListInv, AnswersGood
<1>18. QED  BY <1>8, <1>10, <1>11, <1>16, <1>17 DEF ListInv

\* An operation that succeeded asks for the list again.
LEMMA DoneListed ==
  ASSUME PrefsInv, ListInv, NEW r \in inFlight, Done(r)
  PROVE  ListInv'
<1>1. PICK s : /\ s = Request(r.what, IF r.path = projectPath THEN "fetch" ELSE "moved", r.path, r.pref)
               /\ inFlight' = (inFlight \ {r}) \cup {s} /\ number' = number + 1
  BY DEF Done, Post, ProjectOf
<1>2. /\ s.n = number + 1 /\ s.what = r.what /\ s.pref = r.pref /\ s.path = r.path /\ s.answer = {}
      /\ s.step \in {"fetch", "moved"} /\ (s.step = "fetch" => r.path = projectPath)
  BY <1>1 DEF Request
<1>3. /\ r.step = "do" /\ r.answer # {} /\ UNCHANGED <<prefs, prior, projectPath, list, newestList, lapses>>
      /\ made' = IF r.what \in {"create", "update"} THEN made \cup {r.pref} ELSE made
      /\ removed' = IF r.what = "delete" THEN removed \cup {r.pref.id} ELSE removed
  BY DEF Done
<1>4. \A p : Had(p)' => Had(p) \/ (Pending(r) /\ p = r.pref)
  BY <1>1, <1>2, <1>3 DEF Had, Pending, Saver
<1>5. number \in Nat
  BY DEF ListInv, Numbered
<1>10. Pending(r) => r.pref.n \in 1 .. number /\ r.pref.id \in 0 .. number
  BY DEF ListInv, Unheard
<1>11. \A i : Mentioned(i)' => Mentioned(i) \/ (Pending(r) /\ i = r.pref.id)
  <2> SUFFICES ASSUME NEW i, Mentioned(i)'  PROVE Mentioned(i) \/ (Pending(r) /\ i = r.pref.id)
    OBVIOUS
  <2>1. CASE i \in removed'
    BY <1>3, <2>1 DEF Mentioned
  <2>2. CASE \E p : Had(p)' /\ p.id = i
    BY <1>4, <2>2 DEF Mentioned
  <2>3. CASE \E q \in inFlight' : q.what = "delete" /\ q.pref.id = i
    BY <1>1, <1>2, <2>3 DEF Mentioned
  <2>4. QED  BY <2>1, <2>2, <2>3 DEF Mentioned
<1>6. Unheard'
  <2>1. \A p : Had(p)' => p.n \in 0 .. number
    BY <1>4, <1>5, <1>10 DEF ListInv, Unheard
  <2>2. \A i : Mentioned(i)' => i \in 0 .. number
    BY <1>5, <1>10, <1>11 DEF ListInv, Unheard
  <2>3. \A q \in inFlight' : Pending(q) => q \in inFlight /\ q # r /\ ~Pending(r)
    BY <1>1, <1>2 DEF Pending, PrefsInv, SaverAlone
  <2>4. \A q \in inFlight' : Creation(q) => q \in inFlight /\ Pending(q)
    BY <1>1, <1>2 DEF Creation, Pending, Saver
  <2>5. \A q \in inFlight' : Pending(q) => q.pref.n \in 1 .. number /\ q.pref.id \in 0 .. number
    BY <2>3 DEF ListInv, Unheard
  <2>6. \A q \in inFlight' : Pending(q) /\ q.answer = {} => \A p : Had(p)' => p.n # q.pref.n
    BY <1>4, <2>3 DEF ListInv, Unheard
  <2>7. \A q \in inFlight' : Creation(q) /\ q.answer = {} => ~Mentioned(q.pref.id)'
    BY <1>11, <2>3, <2>4 DEF ListInv, Unheard
  <2>8. /\ \A p : Had(p)' => p.n \in 0 .. number'
        /\ \A i : Mentioned(i)' => i \in 0 .. number'
        /\ \A q \in inFlight' : Pending(q) => q.pref.n \in 1 .. number' /\ q.pref.id \in 0 .. number'
    BY <1>1, <1>5, <2>1, <2>2, <2>5
  <2>9. QED  BY <2>6, <2>7, <2>8 DEF Unheard, Pending, Saver, Creation
<1>7. Gone'
  BY <1>1, <1>2, <1>3 DEF ListInv, Gone
<1>8. Numbered' /\ ListGood' /\ AnswersGood'
  <2>1. s.step = "fetch" => s.path = projectPath'
    BY <1>2, <1>3
  <2>2. UNCHANGED newestList
    BY <1>3
  <2>3. PICK out : inFlight' = (inFlight \ out) \cup {s}
    BY <1>1
  <2>4. QED  BY <1>1, <1>2, <2>1, <2>2, <2>3, FetchOutdates
<1>9. QED  BY <1>6, <1>7, <1>8 DEF ListInv

\* A request that ends brings nothing that was not known.
LEMMA EndKnown ==
  ASSUME ListInv, NEW r \in inFlight, ListArrives(r) \/ ListLost(r) \/ NotDone(r)
  PROVE  Numbered' /\ Unheard' /\ Gone'
<1>1. /\ inFlight' = inFlight \ {r} /\ newestList' \in {newestList, r.n}
      /\ UNCHANGED <<prefs, prior, made, removed, number>>
  BY DEF ListArrives, ListLost, NotDone
<1>2. \A p \in list.prefs' : p \in list.prefs \/ \E a \in r.answer : p \in a
  BY DEF ListArrives, ListLost, NotDone
<1>3. \A p : Had(p)' => Had(p)
  BY <1>1, <1>2 DEF Had
<1>4. \A i : Mentioned(i)' => Mentioned(i)
  BY <1>1, <1>3 DEF Mentioned
<1>5. Unheard'
  BY <1>1, <1>3, <1>4 DEF ListInv, Unheard, Pending, Saver, Creation
<1>6. QED
  BY <1>1, <1>5 DEF ListInv, Numbered, Gone

\* A list that comes as the newest is the one to show; a list that does not
\* come, or comes after a newer one, is noted.
LEMMA EndListed ==
  ASSUME ListInv, NEW r \in inFlight, ListArrives(r) \/ ListLost(r) \/ NotDone(r)
  PROVE  ListInv'
<1>1. /\ inFlight' = inFlight \ {r} /\ UNCHANGED <<prefs, prior, projectPath, made, removed, number>>
  BY DEF ListArrives, ListLost, NotDone
<1>2. /\ newestList \in Nat /\ number \in Nat /\ \A q \in inFlight : q.n \in Nat
  BY DEF ListInv, Numbered
<1>3. \A ps, path : Good(ps, path) => Good(ps, path)'
  BY <1>1 DEF Good, Listed, ListedOf
<1>4. newestList' >= newestList /\ newestList' \in Nat /\ (Fetch(r) => newestList' >= r.n)
  BY <1>2 DEF ListArrives, ListLost, NotDone, Fetch
<1>5. \A n \in Nat : Behind(n) => Behind(n)' \/ newestList' > n
  BY <1>1, <1>2, <1>4 DEF Behind, Fetch
<1>6. AnswersGood'
  BY <1>1, <1>2, <1>3, <1>4, <1>5 DEF ListInv, AnswersGood
<1>7. ListGood'
  <2>1. CASE NotDone(r)
    BY <1>2, <1>3, <1>5, <2>1 DEF NotDone, ListInv, ListGood
  <2>2. CASE ListLost(r)
    <3> SUFFICES ASSUME lapses' = {}  PROVE Good(list.prefs, list.path)' \/ Behind(newestList)'
      BY DEF ListGood
    <3>1. lapses = {} /\ r.n < newestList /\ list' = list /\ newestList' = newestList
      BY <1>2, <2>2 DEF ListLost
    <3>2. QED  BY <1>2, <1>3, <1>5, <3>1 DEF ListInv, ListGood
  <2>3. CASE ListArrives(r)
    <3> SUFFICES ASSUME lapses' = {}  PROVE Good(list.prefs, list.path)' \/ Behind(newestList)'
      BY DEF ListGood
    <3>1. ~(r.n < newestList) /\ r.step = "fetch" /\ newestList' = r.n
      <4>1. r.step \in {"do", "fetch", "moved", "stale"}
        BY DEF ListInv, Numbered
      <4>2. QED  BY <1>2, <2>3, <4>1 DEF ListArrives
    <3>2. PICK a \in r.answer : list' = [prefs |-> a, path |-> r.path]
      BY <2>3 DEF ListArrives
    <3>3. CASE Behind(r.n)
      BY <1>2, <1>5, <3>1, <3>3
    <3>4. CASE r.path = projectPath /\ Good(a, r.path)
      BY <1>3, <3>2, <3>4
    <3>5. QED  BY <1>2, <3>1, <3>3, <3>4 DEF ListInv, AnswersGood
  <2>4. QED  BY <2>1, <2>2, <2>3
<1>8. QED  BY <1>6, <1>7, EndKnown DEF ListInv

\* The profile page, when it waits for nothing, shows the preferences of the
\* project that is chosen, with what it made or changed as it had said and
\* without what it deleted, unless it noted why not (profile-page.tsx, its handlers and their fetches).
THEOREM PrefsShown == PSpec => []PrefsSettled
<1>1. PInit => ListInv
  <2> SUFFICES ASSUME PInit  PROVE ListInv
    OBVIOUS
  <2>1. PICK r : /\ r = [n |-> 1, what |-> "load", step |-> "fetch", path |-> Everything, pref |-> NoPref, answer |-> {}]
                 /\ inFlight = {r}
    BY DEF PInit
  <2>2. /\ projectPath = Everything /\ list = [prefs |-> {}, path |-> Everything] /\ made = {} /\ removed = {}
        /\ number = 1 /\ newestList = 0 /\ lapses = {} /\ prior = prefs
        /\ \A p \in prefs : p.n = 0 /\ p.id = 0
    BY DEF PInit
  <2>3. r.n = 1 /\ r.what = "load" /\ r.step = "fetch" /\ r.path = projectPath /\ r.answer = {}
    BY <2>1, <2>2
  <2>4. Numbered
    BY <2>1, <2>2, <2>3 DEF Numbered
  <2>5. Unheard /\ Gone
    BY <2>1, <2>2, <2>3 DEF Unheard, Had, Mentioned, Pending, Saver, Gone, Creation
  <2>6. ListGood /\ AnswersGood
    BY <2>1, <2>2, <2>3 DEF ListGood, AnswersGood, Good
  <2>7. QED  BY <2>4, <2>5, <2>6 DEF ListInv
<1>2. PrefsInv /\ ListInv /\ [PNext]_pvars => ListInv'
  <2> SUFFICES ASSUME PrefsInv, ListInv, [PNext]_pvars  PROVE ListInv'
    OBVIOUS
  <2>1. CASE PNext
    BY <2>1, AskListed, ServeListListed, ServeListed, DoneListed, EndListed DEF PNext
  <2>2. CASE UNCHANGED pvars
    BY <2>2 DEF pvars, ListInv, Numbered, Unheard, Had, Gone, ListGood, AnswersGood, Good, Behind, Fetch,
                Listed, ListedOf, Mentioned, Pending, Saver, Creation
  <2>3. QED  BY <2>1, <2>2
<1>3. ListInv => PrefsSettled
  BY DEF ListInv, ListGood, Behind, Good, PrefsSettled
<1>4. QED
  BY <1>1, <1>2, <1>3, PrefsAlways, PTL DEF PSpec
-----------------------------------------------------------------------------
(* MemoryDetail.                                                           *)

Shown(m) == m = [id |-> m.id, scope |-> m.scope] /\ (m # NoMem => m.id \in Mems)

\* Requests are numbered, and an answer is of the memory that was asked for.
AskShape(a) ==
  /\ a.what \in {"get", "scope", "delete"} /\ a.id \in Mems /\ a.n \in 1 .. asked
  /\ a = [n |-> a.n, what |-> a.what, id |-> a.id, scope |-> a.scope, answer |-> a.answer]
  /\ \A g \in a.answer : Shown(g) /\ (g # NoMem => g.id = a.id)

DetailType ==
  /\ asked \in Nat /\ lastGet \in 1 .. asked /\ address \in Mems
  /\ DOMAIN scope \subseteq Mems /\ scope = [m \in DOMAIN scope |-> scope[m]]
  /\ dslips \subseteq {"late", "moved", "lost"} /\ others \in Nat
  /\ Shown(memory) /\ \A a \in asks : AskShape(a)

\* Requests have numbers of their own.  What the page asks besides a memory is
\* about one that it shows, and it changes the scope of one at a time.
Alone ==
  /\ \A x, y \in asks : x.n = y.n => x = y
  /\ \A x \in asks : x.what # "get" => memory # NoMem
  /\ \A x, y \in asks : x.what = "scope" /\ y.what = "scope" => x = y

\* The page shows the memory of its address when the newest fetch was answered
\* last, and waits until then.
Newest ==
  /\ \A a \in asks : a.what = "get" /\ a.n = lastGet =>
       a.id = address /\ (waiting \/ failed \/ "late" \in dslips)
  /\ ~waiting /\ ~failed /\ memory # NoMem /\ "late" \notin dslips => memory.id = address

\* A new scope is at the server, and its answer is still to come.
Coming(id) ==
  \E b \in asks : b.what = "scope" /\ Got(b) /\ b.id = id /\ b.scope = scope[id]

\* What nobody else has changed.
Untouched(id) == There(id) /\ id \notin elsewhere

Written == \A b \in asks : b.what = "scope" /\ Got(b) /\ Untouched(b.id) => scope[b.id] = b.scope

\* What the newest fetch found, and what the page shows, is what the server
\* has, or the answer that tells of the difference comes.
Found ==
  dslips \subseteq {"late"} =>
    \A a \in asks : a.what = "get" /\ a.n = lastGet /\ Untouched(a.id) =>
      \A g \in a.answer : g # NoMem => g.scope = scope[a.id] \/ Coming(a.id)
Read ==
  dslips = {} /\ ~left /\ ~waiting /\ ~failed /\ memory # NoMem /\ Untouched(memory.id) =>
    memory.scope = scope[memory.id] \/ Coming(memory.id)

DetailInv == DetailType /\ Alone /\ Newest /\ Written /\ Found /\ Read /\ DeletedWasShown

\* A new request disturbs nothing: it has no answer.
LEMMA AskedSafe ==
  ASSUME DetailInv, NEW a, a.answer = {}, asks' = asks \cup {a}, asked' = asked + 1,
         UNCHANGED <<servervars, memory, left, dslips>>
  PROVE  Written' /\ \A id : Coming(id) => Coming(id)'
BY DEF DetailInv, Written, Coming, There, Got, Untouched, servervars

\* A fetch for another address: until it is answered the page waits.
LEMMA FetchSafe ==
  ASSUME DetailInv, NEW id \in Mems, address' = id, FetchMemory(id),
         UNCHANGED <<servervars, memory, left, astray, dslips>>
  PROVE  DetailInv'
<1>0. PICK a : a = Ask("get", id, "")
  OBVIOUS
<1>1. /\ asks' = asks \cup {a} /\ asked' = asked + 1 /\ lastGet' = asked + 1 /\ waiting' = TRUE
      /\ a = [n |-> a.n, what |-> a.what, id |-> a.id, scope |-> a.scope, answer |-> a.answer]
      /\ a.n = asked + 1 /\ a.what = "get" /\ a.id = id /\ a.answer = {}
  BY <1>0 DEF FetchMemory, Put, Ask
<1>2. asked \in Nat
  BY DEF DetailInv, DetailType
<1>3. \A b \in asks : AskShape(b)' /\ b.n # lastGet'
  BY <1>1, <1>2 DEF DetailInv, DetailType, AskShape, Shown
<1>4. AskShape(a)'
  BY <1>1, <1>2 DEF AskShape
<1>5. DetailType'
  BY <1>1, <1>2, <1>3, <1>4 DEF DetailInv, DetailType, Shown, servervars
<1>6. Written' /\ \A i : Coming(i) => Coming(i)'
  BY <1>1, AskedSafe
<1>7. Alone' /\ Newest' /\ Read' /\ DeletedWasShown'
  BY <1>1, <1>3 DEF DetailInv, Alone, Newest, Read, DeletedWasShown
<1>8. Found'
  BY <1>1, <1>3 DEF Found
<1>9. QED  BY <1>5, <1>6, <1>7, <1>8 DEF DetailInv

\* A request about the memory on the page.
LEMMA PutSafe ==
  ASSUME DetailInv, NEW a, Put(a), memory # NoMem,
         a = [n |-> a.n, what |-> a.what, id |-> a.id, scope |-> a.scope, answer |-> a.answer],
         a.n = asked + 1, a.id \in Mems, a.answer = {}, a.what \in {"scope", "delete"},
         a.what = "scope" => ~Busy("scope"),
         UNCHANGED <<servervars, address, memory, waiting, failed, lastGet, left, dslips>>,
         ~astray'
  PROVE  DetailInv'
<1>1. asks' = asks \cup {a} /\ asked' = asked + 1 /\ asked \in Nat
  BY DEF Put, DetailInv, DetailType
<1>2. \A b \in asks : AskShape(b)'
  BY <1>1 DEF DetailInv, DetailType, AskShape, Shown
<1>3. AskShape(a)'
  BY <1>1 DEF AskShape
<1>4. DetailType'
  BY <1>1, <1>2, <1>3 DEF DetailInv, DetailType, Shown, servervars
<1>5. Written' /\ \A i : Coming(i) => Coming(i)'
  BY <1>1, AskedSafe
<1>9. \A b \in asks : b.n # a.n
  BY <1>1 DEF DetailInv, DetailType, AskShape
<1>6. Alone' /\ Newest' /\ DeletedWasShown'
  BY <1>1, <1>9 DEF DetailInv, Alone, Newest, Busy, DeletedWasShown
<1>7. Found' /\ Read'
  BY <1>1, <1>5 DEF DetailInv, Found, Read, There, Untouched, servervars
<1>8. QED  BY <1>4, <1>5, <1>6, <1>7 DEF DetailInv

\* An answered request has the number and the kind of the one it was.
LEMMA AnsweredAlone ==
  ASSUME Alone, NEW a \in asks, NEW b, b.n = a.n, b.what = a.what,
         asks' = (asks \ {a}) \cup {b}, memory' = memory
  PROVE  Alone'
<1>1. \A x, y \in asks' : x.n = y.n => x = y
  BY DEF Alone
<1>2. \A x, y \in asks' : x.what = "scope" /\ y.what = "scope" => x = y
  BY DEF Alone
<1>3. \A x \in asks' : x.what # "get" => memory' # NoMem
  BY DEF Alone
<1>4. QED  BY <1>1, <1>2, <1>3 DEF Alone

\* The server reads or changes one memory.  A scope that it changes is the one
\* whose answer is now to come, and what the newest fetch reads is known again,
\* but not shown yet.
LEMMA ServeSafe ==
  ASSUME DetailInv, NEW a \in asks, ServeGet(a) \/ ServeDelete(a) \/ ServeScope(a)
  PROVE  DetailInv'
<1>0. PICK g : /\ Replied(a, g)
               /\ g = IF a.what = "scope" THEN [id |-> a.id, scope |-> a.scope] ELSE StoredMemory(a.id)
  BY DEF ServeGet, ServeDelete, ServeScope
<1>1. PICK b : /\ b = [a EXCEPT !.answer = {g}] /\ a.answer = {} /\ asks' = (asks \ {a}) \cup {b}
               /\ UNCHANGED <<others, address, memory, waiting, failed, asked, lastGet, left, astray, dslips>>
  BY <1>0 DEF Replied
<1>3. AskShape(a)
  BY DEF DetailInv, DetailType
<1>2. /\ g = [id |-> g.id, scope |-> g.scope] /\ (g # NoMem => g.id = a.id)
      /\ a.what = "get" /\ g # NoMem => There(a.id) /\ g.scope = scope[a.id]
      /\ a.what = "scope" => g # NoMem
  BY <1>0, <1>3, DetailAssumption DEF NoMem, AskShape, StoredMemory
<1>4. /\ b.answer = {g} /\ b.n = a.n /\ b.what = a.what /\ b.id = a.id /\ b.scope = a.scope
      /\ b = [n |-> b.n, what |-> b.what, id |-> b.id, scope |-> b.scope, answer |-> b.answer]
  BY <1>1, <1>3 DEF AskShape
<1>5. /\ DOMAIN scope' \subseteq DOMAIN scope /\ scope' = [m \in DOMAIN scope' |-> scope'[m]]
      /\ \A m \in DOMAIN scope' : a.what # "scope" \/ m # a.id => scope'[m] = scope[m]
      /\ a.what = "scope" /\ There(a.id) => a.id \in DOMAIN scope' /\ scope'[a.id] = a.scope
      /\ a.what = "get" => scope' = scope
  BY DEF ServeGet, ServeDelete, ServeScope, DetailInv, DetailType, There
<1>6. \A m : m \in elsewhere /\ m \notin elsewhere' =>
        /\ m = a.id
        /\ \/ a.what = "scope"
           \/ a.what = "get" /\ a.n = lastGet /\ ~\E c \in asks : c.what = "scope" /\ Got(c) /\ c.id = m
  BY DEF ServeGet, ServeDelete, ServeScope
<1>7. DetailType'
  <2>1. \A c \in asks : AskShape(c)'
    BY <1>1 DEF DetailInv, DetailType, AskShape, Shown
  <2>2. AskShape(b)'
    BY <1>1, <1>2, <1>3, <1>4 DEF AskShape, Shown
  <2>3. QED  BY <1>1, <1>5, <2>1, <2>2 DEF DetailInv, DetailType, Shown
<1>8. Alone'
  BY <1>1, <1>4, AnsweredAlone DEF DetailInv
<1>9. Newest' /\ DeletedWasShown'
  BY <1>1, <1>4 DEF DetailInv, Newest, DeletedWasShown
<1>10. Written'
  <2> SUFFICES ASSUME NEW c \in asks', c.what = "scope", Got(c), Untouched(c.id)'  PROVE scope'[c.id] = c.scope
    BY DEF Written, Got
  <2>1. CASE c = b
    BY <1>1, <1>2, <1>4, <1>5, <2>1 DEF Untouched, Got, There
  <2>2. CASE c \in asks /\ c # a
    <3>1. a.what # "scope"
      BY <2>2 DEF DetailInv, Alone
    <3>2. Untouched(c.id) /\ scope[c.id] = c.scope
      BY <1>5, <1>6, <2>2, <3>1 DEF DetailInv, Written, There, Untouched
    <3>3. QED  BY <1>5, <3>1, <3>2 DEF There, Untouched
  <2>3. QED  BY <1>1, <2>1, <2>2
<1>11. ASSUME NEW id, There(id)', Coming(id) \/ (a.what = "scope" /\ a.id = id)
       PROVE  Coming(id)'
  <2>1. CASE a.what = "scope" /\ a.id = id
    <3>1. There(a.id)  BY <1>5, <1>11, <2>1 DEF There
    <3>2. b \in asks' /\ Got(b) /\ b.what = "scope" /\ b.id = id /\ b.scope = scope'[id]
      BY <1>1, <1>2, <1>4, <1>5, <2>1, <3>1 DEF Got
    <3>3. QED  BY <3>2 DEF Coming, Got
  <2>2. CASE ~(a.what = "scope" /\ a.id = id)
    <3>1. PICK c \in asks : c.what = "scope" /\ Got(c) /\ c.id = id /\ c.scope = scope[id]
      BY <1>11, <2>2 DEF Coming
    <3>2. c # a /\ c \in asks'
      BY <1>1, <3>1 DEF Got
    <3>3. scope'[id] = scope[id]
      BY <1>5, <1>11, <2>2 DEF There
    <3>4. QED  BY <3>1, <3>2, <3>3 DEF Coming, Got
  <2>3. QED  BY <2>1, <2>2
<1>12. ASSUME NEW id, There(id)'
       PROVE  There(id) /\ (scope'[id] = scope[id] \/ Coming(id)')
  <2>1. There(id)  BY <1>5, <1>12 DEF There
  <2>2. CASE a.what = "scope" /\ a.id = id  BY <1>11, <1>12, <2>1, <2>2
  <2>3. CASE ~(a.what = "scope" /\ a.id = id)  BY <1>5, <1>12, <2>1, <2>3 DEF There
  <2>4. QED  BY <2>1, <2>2, <2>3
<1>13. Found'
  <2> SUFFICES ASSUME dslips \subseteq {"late"}, NEW c \in asks', c.what = "get", c.n = lastGet, Untouched(c.id)',
                      NEW h \in c.answer, h # NoMem
               PROVE  h.scope = scope'[c.id] \/ Coming(c.id)'
    BY <1>1 DEF Found
  <2>1. CASE c = b
    BY <1>2, <1>4, <1>5, <2>1
  <2>2. CASE c \in asks /\ c # a /\ c.id \in elsewhere
    <3>1. a.what = "scope" /\ a.id = c.id
      BY <1>6, <2>2 DEF Untouched, DetailInv, Alone
    <3>2. QED  BY <1>11, <3>1 DEF Untouched
  <2>3. CASE c \in asks /\ c.id \notin elsewhere
    <3>1. There(c.id)  BY <1>12 DEF Untouched
    <3>2. h.scope = scope[c.id] \/ Coming(c.id)  BY <2>3, <3>1 DEF DetailInv, Found, Untouched
    <3>3. QED  BY <1>11, <1>12, <3>2 DEF Untouched
  <2>4. QED  BY <1>1, <2>1, <2>2, <2>3
<1>14. Read'
  <2> SUFFICES ASSUME dslips = {}, ~left, ~waiting, ~failed, memory # NoMem,
                      memory.id \in DOMAIN scope' /\ memory.id \notin elsewhere'
               PROVE  \/ memory.scope = scope'[memory.id]
                      \/ \E c \in asks' : /\ c.what = "scope" /\ Got(c) /\ c.id = memory.id
                                         /\ c.scope = scope'[memory.id]
    BY <1>1 DEF Read, There, Coming, Got, Untouched
  <2>1. PICK id : id = memory.id /\ There(id)' /\ id \notin elsewhere'
    BY DEF There
  <2>2. CASE id \in elsewhere
    <3>1. a.what = "scope" /\ a.id = id
      BY <1>6, <2>1, <2>2 DEF DetailInv, Newest
    <3>2. Coming(id)'  BY <1>11, <2>1, <3>1
    <3>3. QED  BY <2>1, <3>2 DEF Coming, Got
  <2>3. CASE id \notin elsewhere
    <3>2. memory.scope = scope[id] \/ Coming(id)
      BY <1>12, <2>1, <2>3 DEF DetailInv, Read, Untouched
    <3>3. memory.scope = scope'[id] \/ Coming(id)'
      BY <1>11, <1>12, <2>1, <3>2
    <3>4. QED  BY <2>1, <3>3 DEF Coming, Got
  <2>4. QED  BY <2>2, <2>3
<1>15. QED  BY <1>7, <1>8, <1>9, <1>10, <1>13, <1>14 DEF DetailInv

\* What others change is not known any more.
LEMMA ElsewhereSafe ==
  ASSUME DetailInv, NEW m \in Mems, NEW s \in Scopes, Elsewhere(m, s)
  PROVE  DetailInv'
<1>1. /\ elsewhere' = elsewhere \cup {m} /\ others' = others + 1
      /\ UNCHANGED <<address, memory, waiting, failed, asks, asked, lastGet, left, astray, dslips>>
      /\ DOMAIN scope' \subseteq Mems /\ scope' = [k \in DOMAIN scope' |-> scope'[k]]
      /\ \A k : k # m /\ k \in DOMAIN scope' => k \in DOMAIN scope /\ scope'[k] = scope[k]
  BY DEF Elsewhere, DetailInv, DetailType
<1>2. DetailType' /\ Alone' /\ Newest' /\ DeletedWasShown'
  BY <1>1 DEF DetailInv, DetailType, AskShape, Shown, Alone, Newest, DeletedWasShown
<1>3. \A id : Untouched(id)' => Untouched(id) /\ scope'[id] = scope[id]
  BY <1>1 DEF Untouched, There
<1>4. \A id : Untouched(id)' /\ Coming(id) => Coming(id)'
  BY <1>1, <1>3 DEF Coming, Got
<1>5. Written' /\ Found'
  BY <1>1, <1>3, <1>4 DEF DetailInv, Written, Found, Got
<1>6. Read'
  <2> SUFFICES ASSUME dslips = {}, ~left, ~waiting, ~failed, memory # NoMem,
                      memory.id \in DOMAIN scope' /\ memory.id \notin elsewhere'
               PROVE  \/ memory.scope = scope'[memory.id]
                      \/ \E c \in asks : /\ c.what = "scope" /\ Got(c) /\ c.id = memory.id
                                        /\ c.scope = scope'[memory.id]
    BY <1>1 DEF Read, There, Coming, Got, Untouched
  <2>1. /\ memory.id # m /\ Untouched(memory.id) /\ scope'[memory.id] = scope[memory.id]
    BY <1>1 DEF Untouched, There
  <2>2. memory.scope = scope[memory.id] \/ Coming(memory.id)
    BY <2>1 DEF DetailInv, Read
  <2>3. QED  BY <2>1, <2>2 DEF Coming
<1>7. QED  BY <1>2, <1>5, <1>6 DEF DetailInv

\* An answer of a fetch: the newest one brings the memory of the address.
LEMMA MemoryArrivesSafe ==
  ASSUME DetailInv, NEW a \in asks, MemoryArrives(a)
  PROVE  DetailInv'
<1>1. PICK g \in a.answer : g = CHOOSE h \in a.answer : TRUE
  BY DEF MemoryArrives, Got
<1>2. /\ a.what = "get" /\ a.n = a.n /\ g # NoMem /\ asks' = asks \ {a} /\ memory' = g /\ waiting' = FALSE
      /\ dslips' = IF a.n = lastGet THEN dslips \ {"late"} ELSE dslips \cup {"late"}
      /\ UNCHANGED <<servervars, address, failed, asked, lastGet, left, astray>>
  BY <1>1 DEF MemoryArrives, Got
<1>3. Shown(g) /\ g.id = a.id
  BY <1>2 DEF DetailInv, DetailType, AskShape
<1>4. \A b \in asks' : AskShape(b)'
  BY <1>2 DEF DetailInv, DetailType, AskShape, Shown, servervars
<1>5. DetailType'
  BY <1>2, <1>3, <1>4 DEF DetailInv, DetailType, Shown, servervars
<1>6. Alone' /\ Newest' /\ Written' /\ DeletedWasShown'
  BY <1>2, <1>3 DEF DetailInv, Alone, Newest, Written, DeletedWasShown, There, Got, Untouched, servervars
<1>7. \A id : Coming(id) => Coming(id)'
  BY <1>2 DEF Coming, Got, servervars
<1>8. Found'
  BY <1>2, <1>7 DEF DetailInv, Found, There, Untouched, servervars
<1>9. Read'
  <2>1. dslips' = {} => a.n = lastGet /\ dslips \subseteq {"late"}
    BY <1>2
  <2>2. dslips' = {} /\ Untouched(a.id) => g.scope = scope[a.id] \/ Coming(a.id)
    BY <1>2, <2>1 DEF DetailInv, Found
  <2>3. QED  BY <1>2, <1>3, <1>7, <2>2 DEF Read, There, Untouched, servervars
<1>10. QED  BY <1>5, <1>6, <1>8, <1>9 DEF DetailInv

\* An answer of a new scope: it is of the memory on the page, or a reason is
\* noted.
LEMMA ScopeArrivesSafe ==
  ASSUME DetailInv, NEW a \in asks, ScopeArrives(a)
  PROVE  DetailInv'
<1>1. /\ a.what = "scope" /\ Got(a) /\ asks' = asks \ {a} /\ memory # NoMem
      /\ memory' = [memory EXCEPT !.scope = a.scope]
      /\ dslips' = dslips \cup (IF memory.id # a.id \/ Busy("get") THEN {"moved"} ELSE {})
      /\ UNCHANGED <<servervars, address, waiting, failed, asked, lastGet, left, astray>>
  BY DEF ScopeArrives, DetailInv, Alone
<1>2. /\ memory' = [id |-> memory'.id, scope |-> memory'.scope] /\ memory'.id = memory.id
      /\ memory'.scope = a.scope /\ memory.id \in Mems /\ memory' # NoMem
  BY <1>1, DetailAssumption DEF DetailInv, DetailType, Shown, NoMem
<1>3. \A b \in asks' : AskShape(b)'
  BY <1>1 DEF DetailInv, DetailType, AskShape, Shown, servervars
<1>4. DetailType'
  <2>1. dslips' \subseteq {"late", "moved", "lost"}
    BY <1>1 DEF DetailInv, DetailType
  <2>2. QED  BY <1>1, <1>2, <1>3, <2>1 DEF DetailInv, DetailType, Shown, servervars
<1>5. Alone' /\ Newest' /\ Written' /\ DeletedWasShown'
  BY <1>1, <1>2 DEF DetailInv, Alone, Newest, Busy, Written, DeletedWasShown, There, Got, Untouched, servervars
<1>6. Found'
  <2>1. "moved" \notin dslips' => ~Busy("get")
    BY <1>1
  <2>2. QED  BY <1>1, <2>1 DEF Found, Busy
<1>7. Read'
  <2>1. dslips' = {} => memory.id = a.id
    BY <1>1
  <2>2. Untouched(a.id) => scope[a.id] = a.scope
    BY <1>1 DEF DetailInv, Written
  <2>3. QED  BY <1>1, <1>2, <2>1, <2>2 DEF Read, There, Untouched, servervars
<1>8. QED  BY <1>4, <1>5, <1>6, <1>7 DEF DetailInv

\* A request that fails, or the answer of a deletion, which leaves the page.
LEMMA AskEndsSafe ==
  ASSUME DetailInv, NEW a \in asks, AskFails(a) \/ DeletionArrives(a)
  PROVE  DetailInv'
<1>1. /\ asks' \subseteq asks \ {a} /\ memory' = memory /\ dslips \subseteq dslips'
      /\ dslips' \subseteq dslips \cup {"lost"} /\ (left => left')
      /\ (~waiting' => ~waiting \/ failed') /\ (failed => failed')
      /\ UNCHANGED <<servervars, address, asked, lastGet, astray>>
  <2>1. CASE AskFails(a)
    <3>1. ~waiting' => ~waiting \/ failed'
      BY <2>1 DEF AskFails
    <3>2. failed => failed'
      BY <2>1 DEF AskFails
    <3>3. QED  BY <2>1, <3>1, <3>2 DEF AskFails, ScopeKept
  <2>2. CASE DeletionArrives(a)
    BY <2>2 DEF DeletionArrives
  <2>3. QED  BY <2>1, <2>2
<1>2. (a.what = "scope" /\ Got(a) => dslips' # {} /\ "lost" \in dslips') \/ (asks' = {} /\ left')
  BY DEF AskFails, DeletionArrives
<1>3. asks' = asks \ {a} \/ (asks' = {} /\ left')
  BY DEF AskFails, DeletionArrives
<1>4. \A b \in asks' : AskShape(b)'
  BY <1>1 DEF DetailInv, DetailType, AskShape, Shown, servervars
<1>5. DetailType'
  BY <1>1, <1>4 DEF DetailInv, DetailType, Shown, servervars
<1>6. Alone' /\ Newest' /\ Written' /\ DeletedWasShown'
  BY <1>1 DEF DetailInv, Alone, Newest, Written, DeletedWasShown, There, Got, Untouched, servervars
<1>7. CASE asks' = {} /\ left'
  BY <1>5, <1>6, <1>7 DEF DetailInv, Found, Read
<1>8. CASE asks' = asks \ {a} /\ (a.what = "scope" /\ Got(a) => "lost" \in dslips')
  <2>1. "lost" \notin dslips' => \A id : Coming(id) => Coming(id)'
    BY <1>1, <1>8 DEF Coming, Got, servervars
  <2>2. Found'
    BY <1>1, <1>8, <2>1 DEF DetailInv, Found, There, Untouched, servervars
  <2>3. Read'
    BY <1>1, <1>8, <2>1 DEF DetailInv, Read, There, Untouched, servervars
  <2>4. QED  BY <1>5, <1>6, <2>2, <2>3 DEF DetailInv
<1>9. QED  BY <1>2, <1>3, <1>7, <1>8

\* DetailInv is an invariant: one step for each action of the page.
LEMMA DetailAlways == DetSpec => []DetailInv
<1>1. DetInit => DetailInv
  <2> SUFFICES ASSUME DetInit  PROVE DetailInv
    OBVIOUS
  <2>0. PICK a : a = [n |-> 1, what |-> "get", id |-> address, scope |-> "", answer |-> {}]
    OBVIOUS
  <2>1. /\ asks = {a} /\ a.what = "get" /\ a.n = 1 /\ a.id = address /\ a.answer = {}
        /\ a = [n |-> a.n, what |-> a.what, id |-> a.id, scope |-> a.scope, answer |-> a.answer]
    BY <2>0 DEF DetInit
  <2>2. AskShape(a)
    <3>1. asked = 1 /\ address \in Mems  BY DEF DetInit
    <3>2. a.n \in 1 .. asked  BY <2>1, <3>1
    <3>3. QED  BY <2>1, <3>1, <3>2 DEF AskShape
  <2>3. DetailType
    <3>1. asked = 1 /\ lastGet = 1 /\ address \in Mems /\ dslips = {} /\ memory = NoMem /\ others = 0
      BY DEF DetInit
    <3>2. asked \in Nat /\ lastGet \in 1 .. asked
      BY <3>1
    <3>3. DOMAIN scope = Mems /\ scope = [m \in DOMAIN scope |-> scope[m]]
      BY DEF DetInit
    <3>4. Shown(memory)
      BY <3>1 DEF Shown, NoMem
    <3>5. QED  BY <2>1, <2>2, <3>1, <3>2, <3>3, <3>4 DEF DetailType
  <2>4. QED
    BY <2>1, <2>3 DEF DetInit, DetailInv, Alone, Newest, Written, Found, Read, DeletedWasShown
<1>2. DetailInv /\ [DetNext]_detvars => DetailInv'
  <2> SUFFICES ASSUME DetailInv, [DetNext]_detvars  PROVE DetailInv'
    OBVIOUS
  <2>1. ASSUME NEW id \in Mems, Follow(id) \/ History(id)  PROVE DetailInv'
    BY <2>1, FetchSafe DEF Follow, History
  <2>2. ASSUME NEW s \in Scopes, UpdateScope(s)  PROVE DetailInv'
    <3>1. PICK a : a = Ask("scope", memory.id, s)
      OBVIOUS
    <3>2. memory # NoMem /\ memory.id \in Mems
      BY <2>2 DEF UpdateScope, Visible, DetailInv, DetailType, Shown, servervars
    <3>3. Put(a) /\ ~Busy("scope") /\ ~astray'
      BY <2>2, <3>1 DEF UpdateScope, DetailInv, DeletedWasShown
    <3>4. QED  BY <2>2, <3>1, <3>2, <3>3, PutSafe DEF UpdateScope, Ask
  <2>3. CASE Confirm
    <3>1. PICK a : a = Ask("delete", address, "")
      OBVIOUS
    <3>2. ~astray'
      BY <2>3 DEF Confirm, Visible, DetailInv, Newest, DeletedWasShown
    <3>3. Put(a) /\ memory # NoMem /\ address \in Mems
      BY <2>3, <3>1 DEF Confirm, Visible, DetailInv, DetailType
    <3>4. QED  BY <2>3, <3>1, <3>2, <3>3, PutSafe DEF Confirm, Ask
  <2>4. ASSUME NEW a \in asks,
               \/ ServeGet(a) \/ ServeDelete(a) \/ ServeScope(a)
               \/ MemoryArrives(a) \/ ScopeArrives(a) \/ DeletionArrives(a) \/ AskFails(a)
        PROVE  DetailInv'
    BY <2>4, ServeSafe, MemoryArrivesSafe, ScopeArrivesSafe, AskEndsSafe
  <2>7. ASSUME NEW k \in Mems, NEW s \in Scopes, Elsewhere(k, s)  PROVE DetailInv'
    BY <2>7, ElsewhereSafe
  <2>5. CASE UNCHANGED detvars
    BY <2>5 DEF detvars, DetailInv, DetailType, AskShape, Shown, Alone, Newest, Written, Found, Read,
                Coming, There, Got, Untouched, servervars, DeletedWasShown
  <2>6. QED
    BY <2>1, <2>2, <2>3, <2>4, <2>5, <2>7 DEF DetNext
<1>3. QED
  BY <1>1, <1>2, PTL DEF DetSpec

\* The page of a memory deletes only the one it was showing when that was
\* confirmed, whatever address it is taken to, unless it shows an answer that
\* came late, to a fetch for an address it has left: for any memories, scopes
\* and requests (memory-detail.tsx, the dialog's action).
THEOREM ShownIsDeleted == DetSpec => []DeletedWasShown
<1>1. DetailInv => DeletedWasShown
  BY DEF DetailInv
<1>2. QED  BY <1>1, DetailAlways, PTL

\* The page of a memory, when it waits for nothing, shows the memory of its
\* address, with the scope it has at the server if nobody else has changed it
\* since, unless an answer was late, the page was moved meanwhile or an answer
\* was lost (memory-detail.tsx, its effect and handleUpdateScope).
THEOREM DetailIsTrue == DetSpec => []DetailTrue
<1>1. DetailInv => DetailTrue
  <2> SUFFICES ASSUME DetailInv, Visible, asks = {}, dslips = {}
               PROVE  memory.id = address 
                       /\ (Untouched(address) => memory.scope = scope[address])
    BY DEF DetailTrue, Untouched
  <2>1. memory.id = address
    BY DEF DetailInv, Newest, Visible
  <2>2. Untouched(address) => memory.scope = scope[address]
    BY <2>1 DEF DetailInv, Read, Visible, Coming
  <2>3. QED  BY <2>1, <2>2
<1>2. QED  BY <1>1, DetailAlways, PTL
-----------------------------------------------------------------------------
(* MemoryLists.                                                            *)

\* A fetch, and that one comes after the n-th request.
Pull(r)      == r.what # "delete"
Overtaken(n) == \E q \in fetches : Pull(q) /\ q.n > n

\* Memories are what the page should show for what was asked.
Fits(ms, ask) == ask = Asked(view) /\ ms \subseteq Hits(ask) \ gone

ViewShape(v) ==
  /\ v = [page |-> v.page, filter |-> v.filter, typed |-> v.typed, query |-> v.query, key |-> v.key]
  /\ v.key \in Nat

Counts ==
  /\ sent \in Nat /\ newest \in 0 .. sent /\ ViewShape(view)
  /\ \A r \in fetches :
       /\ r.what \in {"get", "again", "delete"} /\ r.n \in 0 .. sent
       /\ r = [n |-> r.n, what |-> r.what, ask |-> r.ask, ids |-> r.ids, old |-> r.old, answer |-> r.answer]
  /\ shown = [rows |-> shown.rows, total |-> shown.total, ask |-> shown.ask]

\* What was deleted does not come back.
Buried ==
  /\ rows \cap gone = {}
  /\ \A r \in fetches : r.what = "delete" /\ r.answer # {} => rows \cap r.ids = {}

\* The newest fetch that was answered, and every other one, brought or brings
\* the list that should be shown, or a newer one is under way.
ShownFits == errs = {} => Fits(shown.rows, shown.ask) \/ Overtaken(newest)
AnswersFit ==
  \A r \in fetches : r.what = "get" =>
    \/ newest > r.n \/ Overtaken(r.n)
    \/ r.ask = Asked(view) /\ \A a \in r.answer : Fits(a.rows, r.ask)

PagesInv == Counts /\ Buried /\ ShownFits /\ AnswersFit

\* A view that needs no new fetch asks for what the last one asked for.
LEMMA RefetchAsks ==
  ASSUME NEW v, NEW w
  PROVE  \/ Refetch(v, w) = <<Asked(w)>>
         \/ Refetch(v, w) = <<>> /\ Asked(w) = Asked(v)
BY DEF Refetch, ListChanges, VaultChanges, Asked, ListAsks, VaultAsks

\* Requests for the view w that join those in flight: the old ones are
\* overtaken, or still ask for the same.
LEMMA FetchingFits ==
  ASSUME PagesInv, NEW w, ViewShape(w), view' = w, NEW wanted, NEW out, NEW more,
         wanted = <<Asked(w)>> \/ wanted = <<Asked(w), Asked(w)>> \/ (wanted = <<>> /\ Asked(w) = Asked(view) /\ more = {}),
         Fetching(fetches \ out, wanted), \A r \in out : r.what = "delete",
         gone' = gone \cup more, rows \cap more = {},
         UNCHANGED <<kind, rows, shown, newest, errs>>
  PROVE  PagesInv'
<1>1. /\ fetches' = (fetches \ out) \cup {Get(sent + i, wanted[i]) : i \in DOMAIN wanted}
      /\ sent' = sent + Len(wanted)
  BY DEF Fetching
<1>2. sent \in Nat /\ newest \in 0 .. sent /\ \A r \in fetches : r.n \in 0 .. sent
  BY DEF PagesInv, Counts
<1>3. Asked(w)' = Asked(w) /\ Asked(view)' = Asked(w)
  BY DEF Asked, InVault, ListAsks, VaultAsks
<1>4. PICK new : /\ new = {Get(sent + i, wanted[i]) : i \in DOMAIN wanted}
  OBVIOUS
<1>5. /\ sent' \in Nat /\ sent' >= sent /\ (wanted # <<>> => sent + 1 \in Nat /\ \E r \in new : r.n = sent + 1 /\ Pull(r))
      /\ \A r \in new :
           /\ r.what = "get" /\ r.n \in 1 .. sent' /\ r.n > sent /\ r.ask = Asked(w) /\ r.answer = {}
           /\ r = [n |-> r.n, what |-> r.what, ask |-> r.ask, ids |-> r.ids, old |-> r.old, answer |-> r.answer]
  <2>1. CASE wanted = <<>>
    BY <1>1, <1>2, <1>4, <2>1
  <2>2. CASE wanted = <<Asked(w)>>
    <3>1. new = {Get(sent + 1, Asked(w))} /\ sent' = sent + 1
      BY <1>1, <1>4, <2>2
    <3>2. QED  BY <1>2, <2>2, <3>1 DEF Get, Pull
  <2>3. CASE wanted = <<Asked(w), Asked(w)>>
    <3>1. new = {Get(sent + 1, Asked(w)), Get(sent + 2, Asked(w))} /\ sent' = sent + 2
      BY <1>1, <1>4, <2>3
    <3>2. QED  BY <1>2, <2>3, <3>1 DEF Get, Pull
  <2>4. QED  BY <2>1, <2>2, <2>3
<1>6. fetches' = (fetches \ out) \cup new
  BY <1>1, <1>4
<1>7. Counts'
  BY <1>2, <1>5, <1>6 DEF PagesInv, Counts, ViewShape
<1>8. Buried'
  BY <1>5, <1>6 DEF PagesInv, Buried
<1>9. CASE wanted = <<>>
  <2>1. \A n : Overtaken(n) => Overtaken(n)'
    BY <1>6 DEF Overtaken, Pull
  <2>2. gone' = gone /\ Asked(view)' = Asked(view) /\ new = {}
    BY <1>3, <1>4, <1>9
  <2>3. \A l, ask : Fits(l, ask) => Fits(l, ask)'
    BY <2>2 DEF Fits, Hits
  <2>4. ShownFits' /\ AnswersFit'
    BY <1>6, <2>1, <2>2, <2>3 DEF PagesInv, ShownFits, AnswersFit
  <2>5. QED  BY <1>7, <1>8, <2>4 DEF PagesInv
<1>10. CASE wanted # <<>>
  <2>1. \A n \in 0 .. sent : Overtaken(n)'
    BY <1>2, <1>5, <1>6, <1>10 DEF Overtaken, Pull
  <2>2. ShownFits'
    BY <1>2, <2>1 DEF ShownFits, Overtaken
  <2>3. AnswersFit'
    BY <1>2, <1>3, <1>5, <1>6, <2>1 DEF AnswersFit, Overtaken
  <2>4. QED  BY <1>7, <1>8, <2>2, <2>3 DEF PagesInv
<1>11. QED  BY <1>9, <1>10

\* The page is rendered with another view.
LEMMA RenderFits ==
  ASSUME PagesInv, NEW w, ViewShape(w), Render(w)
  PROVE  PagesInv'
<1>1. PICK wanted, out : wanted = Refetch(view, w) /\ out = {} /\ Fetching(fetches \ out, wanted)
  <2>1. fetches \ {} = fetches  OBVIOUS
  <2>2. QED  BY <2>1 DEF Render
<1>2. wanted = <<Asked(w)>> \/ (wanted = <<>> /\ Asked(w) = Asked(view))
  BY <1>1, RefetchAsks
<1>3. PICK more : more = {} /\ gone' = gone \cup more
  <2>1. gone \cup {} = gone  OBVIOUS
  <2>2. QED  BY <2>1 DEF Render
<1>4. view' = w /\ UNCHANGED <<kind, rows, shown, newest, errs>>
  BY DEF Render
<1>5. rows \cap more = {} /\ \A r \in out : r.what = "delete"
  BY <1>1, <1>3
<1>6. QED  BY <1>1, <1>2, <1>3, <1>4, <1>5, FetchingFits

\* The search is debounced: the vault fetches whether the view changed or not.
LEMMA DebouncedFits ==
  ASSUME PagesInv, ListDebounced \/ VaultDebounced
  PROVE  PagesInv'
<1>1. ViewShape(view)
  BY DEF PagesInv, Counts
<1>2. PICK w, wanted, out, more :
        /\ ViewShape(w) /\ view' = w /\ out = {} /\ more = {} /\ Fetching(fetches \ out, wanted)
        /\ wanted = Refetch(view, w) \/ wanted = <<Asked(w)>> \o Refetch(view, w)
        /\ gone' = gone \cup more /\ UNCHANGED <<kind, rows, shown, newest, errs>>
  <2>1. fetches \ {} = fetches /\ gone \cup {} = gone  OBVIOUS
  <2>2. CASE ListDebounced
    <3>1. PICK w : w = [view EXCEPT !.page = 1, !.query = view.typed]  OBVIOUS
    <3>2. ViewShape(w)  BY <1>1, <3>1 DEF ViewShape
    <3>3. QED  BY <2>1, <2>2, <3>1, <3>2 DEF ListDebounced
  <2>3. CASE VaultDebounced
    <3>1. PICK w : w = [view EXCEPT !.page = 1]  OBVIOUS
    <3>2. ViewShape(w)  BY <1>1, <3>1 DEF ViewShape
    <3>3. QED  BY <2>1, <2>3, <3>1, <3>2 DEF VaultDebounced
  <2>4. QED  BY <2>2, <2>3
<1>3. \/ wanted = <<Asked(w)>> \/ wanted = <<Asked(w), Asked(w)>>
      \/ wanted = <<>> /\ Asked(w) = Asked(view)
  <2>1. CASE Refetch(view, w) = <<Asked(w)>>
    BY <1>2, <2>1
  <2>2. CASE Refetch(view, w) = <<>> /\ Asked(w) = Asked(view)
    BY <1>2, <2>2
  <2>3. QED  BY <2>1, <2>2, RefetchAsks
<1>4. rows \cap more = {} /\ \A r \in out : r.what = "delete"
  BY <1>2
<1>5. QED  BY <1>2, <1>3, <1>4, FetchingFits

\* The list deletes and fetches again, whatever the view.
LEMMA ListDeletedFits ==
  ASSUME PagesInv, NEW r \in fetches, ListDeleted(r)
  PROVE  PagesInv'
<1>1. ViewShape(view)
  BY DEF PagesInv, Counts
<1>2. PICK w, wanted, out, more :
        /\ w = [view EXCEPT !.key = @ + 1] /\ view' = w /\ wanted = Refetch(view, w)
        /\ out = {r} /\ more = r.ids /\ Fetching(fetches \ out, wanted) /\ gone' = gone \cup more
        /\ UNCHANGED <<kind, rows, shown, newest, errs>>
  BY DEF ListDeleted
<1>3. ViewShape(w) /\ w.key # view.key
  BY <1>1, <1>2 DEF ViewShape
<1>4. wanted = <<Asked(w)>>
  BY <1>2, <1>3 DEF ListDeleted, Refetch, ListChanges
<1>5. r.what = "delete" /\ rows \cap more = {}
  BY <1>2 DEF ListDeleted, PagesInv, Buried
<1>6. QED  BY <1>2, <1>3, <1>4, <1>5, FetchingFits

\* The vault deletes and fetches what an old rendering was showing.
LEMMA VaultDeletedFits ==
  ASSUME PagesInv, NEW r \in fetches, VaultDeleted(r)
  PROVE  PagesInv'
<1> DEFINE back == r.old \subseteq r.ids /\ r.ask.page > 1
<1>1. PICK w, ask, again, more :
        /\ w = (IF back THEN [view EXCEPT !.page = r.ask.page - 1] ELSE view)
        /\ again = [Get(sent + 1, ask) EXCEPT !.what = IF ask = Asked(w) THEN "get" ELSE "again"]
        /\ more = ToSet(Refetch(view, w)) /\ view' = w /\ sent' = sent + 1 + Cardinality(more)
        /\ fetches' = (fetches \ {r}) \cup {again} \cup {Get(sent + 2, a) : a \in more}
        /\ r.what = "delete" /\ r.answer # {} /\ gone' = gone \cup r.ids
        /\ UNCHANGED <<kind, rows, shown, newest, errs>>
  BY DEF VaultDeleted
<1> HIDE DEF back
<1>2. /\ again.n = sent + 1 /\ again.ask = ask /\ again.answer = {} /\ again.what \in {"get", "again"}
      /\ (again.what = "get" => ask = Asked(w))
      /\ again = [n |-> again.n, what |-> again.what, ask |-> again.ask, ids |-> again.ids,
                  old |-> again.old, answer |-> again.answer]
  BY <1>1 DEF Get
<1>3. ViewShape(w)
  BY <1>1 DEF PagesInv, Counts, ViewShape
<1>4. sent \in Nat /\ newest \in 0 .. sent /\ \A q \in fetches : q.n \in 0 .. sent
  BY DEF PagesInv, Counts
<1>5. Asked(w)' = Asked(w) /\ Asked(view)' = Asked(w)
  BY <1>1 DEF Asked, InVault, ListAsks, VaultAsks
<1>6. more = {} \/ more = {Asked(w)}
  <2>1. Refetch(view, w) = <<Asked(w)>> => more = {Asked(w)}
    BY <1>1 DEF ToSet
  <2>2. Refetch(view, w) = <<>> => more = {}
    BY <1>1 DEF ToSet
  <2>3. QED  BY <2>1, <2>2, RefetchAsks
<1>7. Cardinality(more) = IF more = {} THEN 0 ELSE 1
  BY <1>6, FS_EmptySet, FS_Singleton
<1>8. PICK new : /\ new = {again} \cup {Get(sent + 2, a) : a \in more}
                 /\ fetches' = (fetches \ {r}) \cup new
  <2>1. (fetches \ {r}) \cup {again} \cup {Get(sent + 2, a) : a \in more}
          = (fetches \ {r}) \cup ({again} \cup {Get(sent + 2, a) : a \in more})
    OBVIOUS
  <2>2. QED  BY <1>1, <2>1
<1>9. /\ sent' \in Nat /\ sent' >= sent /\ again \in new
      /\ \A q \in new :
           /\ q.what \in {"get", "again"} /\ q.n \in 1 .. sent' /\ q.n > sent /\ q.answer = {}
           /\ q.what = "get" => q.ask = Asked(w)
           /\ q = [n |-> q.n, what |-> q.what, ask |-> q.ask, ids |-> q.ids, old |-> q.old, answer |-> q.answer]
  <2>1. CASE more = {}
    <3>1. new = {again} /\ sent' = sent + 1
      BY <1>1, <1>4, <1>7, <1>8, <2>1
    <3>2. QED  BY <1>2, <1>4, <3>1
  <2>2. CASE more = {Asked(w)}
    <3>1. new = {again, Get(sent + 2, Asked(w))} /\ sent' = sent + 2
      BY <1>1, <1>4, <1>7, <1>8, <2>2
    <3>2. QED  BY <1>2, <1>4, <3>1 DEF Get
  <2>3. QED  BY <1>6, <2>1, <2>2
<1>10. Counts'
  BY <1>1, <1>3, <1>4, <1>8, <1>9 DEF PagesInv, Counts, ViewShape
<1>11. Buried'
  BY <1>1, <1>8, <1>9 DEF PagesInv, Buried
<1>12. \A n \in 0 .. sent : Overtaken(n)'
  BY <1>2, <1>4, <1>8, <1>9 DEF Overtaken, Pull
<1>13. ShownFits'
  BY <1>1, <1>4, <1>12 DEF ShownFits, Overtaken
<1>14. AnswersFit'
  BY <1>4, <1>5, <1>8, <1>9, <1>12 DEF AnswersFit, Overtaken
<1>15. QED  BY <1>10, <1>11, <1>13, <1>14 DEF PagesInv

\* Steps that fetch nothing and bring nothing: they may take rows of the page.
LEMMA QuietFits ==
  ASSUME PagesInv, NEW r, r \in fetches' => r.what = "delete" /\ r.answer = {} /\ r.n = 0,
         r = [n |-> r.n, what |-> r.what, ask |-> r.ask, ids |-> r.ids, old |-> r.old, answer |-> r.answer],
         fetches' \subseteq fetches \cup {r}, \A q \in fetches \ fetches' : q.what = "delete",
         shown' = [rows |-> shown'.rows, total |-> shown'.total, ask |-> shown'.ask],
         errs' = {} => errs = {} /\ shown'.rows \subseteq shown.rows /\ shown'.ask = shown.ask,
         rows' \cap gone = {}, \A q \in fetches : rows' \cap q.ids \subseteq rows,
         UNCHANGED <<kind, view, sent, newest, gone>>
  PROVE  PagesInv'
<1>1. sent \in Nat
  BY DEF PagesInv, Counts
<1>2. Counts'
  BY <1>1 DEF PagesInv, Counts, ViewShape
<1>3. Buried'
  BY DEF PagesInv, Buried
<1>4. \A n : Overtaken(n) => Overtaken(n)'
  BY DEF Overtaken, Pull
<1>5. \A l, ask : Fits(l, ask) => Fits(l, ask)'
  BY DEF Fits, Asked, InVault, ListAsks, VaultAsks, Hits
<1>6. ShownFits'
  BY <1>4, <1>5 DEF PagesInv, ShownFits, Fits
<1>7. AnswersFit'
  <2>1. \A q \in fetches' : q.what = "get" => q \in fetches
    OBVIOUS
  <2>2. Asked(view)' = Asked(view)
    BY DEF Asked, InVault, ListAsks, VaultAsks
  <2>3. QED  BY <1>4, <1>5, <2>1, <2>2 DEF PagesInv, AnswersFit
<1>8. QED  BY <1>2, <1>3, <1>6, <1>7 DEF PagesInv

\* A fetch is served with rows that its request asks for and the server has.
LEMMA ServeFits ==
  ASSUME PagesInv, NEW r \in fetches, Serve(r)
  PROVE  PagesInv'
<1>1. PICK ans, s : /\ ans = (IF r.what = "delete" THEN {TRUE} ELSE {Answer(r.ask)})
                    /\ s = [r EXCEPT !.answer = ans]
  OBVIOUS
<1>2. /\ r.answer = {} /\ fetches' = (fetches \ {r}) \cup {s} /\ rows' = rows \ r.ids
      /\ UNCHANGED <<kind, view, shown, sent, newest, gone, errs>>
  BY <1>1 DEF Serve
<1>3. /\ s.n = r.n /\ s.what = r.what /\ s.ask = r.ask /\ s.ids = r.ids /\ s.answer = ans
      /\ s = [n |-> s.n, what |-> s.what, ask |-> s.ask, ids |-> s.ids, old |-> s.old, answer |-> s.answer]
  <2>1. r = [n |-> r.n, what |-> r.what, ask |-> r.ask, ids |-> r.ids, old |-> r.old, answer |-> r.answer]
    BY DEF PagesInv, Counts
  <2>2. s = [r EXCEPT !.answer = ans]
    BY <1>1
  <2>3. QED  BY ONLY <2>1, <2>2
<1>4. PICK got : /\ r.what # "delete" => ans = {got}
                 /\ got.rows \subseteq rows \cap Hits(r.ask)
  <2>1. Answer(r.ask).rows \subseteq rows \cap Hits(r.ask)
    BY DEF Answer
  <2>2. PICK got : got = Answer(r.ask)
    OBVIOUS
  <2>3. r.what # "delete" => ans = {got}
    BY <1>1, <2>2
  <2>4. got.rows \subseteq rows \cap Hits(r.ask)
    BY <2>1, <2>2
  <2>5. QED  BY <2>3, <2>4
<1>5. Counts'
  BY <1>2, <1>3 DEF PagesInv, Counts, ViewShape
<1>6. Buried'
  BY <1>2, <1>3 DEF PagesInv, Buried
<1>7. \A n : Overtaken(n) => Overtaken(n)'
  BY <1>2, <1>3 DEF Overtaken, Pull
<1>8. \A l, ask : Fits(l, ask) => Fits(l, ask)'
  BY <1>2 DEF Fits, Asked, InVault, ListAsks, VaultAsks, Hits
<1>9. ShownFits'
  BY <1>2, <1>7, <1>8 DEF PagesInv, ShownFits
<1>10. AnswersFit'
  <2> SUFFICES ASSUME NEW q \in fetches', q.what = "get", ~(newest > q.n), ~Overtaken(q.n)'
               PROVE  q.ask = Asked(view)' /\ \A a \in q.answer : Fits(a.rows, q.ask)'
    BY <1>2 DEF AnswersFit
  <2>1. CASE q \in fetches
    <3>1. q.ask = Asked(view) /\ \A a \in q.answer : Fits(a.rows, q.ask)
      BY <1>7, <2>1 DEF PagesInv, AnswersFit
    <3>2. Asked(view)' = Asked(view)
      BY <1>2 DEF Asked, InVault, ListAsks, VaultAsks
    <3>3. QED  BY <1>8, <3>1, <3>2
  <2>2. CASE q = s
    <3>1. r.ask = Asked(view)
      BY <1>3, <1>7, <2>2 DEF PagesInv, AnswersFit
    <3>2. Fits(got.rows, r.ask)
      BY <1>4, <3>1 DEF Fits, PagesInv, Buried
    <3>3. Asked(view)' = Asked(view)
      BY <1>2 DEF Asked, InVault, ListAsks, VaultAsks
    <3>4. q.answer = {got} /\ q.ask = r.ask
      BY <1>3, <1>4, <2>2
    <3>5. QED  BY <1>8, <3>1, <3>2, <3>3, <3>4
  <2>3. QED  BY <1>2, <2>1, <2>2
<1>11. QED  BY <1>5, <1>6, <1>9, <1>10 DEF PagesInv

\* A fetch comes to an end: as the newest it is shown, or was lost.
LEMMA PullEnds ==
  ASSUME PagesInv, NEW r \in fetches, Arrive(r) \/ FetchFails(r)
  PROVE  PagesInv'
<1>1. /\ r.what # "delete" /\ fetches' = fetches \ {r} /\ newest' = IF r.n > newest THEN r.n ELSE newest
      /\ UNCHANGED <<kind, rows, view, sent, gone>>
  BY DEF Arrive, FetchFails
<1>2. sent \in Nat /\ newest \in 0 .. sent /\ \A q \in fetches : q.n \in 0 .. sent
  BY DEF PagesInv, Counts
<1>3. shown' = [rows |-> shown'.rows, total |-> shown'.total, ask |-> shown'.ask]
  BY DEF Arrive, FetchFails, PagesInv, Counts
<1>4. newest' \in 0 .. sent /\ newest' >= newest /\ newest' >= r.n
  BY <1>1, <1>2
<1>5. Counts' /\ Buried'
  BY <1>1, <1>3, <1>4 DEF PagesInv, Counts, ViewShape, Buried
<1>6. \A n \in 0 .. sent : Overtaken(n) => Overtaken(n)' \/ newest' > n
  BY <1>1, <1>2, <1>4 DEF Overtaken, Pull
<1>7. \A l, ask : Fits(l, ask) => Fits(l, ask)'
  BY <1>1 DEF Fits, Asked, InVault, ListAsks, VaultAsks, Hits
<1>8. Asked(view)' = Asked(view)
  BY <1>1 DEF Asked, InVault, ListAsks, VaultAsks
<1>9. AnswersFit'
  BY <1>1, <1>2, <1>4, <1>6, <1>7, <1>8 DEF PagesInv, AnswersFit
<1>10. ShownFits'
  <2> SUFFICES ASSUME errs' = {}  PROVE Fits(shown.rows, shown.ask)' \/ Overtaken(newest)'
    BY DEF ShownFits
  <2>1. CASE FetchFails(r)
    <3>1. errs = {} /\ shown' = shown /\ newest' = newest
      BY <1>2, <2>1 DEF FetchFails
    <3>2. QED  BY <1>2, <1>6, <1>7, <3>1 DEF PagesInv, ShownFits
  <2>2. CASE Arrive(r)
    <3>1. ~(r.n < newest) /\ r.what = "get"
      BY <2>2 DEF Arrive, PagesInv, Counts
    <3>2. newest' = r.n
      BY <1>1, <1>2, <3>1
    <3>3. PICK a \in r.answer : shown' = [rows |-> a.rows, total |-> a.total, ask |-> r.ask]
      BY <2>2 DEF Arrive
    <3>4. CASE Overtaken(r.n)
      BY <1>2, <1>6, <3>2, <3>4
    <3>5. CASE Fits(a.rows, r.ask)
      BY <1>7, <3>3, <3>5
    <3>6. QED  BY <1>2, <3>1, <3>4, <3>5 DEF PagesInv, AnswersFit
  <2>3. QED  BY <2>1, <2>2
<1>11. QED  BY <1>5, <1>9, <1>10 DEF PagesInv

\* The two lists of memories, when they wait for nothing, show what their view
\* asks for and nothing deleted, unless they noted why not, for any memories,
\* filters, sizes of pages and number of fetches (memory-list.tsx and
\* vault-memories.tsx, their effects and handlers).
THEOREM ListsShown == LSpec => []ListSettled
<1>1. LInit => PagesInv
  <2> SUFFICES ASSUME LInit  PROVE PagesInv
    OBVIOUS
  <2>1. PICK r : r = Get(1, Asked(view)) /\ fetches = {r}
    BY DEF LInit
  <2>2. r = [n |-> 1, what |-> "get", ask |-> Asked(view), ids |-> {}, old |-> {}, answer |-> {}]
    BY <2>1 DEF Get
  <2>3. ViewShape(view)
    <3>1. PICK n, f, q : view = Opening(n, f, q)
      BY DEF LInit
    <3>2. view = [page |-> n, filter |-> f, typed |-> q, query |-> q, key |-> 0]
      BY <3>1 DEF Opening
    <3>3. QED  BY <3>2 DEF ViewShape
  <2>4. sent = 1 /\ newest = 0 /\ gone = {} /\ shown = [rows |-> {}, total |-> 0, ask |-> Asked(view)]
    BY DEF LInit
  <2>5. Counts
    BY <2>1, <2>2, <2>3, <2>4 DEF Counts
  <2>6. Buried /\ ShownFits /\ AnswersFit
    BY <2>1, <2>2, <2>4 DEF Buried, ShownFits, AnswersFit, Fits
  <2>7. QED  BY <2>5, <2>6 DEF PagesInv
<1>2. PagesInv /\ [LNext]_lvars => PagesInv'
  <2> SUFFICES ASSUME PagesInv, [LNext]_lvars  PROVE PagesInv'
    OBVIOUS
  <2>1. CASE Type \/ SetFilter \/ SetVaultFilter \/ ClearFilter \/ ResetFilters \/ PreviousPage \/ NextPage
    <3>1. ViewShape(view)
      BY DEF PagesInv, Counts
    <3>2. PICK w : ViewShape(w) /\ Render(w)
      <4>1. CASE Type
        <5>1. PICK w : w = [view EXCEPT !.typed = ~@]  OBVIOUS
        <5>2. ViewShape(w)  BY <3>1, <5>1 DEF ViewShape
        <5>3. QED  BY <4>1, <5>1, <5>2 DEF Type
      <4>2. CASE SetFilter \/ SetVaultFilter
        <5>1. PICK w : w = [view EXCEPT !.filter = ~@, !.page = 1]  OBVIOUS
        <5>2. ViewShape(w)  BY <3>1, <5>1 DEF ViewShape
        <5>3. QED  BY <4>2, <5>1, <5>2 DEF SetFilter, SetVaultFilter
      <4>3. CASE ClearFilter
        <5>1. PICK w : w = [view EXCEPT !.filter = FALSE]  OBVIOUS
        <5>2. ViewShape(w)  BY <3>1, <5>1 DEF ViewShape
        <5>3. QED  BY <4>3, <5>1, <5>2 DEF ClearFilter
      <4>4. CASE ResetFilters
        <5>1. PICK w : w = [view EXCEPT !.filter = FALSE, !.typed = FALSE, !.page = 1]  OBVIOUS
        <5>2. ViewShape(w)  BY <3>1, <5>1 DEF ViewShape
        <5>3. QED  BY <4>4, <5>1, <5>2 DEF ResetFilters
      <4>5. CASE NextPage
        <5>1. PICK w : w = [view EXCEPT !.page = @ + 1]  OBVIOUS
        <5>2. ViewShape(w)  BY <3>1, <5>1 DEF ViewShape
        <5>3. QED  BY <4>5, <5>1, <5>2 DEF NextPage
      <4>6. CASE PreviousPage
        <5>1. PICK w : w = [view EXCEPT !.page = @ - 1]  OBVIOUS
        <5>2. ViewShape(w)  BY <3>1, <5>1 DEF ViewShape
        <5>3. QED  BY <4>6, <5>1, <5>2 DEF PreviousPage
      <4>7. QED  BY <2>1, <4>1, <4>2, <4>3, <4>4, <4>5, <4>6
    <3>3. QED  BY <3>2, RenderFits
  <2>2. CASE ListDebounced \/ VaultDebounced
    BY <2>2, DebouncedFits
  <2>3. CASE DeleteRow \/ DeleteSelected
    <3>1. PICK r :
            /\ r.n = 0 /\ r.what = "delete" /\ r.answer = {}
            /\ r = [n |-> r.n, what |-> r.what, ask |-> r.ask, ids |-> r.ids, old |-> r.old, answer |-> r.answer]
            /\ fetches' = fetches \cup {r} /\ UNCHANGED <<kind, rows, view, sent, newest, gone, errs>>
            /\ shown' = shown \/ \E i : shown' = [shown EXCEPT !.rows = @ \ {i}]
      <4>1. ASSUME NEW ids, ListDelete(ids)
            PROVE  \E r : /\ r.n = 0 /\ r.what = "delete" /\ r.answer = {}
                          /\ r = [n |-> r.n, what |-> r.what, ask |-> r.ask, ids |-> r.ids,
                                  old |-> r.old, answer |-> r.answer]
                          /\ fetches' = fetches \cup {r} /\ shown' = shown
        <5>1. PICK r : r = [Get(0, NoAsk) EXCEPT !.what = "delete", !.ids = ids]  OBVIOUS
        <5>2. /\ r.n = 0 /\ r.what = "delete" /\ r.answer = {}
              /\ r = [n |-> r.n, what |-> r.what, ask |-> r.ask, ids |-> r.ids, old |-> r.old, answer |-> r.answer]
          BY <5>1 DEF Get
        <5>3. QED  BY <4>1, <5>1, <5>2 DEF ListDelete
      <4>2. ASSUME NEW i, VaultDelete(i)
            PROVE  \E r : /\ r.n = 0 /\ r.what = "delete" /\ r.answer = {}
                          /\ r = [n |-> r.n, what |-> r.what, ask |-> r.ask, ids |-> r.ids,
                                  old |-> r.old, answer |-> r.answer]
                          /\ fetches' = fetches \cup {r} /\ shown' = [shown EXCEPT !.rows = @ \ {i}]
        <5>1. PICK r : r = [Get(0, Asked(view)) EXCEPT !.what = "delete", !.ids = {i}, !.old = shown.rows]  OBVIOUS
        <5>2. /\ r.n = 0 /\ r.what = "delete" /\ r.answer = {}
              /\ r = [n |-> r.n, what |-> r.what, ask |-> r.ask, ids |-> r.ids, old |-> r.old, answer |-> r.answer]
          BY <5>1 DEF Get
        <5>3. QED  BY <4>2, <5>1, <5>2 DEF VaultDelete
      <4>3. UNCHANGED <<kind, rows, view, sent, newest, gone, errs>>
        BY <2>3 DEF DeleteRow, DeleteSelected
      <4>4. (\E ids : ListDelete(ids)) \/ (\E i : VaultDelete(i))
        BY <2>3 DEF DeleteRow, DeleteSelected
      <4>5. QED  BY <4>1, <4>2, <4>3, <4>4
    <3>2. shown = [rows |-> shown.rows, total |-> shown.total, ask |-> shown.ask] /\ rows \cap gone = {}
      BY DEF PagesInv, Counts, Buried
    <3>3. /\ shown' = [rows |-> shown'.rows, total |-> shown'.total, ask |-> shown'.ask]
          /\ shown'.rows \subseteq shown.rows /\ shown'.ask = shown.ask
      BY <3>1, <3>2
    <3>4. QED  BY <3>1, <3>2, <3>3, QuietFits
  <2>4. ASSUME NEW r \in fetches, DeletionFails(r)  PROVE PagesInv'
    <3>1. /\ fetches' = fetches \ {r} /\ r.what = "delete" /\ errs' # {}
          /\ UNCHANGED <<kind, rows, view, sent, newest, gone>>
          /\ shown' = shown \/ shown' = [shown EXCEPT !.rows = r.old]
      BY <2>4 DEF DeletionFails
    <3>2. /\ shown = [rows |-> shown.rows, total |-> shown.total, ask |-> shown.ask] /\ rows \cap gone = {}
          /\ r = [n |-> r.n, what |-> r.what, ask |-> r.ask, ids |-> r.ids, old |-> r.old, answer |-> r.answer]
      BY DEF PagesInv, Counts, Buried
    <3>3. shown' = [rows |-> shown'.rows, total |-> shown'.total, ask |-> shown'.ask]
      BY <3>1, <3>2
    <3>4. QED  BY <3>1, <3>2, <3>3, QuietFits
  <2>5. ASSUME NEW i \in Ids, StoredElsewhere(i)  PROVE PagesInv'
    <3>1. /\ i \notin gone /\ rows' = rows \cup {i} /\ \A q \in fetches : i \notin q.ids
          /\ UNCHANGED <<kind, view, fetches, shown, sent, newest, gone, errs>>
      BY <2>5 DEF StoredElsewhere
    <3>2. Counts'
      BY <3>1 DEF PagesInv, Counts, ViewShape
    <3>3. Buried'
      BY <3>1 DEF PagesInv, Buried
    <3>4. ShownFits' /\ AnswersFit'
      BY <3>1 DEF PagesInv, ShownFits, AnswersFit, Overtaken, Pull, Fits, Asked, InVault, ListAsks, VaultAsks, Hits
    <3>5. QED  BY <3>2, <3>3, <3>4 DEF PagesInv
  <2>6. ASSUME NEW r \in fetches,
               Serve(r) \/ Arrive(r) \/ ListDeleted(r) \/ VaultDeleted(r) \/ FetchFails(r)
        PROVE  PagesInv'
    BY <2>6, ServeFits, PullEnds, ListDeletedFits, VaultDeletedFits
  <2>7. CASE UNCHANGED lvars
    BY <2>7 DEF lvars, PagesInv, Counts, ViewShape, Buried, ShownFits, AnswersFit, Overtaken, Pull, Fits,
                Asked, InVault, ListAsks, VaultAsks, Hits
  <2>8. QED
    BY <2>1, <2>2, <2>3, <2>4, <2>5, <2>6, <2>7 DEF LNext
<1>3. PagesInv => ListSettled
  BY DEF PagesInv, ShownFits, Overtaken, Fits, ListSettled
<1>4. QED
  BY <1>1, <1>2, <1>3, PTL DEF LSpec
-----------------------------------------------------------------------------
(* Accounts.                                                               *)

\* Ids are given out once, and sessionStorage has the accounts of the store or
\* none.
Registered ==
  /\ count = [ids |-> count.ids, calls |-> count.calls] /\ count.ids \in Nat
  /\ \A u \in users : u.id \in 1 .. count.ids
  /\ \A u, v \in users : u.id = v.id => u = v
  /\ stored \in {SignedOut, Signed}

\* Who is authenticated is one of the saved accounts, and nobody else is in
\* the application.
Strays == slips \cap {"removed while signed out", "removed while logging in"}
SignedIn ==
  Strays = {} => (isAuthenticated => Known(currentUserId)) /\ (page # "login" => isAuthenticated)

AccountInv == Registered /\ SignedIn

\* A set of numbers has a least one.
LEMMA LeastOf ==
  ASSUME NEW ns, ns \subseteq Nat, ns # {}
  PROVE  \E i \in ns : \A j \in ns : i <= j
<1> DEFINE R == OpToRel(<, Nat)
<1>1. IsWellFoundedOn(R, Nat)
  BY NatLessThanWellFounded
<1>2. \A p : p \in R <=> p \in Nat \X Nat /\ p[1] < p[2]
  BY DEF OpToRel
<1> HIDE DEF R
<1>3. PICK i \in ns : \A j \in ns : ~(<<j, i>> \in R)
  BY <1>1, WFMin
<1>4. ASSUME NEW j \in ns  PROVE i <= j
  <2>1. ~(<<j, i>> \in R)
    BY <1>3
  <2>2. ~(j < i)
    BY <1>2, <2>1
  <2>3. QED  BY <2>2
<1>5. QED  BY <1>4

\* The list of accounts has a first one.
LEMMA FirstIsOne ==
  ASSUME NEW us, us # {}, \A u \in us : u.id \in Nat
  PROVE  First(us) \in us
<1>1. PICK ids : ids = {u.id : u \in us}
  OBVIOUS
<1>2. ids \subseteq Nat /\ ids # {}
  BY <1>1
<1>3. PICK i \in ids : \A j \in ids : i <= j
  BY <1>2, LeastOf
<1>4. \E u \in us : \A v \in us : u.id <= v.id
  BY <1>1, <1>3
<1>5. QED  BY <1>4 DEF First

\* A store that is written goes to sessionStorage at once.
LEMMA AuthSetStored ==
  ASSUME NEW us, NEW id, NEW auth, AuthSet(us, id, auth)
  PROVE  stored' = Signed'
BY DEF AuthSet, Signed

\* What does not touch the accounts.
LEMMA AccountsStay ==
  ASSUME AccountInv, UNCHANGED <<users, currentUserId, isAuthenticated, stored>>, count'.ids = count.ids,
         count' = [ids |-> count'.ids, calls |-> count'.calls],
         page' # "login" => page # "login", slips \subseteq slips'
  PROVE  AccountInv'
<1>1. Registered'
  BY DEF AccountInv, Registered, Signed
<1>2. SignedIn'
  BY DEF AccountInv, SignedIn, Strays, Known
<1>3. QED  BY <1>1, <1>2 DEF AccountInv

\* The page is loaded anew.
LEMMA FreshSigned ==
  ASSUME AccountInv, NEW s, Fresh(s), s = [users |-> s.users, id |-> s.id, auth |-> s.auth],
         s.users = users \/ s.users = {}, count'.ids = count.ids,
         count' = [ids |-> count'.ids, calls |-> count'.calls],
         s.auth => s.id = currentUserId /\ isAuthenticated /\ s.users = users,
         page' # "login" => s.auth, UNCHANGED slips
  PROVE  AccountInv'
<1>1. users' = s.users /\ currentUserId' = s.id /\ isAuthenticated' = s.auth /\ stored' = s
  BY DEF Fresh
<1>2. Registered'
  BY <1>1 DEF AccountInv, Registered, Signed
<1>3. SignedIn'
  BY <1>1 DEF AccountInv, SignedIn, Strays, Known
<1>4. QED  BY <1>2, <1>3 DEF AccountInv

\* A page of the application is entered with so many ids given out.
LEMMA EnterCounts ==
  ASSUME Registered, NEW key, NEW ids, Enter(key, ids)
  PROVE  count'.ids = ids /\ count' = [ids |-> count'.ids, calls |-> count'.calls] /\ page' = "app"
<1>1. CASE page = "login"
  BY <1>1 DEF Enter
<1>2. CASE page # "login"
  <2>1. count' = [count EXCEPT !.ids = ids]
    BY <1>2 DEF Enter
  <2>2. QED  BY <2>1 DEF Registered, Enter
<1>3. QED  BY <1>1, <1>2

\* A login takes an account of its render, or adds one.
LEMMA LoginSigned ==
  ASSUME AccountInv, NEW f \in submitted, LoginGood(f)
  PROVE  AccountInv'
<1> DEFINE same == {u \in f.seen : u.key = f.key}
           taken == First(same).id
           added == count.ids + 1
<1>1. /\ count.ids \in Nat /\ \A u \in users : u.id \in 1 .. count.ids
      /\ \A u, v \in users : u.id = v.id => u = v
  BY DEF AccountInv, Registered
<1>2. CASE same = {}
  <2>1. AuthSet(users \cup {[id |-> added, key |-> f.key]}, added, TRUE) /\ Enter(f.key, added) /\ UNCHANGED slips
    BY <1>2 DEF LoginGood
  <2>2. PICK u : u = [id |-> added, key |-> f.key]
    OBVIOUS
  <2>3. users' = users \cup {u} /\ u.id = added /\ currentUserId' = added /\ isAuthenticated' = TRUE
    BY <2>1, <2>2 DEF AuthSet
  <2>4. count'.ids = added /\ count' = [ids |-> count'.ids, calls |-> count'.calls]
    <3>1. PICK ids, key : ids = added /\ key = f.key /\ Enter(key, ids)
      BY <2>1
    <3>2. QED  BY <3>1, EnterCounts DEF AccountInv
  <2>5. stored' = Signed'
    BY <2>1, AuthSetStored
  <2>6. added \in Nat /\ count.ids < added
    BY <1>1
  <2>7. /\ \A v \in users' : v.id \in 1 .. count'.ids
        /\ \A v, w \in users' : v.id = w.id => v = w
    BY <1>1, <2>3, <2>4, <2>6
  <2>8. Registered'
    BY <2>4, <2>5, <2>6, <2>7 DEF Registered
  <2>9. Known(currentUserId)'
    BY <2>3 DEF Known
  <2>10. QED  BY <2>3, <2>8, <2>9 DEF AccountInv, SignedIn
<1>3. CASE same # {}
  <2>1. /\ AuthSet(users, taken, TRUE) /\ Enter(IF Known(taken) THEN f.key ELSE NoKey, count.ids)
        /\ slips' = IF Known(taken) THEN slips ELSE slips \cup {"removed while logging in"}
    BY <1>3 DEF LoginGood
  <2>2. PICK id : id = taken
    OBVIOUS
  <2>3. users' = users /\ currentUserId' = id /\ isAuthenticated' = TRUE
    BY <2>1, <2>2 DEF AuthSet
  <2>4. count'.ids = count.ids /\ count' = [ids |-> count'.ids, calls |-> count'.calls]
    <3>1. PICK ids, key : ids = count.ids /\ Enter(key, ids)
      BY <2>1
    <3>2. QED  BY <3>1, EnterCounts DEF AccountInv
  <2>5. stored' = Signed'
    BY <2>1, AuthSetStored
  <2>6. Registered'
    BY <1>1, <2>3, <2>4, <2>5 DEF Registered
  <2>7. Known(id) \/ Strays' # {}
    BY <2>1, <2>2 DEF Strays
  <2>8. SignedIn'
    BY <2>3, <2>7 DEF SignedIn, Known
  <2>9. QED  BY <2>6, <2>8 DEF AccountInv
<1>4. QED  BY <1>2, <1>3

\* An account is removed on the login page: never the current one.
LEMMA RemoveSigned ==
  ASSUME AccountInv, NEW u \in users, RemoveUser(u)
  PROVE  AccountInv'
<1>1. PICK us : us = {v \in users : v.id # u.id}
  OBVIOUS
<1>2. /\ AuthSet(us, currentUserId, us # {}) /\ page = "login" /\ UNCHANGED <<page, count>>
      /\ slips' = IF ~isAuthenticated /\ us # {} THEN slips \cup {"removed while signed out"} ELSE slips
      /\ u.id # currentUserId
  BY <1>1 DEF RemoveUser, Heir
<1>3. users' = us /\ currentUserId' = currentUserId /\ isAuthenticated' = (us # {}) /\ stored' = Signed'
  BY <1>2, AuthSetStored DEF AuthSet
<1>4. Registered'
  BY <1>1, <1>2, <1>3 DEF AccountInv, Registered
<1>5. SignedIn'
  BY <1>1, <1>2, <1>3 DEF AccountInv, SignedIn, Strays, Known
<1>6. QED  BY <1>4, <1>5 DEF AccountInv

\* Accounts are removed by their keys: the first of those that stay takes over.
LEMMA RemoveByKeySigned ==
  ASSUME AccountInv, NEW k, RemoveByKey(k)
  PROVE  AccountInv'
<1>1. PICK us : us = {u \in users : u.key # k}
  OBVIOUS
<1>2. PICK heir :
        /\ heir = IF currentUserId # NoId /\ \A u \in us : u.id # currentUserId
                  THEN FirstId(us) ELSE currentUserId
        /\ AuthSet(us, heir, us # {}) /\ page = "app" /\ UNCHANGED <<count, slips>>
        /\ page' = IF us = {} THEN "login" ELSE page
  BY <1>1 DEF RemoveByKey, Heir
<1>3. users' = us /\ currentUserId' = heir /\ isAuthenticated' = (us # {}) /\ stored' = Signed'
  BY <1>2, AuthSetStored DEF AuthSet
<1>4. \A u \in us : u \in users /\ u.id \in Nat /\ u.id # NoId
  BY <1>1 DEF AccountInv, Registered, NoId
<1>5. Registered'
  BY <1>1, <1>2, <1>3 DEF AccountInv, Registered
<1>6. SignedIn'
  <2> SUFFICES ASSUME Strays' = {}
               PROVE  (isAuthenticated' => Known(currentUserId)') /\ (page' # "login" => isAuthenticated')
    BY DEF SignedIn
  <2>1. page' # "login" => isAuthenticated'
    BY <1>2, <1>3
  <2>2. ASSUME us # {}  PROVE \E u \in us : u.id = heir
    <3>1. First(us) \in us
      BY <1>4, <2>2, FirstIsOne
    <3>2. \E u \in users : u.id = currentUserId
      BY <1>2 DEF AccountInv, SignedIn, Strays, Known
    <3>3. currentUserId # NoId
      BY <3>2 DEF AccountInv, Registered, NoId
    <3>4. CASE \A u \in us : u.id # currentUserId
      BY <1>2, <2>2, <3>1, <3>3, <3>4 DEF FirstId
    <3>5. CASE \E u \in us : u.id = currentUserId
      BY <1>2, <3>5
    <3>6. QED  BY <3>4, <3>5
  <2>3. QED  BY <1>3, <2>1, <2>2 DEF Known
<1>7. QED  BY <1>5, <1>6 DEF AccountInv

\* Every step keeps it.
LEMMA AccountsAlways == AcSpec => []AccountInv
<1>1. AcInit => AccountInv
  BY DEF AcInit, AccountInv, Registered, SignedIn, SignedOut
<1>2. AccountInv /\ [AcNext]_acvars => AccountInv'
  <2> SUFFICES ASSUME AccountInv, [AcNext]_acvars  PROVE AccountInv'
    OBVIOUS
  <2> USE DEF avars0, vvars, dvars0
  <2>0. count = [ids |-> count.ids, calls |-> count.calls]
    BY DEF AccountInv, Registered
  <2>1. ASSUME NEW k \in Keys, SubmitKey(k) \/ RemoveByKey(k)  PROVE AccountInv'
    BY <2>0, <2>1, AccountsStay, RemoveByKeySigned DEF SubmitKey
  <2>2. CASE LoginFails
    BY <2>0, <2>2, AccountsStay DEF LoginFails
  <2>3. ASSUME NEW f \in submitted, LoginGood(f)  PROVE AccountInv'
    BY <2>3, LoginSigned
  <2>4. ASSUME NEW u \in users, SelectUser(u)  PROVE AccountInv'
    <3>1. PICK id : id = u.id /\ AuthSet(users, id, TRUE) /\ Enter(u.key, count.ids) /\ UNCHANGED slips
      BY <2>4 DEF SelectUser
    <3>2. users' = users /\ currentUserId' = id /\ isAuthenticated' = TRUE /\ stored' = Signed'
      BY <3>1, AuthSetStored DEF AuthSet
    <3>3. count'.ids = count.ids /\ count' = [ids |-> count'.ids, calls |-> count'.calls]
      BY <3>1, EnterCounts DEF AccountInv
    <3>4. QED  BY <3>1, <3>2, <3>3 DEF AccountInv, Registered, SignedIn, Known
  <2>5. ASSUME NEW u \in users, RemoveUser(u)  PROVE AccountInv'
    BY <2>5, RemoveSigned
  <2>6. CASE GoBack
    <3>1. PICK key, ids : ids = count.ids /\ Enter(key, ids)
      BY <2>6 DEF GoBack
    <3>2. count'.ids = count.ids /\ count' = [ids |-> count'.ids, calls |-> count'.calls]
      BY <3>1, EnterCounts DEF AccountInv
    <3>3. QED  BY <2>6, <3>2 DEF GoBack, AccountInv, Registered, SignedIn, Known, Strays, Signed
  <2>7. CASE Logout
    <3>1. stored' = Signed'
      BY <2>7, AuthSetStored DEF Logout
    <3>2. QED  BY <2>7, <3>1 DEF Logout, AuthSet, AccountInv, Registered, SignedIn
  <2>8. CASE Reload
    <3>1. PICK s : s = stored /\ Fresh(s)
      BY <2>8 DEF Reload
    <3>2. /\ s = [users |-> s.users, id |-> s.id, auth |-> s.auth]
          /\ s.users = users \/ s.users = {}
          /\ s.auth => s.id = currentUserId /\ isAuthenticated /\ s.users = users
      BY <3>1 DEF AccountInv, Registered, Signed, SignedOut
    <3>3. count'.ids = count.ids /\ count' = [ids |-> count'.ids, calls |-> count'.calls]
      BY <2>0, <2>8 DEF Reload
    <3>4. QED  BY <2>8, <3>1, <3>2, <3>3, FreshSigned DEF Reload
  <2>9. CASE ClearCache
    BY <2>9 DEF ClearCache, AccountInv, Registered, SignedIn, Known, Strays
  <2>10. CASE Lock \/ SetInSettings \/ ResetVault \/ OpenVault \/ LeaveVault \/ SubmitDoor \/ Unlock
    BY <2>0, <2>10, AccountsStay
       DEF Lock, SetInSettings, ResetVault, OpenVault, LeaveVault, SubmitDoor, Unlock, Locked, DoorShown, Send, SendIn
  <2>11. ASSUME NEW c \in calls, NEW lost \in BOOLEAN, Status(c, lost)  PROVE AccountInv'
    BY <2>0, <2>11, AccountsStay DEF Status, DoorAsks, SendIn
  <2>12. ASSUME NEW c \in calls, PasswordSet(c) \/ VaultReset(c) \/ PasswordGood(c) \/ CallFails(c)
         PROVE  AccountInv'
    BY <2>0, <2>12, AccountsStay
       DEF PasswordSet, VaultReset, PasswordGood, CallFails, Locked, DoorShown, SendIn
  <2>13. ASSUME NEW c \in calls, Refused(c)  PROVE AccountInv'
    <3>1. PICK s : s = [users |-> users, id |-> NoId, auth |-> FALSE] /\ Fresh(s)
      BY <2>13 DEF Refused
    <3>2. s = [users |-> s.users, id |-> s.id, auth |-> s.auth] /\ s.users = users /\ ~s.auth
      BY <3>1
    <3>3. QED  BY <2>0, <2>13, <3>1, <3>2, FreshSigned DEF Refused
  <2>14. CASE UNCHANGED acvars
    BY <2>0, <2>14, AccountsStay DEF acvars
  <2>15. QED
    BY <2>1, <2>2, <2>3, <2>4, <2>5, <2>6, <2>7, <2>8, <2>9, <2>10, <2>11, <2>12, <2>13, <2>14 DEF AcNext
<1>3. QED  BY <1>1, <1>2, PTL DEF AcSpec

\* Inside the application an account is signed in, for any keys, accounts and
\* requests, unless one was removed while nobody was, or while its own login
\* was checked (auth.ts, login.tsx, the removal of a space's members).
THEOREM SomebodyIsSignedIn == AcSpec => []SomebodySignedIn
<1>1. AccountInv => SomebodySignedIn
  BY DEF AccountInv, SignedIn, Strays, SomebodySignedIn
<1>2. QED  BY <1>1, AccountsAlways, PTL

\* The door of the vault page, and whether an account has no password.
DoorNow  == page = "vault" /\ ~isUnlocked /\ ~localUnlocked
Unset(k) == k = NoKey \/ ~password[k]

\* What comes for the vault page comes while it is shown; a status, while its
\* door is shown, and of the account that is current.
OfDoor ==
  \A c \in calls :
    /\ c = [what |-> c.what, key |-> c.key, saw |-> c.saw, door |-> c.door, n |-> c.n]
    /\ c.door => page = "vault" /\ (c.what = "status" => DoorNow /\ c.key = KeyNow)

\* A first password is set only where there is none.
Excuses == slips \cap {"status lost", "status of an old render", "set meanwhile"}
FirstOnly ==
  Excuses = {} =>
    /\ "overwritten" \notin slips
    /\ \A c \in calls : c.what = "first" => Unset(c.key)
    /\ DoorNow /\ isFirstTime => Unset(KeyNow)

DoorInv == OfDoor /\ FirstOnly

\* The page that is left or shown is not the vault's: nothing comes for it.
LEMMA AwayKeeps ==
  ASSUME DoorInv, page' # "vault", UNCHANGED password, slips \subseteq slips',
         "overwritten" \in slips' => "overwritten" \in slips,
         \A d \in calls' :
           /\ d = [what |-> d.what, key |-> d.key, saw |-> d.saw, door |-> d.door, n |-> d.n]
           /\ ~d.door /\ (d.what = "first" => \E c \in calls : c.what = "first" /\ c.key = d.key)
  PROVE  DoorInv'
<1>1. OfDoor'
  BY DEF OfDoor
<1>2. FirstOnly'
  BY DEF DoorInv, FirstOnly, Excuses, DoorNow, Unset
<1>3. QED  BY <1>1, <1>2 DEF DoorInv

\* The calls of a page that is left, and of a door that is closed.
LEMMA GoneCalls ==
  ASSUME OfDoor, NEW rest, rest \subseteq calls
  PROVE  /\ \A d \in PageGone(rest) :
              /\ d = [what |-> d.what, key |-> d.key, saw |-> d.saw, door |-> d.door, n |-> d.n]
              /\ ~d.door /\ \E c \in rest : c.what = d.what /\ c.key = d.key
         /\ \A d \in DoorGone(rest) :
              /\ d = [what |-> d.what, key |-> d.key, saw |-> d.saw, door |-> d.door, n |-> d.n]
              /\ (d.door => d.what # "status")
              /\ \E c \in rest : c.what = d.what /\ c.key = d.key /\ (d.door => c.door)
<1>1. ASSUME NEW c \in rest, NEW d, d = [c EXCEPT !.door = FALSE]
      PROVE  /\ d = [what |-> d.what, key |-> d.key, saw |-> d.saw, door |-> d.door, n |-> d.n]
             /\ ~d.door /\ c.what = d.what /\ c.key = d.key
  <2>1. PICK w, k, b, o, n : c = [what |-> w, key |-> k, saw |-> b, door |-> o, n |-> n]
    BY DEF OfDoor
  <2>2. d = [what |-> w, key |-> k, saw |-> b, door |-> FALSE, n |-> n]
    BY <1>1, <2>1
  <2>3. QED  BY <2>1, <2>2
<1>2. ASSUME NEW c \in rest, NEW d, d = [c EXCEPT !.door = @ /\ c.what # "status"]
      PROVE  /\ d = [what |-> d.what, key |-> d.key, saw |-> d.saw, door |-> d.door, n |-> d.n]
             /\ (d.door => d.what # "status" /\ c.door) /\ c.what = d.what /\ c.key = d.key
  <2>1. PICK w, k, b, o, n : c = [what |-> w, key |-> k, saw |-> b, door |-> o, n |-> n]
    BY DEF OfDoor
  <2>2. PICK p : p = (o /\ w # "status")
    OBVIOUS
  <2>3. d = [what |-> w, key |-> k, saw |-> b, door |-> p, n |-> n]
    BY <1>2, <2>1, <2>2
  <2>4. QED  BY <2>1, <2>2, <2>3
<1>3. QED  BY <1>1, <1>2 DEF PageGone, DoorGone

\* An account's page is entered.
LEMMA EnterKeeps ==
  ASSUME DoorInv, NEW key, NEW ids, Enter(key, ids), UNCHANGED password, slips \subseteq slips',
         "overwritten" \in slips' => "overwritten" \in slips
  PROVE  DoorInv'
<1>1. page' # "vault"
  BY DEF Enter
<1>2. CASE page = "login"
  <2>1. PICK l : l = LayoutCall(key)
    OBVIOUS
  <2>2. /\ l = [what |-> l.what, key |-> l.key, saw |-> l.saw, door |-> l.door, n |-> l.n]
        /\ l.what = "status" /\ ~l.door
    BY <2>1 DEF LayoutCall, Call
  <2>3. calls' = calls \cup {l}
    BY <1>2, <2>1 DEF Enter
  <2>4. QED  BY <1>1, <1>2, <2>2, <2>3, AwayKeeps DEF DoorInv, OfDoor
<1>3. CASE page # "login"
  <2>1. calls' = PageGone(calls)
    BY <1>3 DEF Enter
  <2>2. QED  BY <1>1, <2>1, GoneCalls, AwayKeeps DEF DoorInv
<1>4. QED  BY <1>2, <1>3

\* A request is sent, by another page or by the door as it is shown.
LEMMA SendKeeps ==
  ASSUME DoorInv, NEW what, Send(Call(what, TRUE)),
         what # "status", what = "first" => DoorNow /\ isFirstTime,
         UNCHANGED <<users, currentUserId, isUnlocked, localUnlocked, isFirstTime, page, password, slips>>
  PROVE  DoorInv'
<1>1. PICK d : d = Call(what, TRUE)
  OBVIOUS
<1>2. /\ d = [what |-> d.what, key |-> d.key, saw |-> d.saw, door |-> d.door, n |-> d.n]
      /\ d.what = what /\ d.key = KeyNow /\ (d.door => page = "vault")
  BY <1>1 DEF Call
<1>3. calls' = calls \cup {d}
  BY <1>1 DEF Send, SendIn
<1>4. KeyNow' = KeyNow /\ DoorNow' = DoorNow
  BY DEF KeyNow, Known, DoorNow
<1>5. OfDoor'
  BY <1>2, <1>3, <1>4 DEF DoorInv, OfDoor
<1>6. FirstOnly'
  BY <1>2, <1>3, <1>4 DEF DoorInv, FirstOnly, Excuses, Unset
<1>7. QED  BY <1>5, <1>6 DEF DoorInv

\* Keys are keys.
Keyed ==
  /\ password \in [Keys -> BOOLEAN]
  /\ \A u \in users : u.key \in Keys
  /\ \A f \in submitted : f.key \in Keys
  /\ \A c \in calls : c.key \in Keys \cup {NoKey}

\* The key of the moment is that of an account.
LEMMA KeyNowKeyed ==
  ASSUME Keyed
  PROVE  KeyNow \in Keys \cup {NoKey}
<1>1. CASE Known(currentUserId)
  <2>1. (CHOOSE u \in users : u.id = currentUserId) \in users
    BY <1>1 DEF Known
  <2>2. QED  BY <1>1, <2>1 DEF KeyNow, Keyed
<1>2. CASE ~Known(currentUserId)
  BY <1>2 DEF KeyNow
<1>3. QED  BY <1>1, <1>2

\* What is sent, and what comes for a page that is left, has such a key.
LEMMA CallsKeyed ==
  ASSUME Keyed, OfDoor, NEW rest, rest \subseteq calls
  PROVE  /\ \A what, saw : Call(what, saw).key \in Keys \cup {NoKey}
         /\ \A saw : [Call("status", saw) EXCEPT !.door = TRUE].key \in Keys \cup {NoKey}
         /\ \A key : LayoutCall(key).key = key
         /\ \A d \in rest \cup PageGone(rest) \cup DoorGone(rest) : d.key \in Keys \cup {NoKey}
<1>1. \A d \in rest \cup PageGone(rest) \cup DoorGone(rest) : \E c \in rest : d.key = c.key
  BY GoneCalls
<1>2. \A key : LayoutCall(key).key = key
  BY DEF LayoutCall, Call
<1>3. \A what, saw : Call(what, saw).key \in Keys \cup {NoKey}
  BY KeyNowKeyed DEF Call
<1>4. \A saw : [Call("status", saw) EXCEPT !.door = TRUE].key \in Keys \cup {NoKey}
  BY KeyNowKeyed DEF Call
<1>5. QED  BY <1>1, <1>2, <1>3, <1>4 DEF Keyed

\* The door is shown anew and asks for the status.
LEMMA DoorShownKeeps ==
  ASSUME DoorInv, NEW rest, rest \subseteq calls, DoorShown(rest), DoorNow', Keyed,
         \A k \in Keys : ~password[k] => ~password'[k],
         \A c \in rest : c.door => c.what # "status",
         UNCHANGED <<users, currentUserId, slips>>
  PROVE  DoorInv'
<1>1. PICK d : d = [Call("status", hasPassword) EXCEPT !.door = TRUE]
  OBVIOUS
<1>2. /\ d = [what |-> d.what, key |-> d.key, saw |-> d.saw, door |-> d.door, n |-> d.n]
      /\ d.what = "status" /\ d.key = KeyNow
  BY <1>1 DEF Call
<1>3. calls' = rest \cup {d} /\ isFirstTime' = FALSE
  BY <1>1 DEF DoorShown, SendIn
<1>4. KeyNow' = KeyNow /\ page' = "vault"
  BY DEF KeyNow, Known, DoorNow
<1>5. OfDoor'
  BY <1>2, <1>3, <1>4 DEF DoorInv, OfDoor
<1>6. FirstOnly'
  <2>1. Excuses' = Excuses /\ \A k \in Keys \cup {NoKey} : Unset(k) => Unset(k)'
    BY DEF Excuses, Unset
  <2>2. \A o \in calls' : o.what = "first" => o \in calls /\ o.key \in Keys \cup {NoKey}
    BY <1>2, <1>3 DEF Keyed
  <2>3. QED  BY <1>3, <2>1, <2>2 DEF DoorInv, FirstOnly, Unset
<1>7. QED  BY <1>5, <1>6 DEF DoorInv

\* The store is locked by the user or by the vault's reset.
LEMMA LockedKeeps ==
  ASSUME DoorInv, Keyed, NEW rest, rest \subseteq calls, Locked(rest),
         \A k \in Keys : ~password[k] => ~password'[k],
         UNCHANGED <<users, currentUserId, localUnlocked, page, slips>>
  PROVE  DoorInv'
<1>1. CASE page = "vault" /\ isUnlocked /\ ~localUnlocked
  <2>1. DoorShown(rest) /\ isUnlocked' = FALSE
    BY <1>1 DEF Locked
  <2>2. DoorNow' /\ \A c \in rest : c.door => c.what # "status"
    BY <1>1, <2>1 DEF DoorNow, DoorInv, OfDoor
  <2>3. QED  BY <2>1, <2>2, DoorShownKeeps
<1>2. CASE ~(page = "vault" /\ isUnlocked /\ ~localUnlocked)
  <2>1. calls' = rest /\ isFirstTime' = isFirstTime /\ isUnlocked' = FALSE
    BY <1>2 DEF Locked
  <2>2. KeyNow' = KeyNow /\ DoorNow' = DoorNow
    BY <1>2, <2>1 DEF KeyNow, Known, DoorNow
  <2>3. OfDoor'
    BY <2>1, <2>2 DEF DoorInv, OfDoor
  <2>4. \A k \in Keys \cup {NoKey} : Unset(k) => Unset(k)'
    BY DEF Unset
  <2>5. FirstOnly'
    <3>1. KeyNow \in Keys \cup {NoKey} /\ \A c \in calls : c.key \in Keys \cup {NoKey}
      BY KeyNowKeyed DEF Keyed
    <3>2. Excuses' = Excuses
      BY DEF Excuses
    <3>3. QED  BY <2>1, <2>2, <3>1, <3>2 DEF DoorInv, FirstOnly, Unset
  <2>6. QED  BY <2>3, <2>5 DEF DoorInv
<1>3. QED  BY <1>1, <1>2

\* A status is told to the door: by the render it was asked for.
LEMMA StatusKeeps ==
  ASSUME DoorInv, Keyed, NEW c \in calls, NEW lost \in BOOLEAN, Status(c, lost)
  PROVE  DoorInv'
<1>1. PICK has : has = IF c.key = NoKey \/ lost THEN FALSE ELSE password[c.key]
  OBVIOUS
<1>2. /\ c.what = "status" /\ DoorAsks(c, has)
      /\ isFirstTime' = IF c.door THEN ~c.saw ELSE isFirstTime
      /\ slips' = slips \cup (IF lost THEN {"status lost"} ELSE {})
                        \cup (IF c.door /\ has /\ ~c.saw THEN {"status of an old render"} ELSE {})
      /\ UNCHANGED <<users, currentUserId, isUnlocked, localUnlocked, page, password>>
  BY <1>1 DEF Status, ByRender, avars0
<1>3. KeyNow' = KeyNow /\ DoorNow' = DoorNow
  BY <1>2 DEF KeyNow, Known, DoorNow
<1>4. PICK d : d = Call("status", has)
  OBVIOUS
<1>5. /\ d = [what |-> d.what, key |-> d.key, saw |-> d.saw, door |-> d.door, n |-> d.n]
      /\ d.what = "status" /\ d.key = KeyNow
  BY <1>4 DEF Call
<1>6. calls' = calls \ {c} \/ (calls' = (calls \ {c}) \cup {d} /\ DoorNow)
  BY <1>2, <1>4 DEF DoorAsks, SendIn, DoorNow
<1>7. OfDoor'
  BY <1>2, <1>3, <1>5, <1>6 DEF DoorInv, OfDoor, DoorNow
<1>8. FirstOnly'
  <2>1. SUFFICES ASSUME Excuses' = {}
                 PROVE  /\ "overwritten" \notin slips'
                        /\ \A o \in calls' : o.what = "first" => Unset(o.key)'
                        /\ DoorNow' /\ isFirstTime' => Unset(KeyNow)'
    BY DEF FirstOnly
  <2>2. Excuses = {} /\ ~lost /\ ~(c.door /\ has /\ ~c.saw)
    BY <1>2, <2>1 DEF Excuses
  <2>3. "overwritten" \notin slips' /\ \A o \in calls' : o.what = "first" => Unset(o.key)'
    BY <1>2, <1>5, <1>6, <2>2 DEF DoorInv, FirstOnly, Unset
  <2>4. ASSUME c.door, DoorNow, isFirstTime'  PROVE Unset(KeyNow)
    <3>1. c.key = KeyNow /\ ~c.saw /\ ~has
      BY <1>2, <2>2, <2>4 DEF DoorInv, OfDoor
    <3>2. QED  BY <1>1, <2>2, <3>1 DEF Unset
  <2>5. DoorNow' /\ isFirstTime' => Unset(KeyNow)'
    BY <1>2, <1>3, <2>2, <2>4 DEF DoorInv, FirstOnly, Unset
  <2>6. QED  BY <2>3, <2>5
<1>9. QED  BY <1>7, <1>8 DEF DoorInv

\* A password is set: the door is closed, and no other first one is on its way
\* for the same account.
LEMMA PasswordSetKeeps ==
  ASSUME DoorInv, Keyed, NEW c \in calls, PasswordSet(c)
  PROVE  DoorInv'
<1>1. PICK rest : rest = calls \ {c} /\ rest \subseteq calls
  OBVIOUS
<1>2. /\ calls' = DoorGone(rest) /\ c.key # NoKey /\ isUnlocked' = TRUE
      /\ password' = [password EXCEPT ![c.key] = TRUE]
      /\ UNCHANGED <<page, users, currentUserId>>
  BY <1>1 DEF PasswordSet, avars0
<1>3. \A d \in calls' :
        /\ d = [what |-> d.what, key |-> d.key, saw |-> d.saw, door |-> d.door, n |-> d.n]
        /\ (d.door => d.what # "status")
        /\ \E o \in rest : o.what = d.what /\ o.key = d.key /\ (d.door => o.door)
  BY <1>1, <1>2, GoneCalls DEF DoorInv
<1>4. OfDoor'
  BY <1>1, <1>2, <1>3 DEF DoorInv, OfDoor
<1>5. FirstOnly'
  <2>1. SUFFICES ASSUME Excuses' = {}
                 PROVE  /\ "overwritten" \notin slips' /\ ~DoorNow'
                        /\ \A d \in calls' : d.what = "first" => Unset(d.key)'
    BY DEF FirstOnly
  <2>2. Excuses = {} /\ \A o \in rest : ~(o.what = "first" /\ o.key = c.key)
    BY <1>1, <2>1 DEF PasswordSet, Excuses
  <2>3. ~DoorNow'
    BY <1>2 DEF DoorNow
  <2>4. c.what = "first" => ~password[c.key]
    BY <1>2, <2>2 DEF DoorInv, FirstOnly, Unset
  <2>5. "overwritten" \notin slips'
    BY <2>2, <2>4 DEF PasswordSet, DoorInv, FirstOnly
  <2>6. ASSUME NEW d \in calls', d.what = "first"  PROVE d.key = NoKey \/ ~password'[d.key]
    <3>1. PICK o \in rest : o.what = "first" /\ o.key = d.key
      BY <1>3, <2>6
    <3>2. d.key # c.key /\ (d.key = NoKey \/ ~password[d.key]) /\ d.key \in Keys \cup {NoKey}
      BY <1>1, <2>2, <3>1 DEF DoorInv, FirstOnly, Unset, Keyed
    <3>3. QED  BY <1>2, <3>2 DEF Keyed
  <2>7. QED  BY <2>3, <2>5, <2>6 DEF Unset
<1>6. QED  BY <1>4, <1>5 DEF DoorInv

\* The right password opens the page, or the store.
LEMMA PasswordGoodKeeps ==
  ASSUME DoorInv, NEW c \in calls, PasswordGood(c)
  PROVE  DoorInv'
<1>1. PICK rest : rest = calls \ {c} /\ rest \subseteq calls
  OBVIOUS
<1>2. UNCHANGED <<users, currentUserId, isFirstTime, page, password, slips>> /\ KeyNow' = KeyNow
  BY DEF PasswordGood, KeyNow, Known, avars0
<1>3. CASE c.what = "unlock" \/ c.door
  <2>1. calls' = DoorGone(rest) /\ ~DoorNow'
    BY <1>1, <1>3 DEF PasswordGood, DoorNow
  <2>2. \A d \in calls' :
          /\ d = [what |-> d.what, key |-> d.key, saw |-> d.saw, door |-> d.door, n |-> d.n]
          /\ (d.door => d.what # "status")
          /\ \E o \in rest : o.what = d.what /\ o.key = d.key /\ (d.door => o.door)
    BY <1>1, <2>1, GoneCalls DEF DoorInv
  <2>3. OfDoor'
    BY <1>1, <1>2, <2>2 DEF DoorInv, OfDoor
  <2>4. FirstOnly'
    <3>1. Excuses' = Excuses /\ \A k : Unset(k)' <=> Unset(k)
      BY <1>2 DEF Excuses, Unset
    <3>2. \A d \in calls' : d.what = "first" => \E o \in calls : o.what = "first" /\ o.key = d.key
      BY <1>1, <2>2
    <3>3. QED  BY <1>2, <2>1, <3>1, <3>2 DEF DoorInv, FirstOnly
  <2>5. QED  BY <2>3, <2>4 DEF DoorInv
<1>4. CASE ~(c.what = "unlock" \/ c.door)
  <2>1. calls' = rest /\ (isUnlocked' <=> isUnlocked) /\ (localUnlocked' <=> localUnlocked)
    BY <1>1, <1>4 DEF PasswordGood
  <2>2. DoorNow' <=> DoorNow
    BY <1>2, <2>1 DEF DoorNow
  <2>3. OfDoor' /\ FirstOnly'
    BY <1>1, <1>2, <2>1, <2>2 DEF DoorInv, OfDoor, FirstOnly, Excuses, Unset
  <2>4. QED  BY <2>3 DEF DoorInv
<1>5. QED  BY <1>3, <1>4

\* Keys stay keys.
LEMMA KeyedNext ==
  ASSUME Keyed, OfDoor, Registered, [AcNext]_acvars
  PROVE  Keyed'
<1> USE DEF avars0, vvars, dvars0
<1>1. ASSUME NEW k \in Keys, SubmitKey(k) \/ RemoveByKey(k)  PROVE Keyed'
  <2>1. \A u \in users' : u.key \in Keys
    BY <1>1 DEF SubmitKey, RemoveByKey, AuthSet, Keyed
  <2>2. \A f \in submitted' : f.key \in Keys
    BY <1>1 DEF SubmitKey, RemoveByKey, Keyed
  <2>3. UNCHANGED <<password, calls>>
    BY <1>1 DEF SubmitKey, RemoveByKey
  <2>4. QED  BY <2>1, <2>2, <2>3 DEF Keyed
<1>2. ASSUME NEW key \in Keys \cup {NoKey}, NEW ids, Enter(key, ids)
      PROVE  \A d \in calls' : d.key \in Keys \cup {NoKey}
  <2>1. calls' = calls \cup {LayoutCall(key)} \/ calls' = PageGone(calls)
    BY <1>2 DEF Enter
  <2>2. QED  BY <2>1, CallsKeyed DEF Keyed
<1>3. ASSUME NEW f \in submitted, LoginGood(f)  PROVE Keyed'
  <2>1. submitted' = {} /\ password' = password /\ f.key \in Keys
    BY <1>3 DEF LoginGood, Keyed
  <2>2. \E key \in Keys \cup {NoKey} : \E ids : Enter(key, ids)
    BY <1>3, <2>1 DEF LoginGood
  <2>3. \A u \in users' : u \in users \/ u.key = f.key
    <3>1. PICK v : v = [id |-> count.ids + 1, key |-> f.key]
      OBVIOUS
    <3>2. users' = users \/ users' = users \cup {v}
      BY <1>3, <3>1 DEF LoginGood, AuthSet
    <3>3. QED  BY <3>1, <3>2
  <2>4. QED  BY <1>2, <2>1, <2>2, <2>3 DEF Keyed
<1>4. ASSUME NEW u \in users, SelectUser(u)  PROVE Keyed'
  <2>1. \E key \in Keys \cup {NoKey} : \E ids : Enter(key, ids)
    BY <1>4 DEF SelectUser, Keyed
  <2>2. UNCHANGED <<users, submitted, password>>
    BY <1>4 DEF SelectUser, AuthSet
  <2>3. QED  BY <1>2, <2>1, <2>2 DEF Keyed
<1>5. ASSUME NEW u \in users, RemoveUser(u)  PROVE Keyed'
  BY <1>5 DEF RemoveUser, AuthSet, Keyed
<1>6. CASE GoBack
  <2>1. \E key \in Keys \cup {NoKey} : \E ids : Enter(key, ids)
    BY <1>6, KeyNowKeyed DEF GoBack
  <2>2. UNCHANGED <<users, submitted, password>>
    BY <1>6 DEF GoBack
  <2>3. QED  BY <1>2, <2>1, <2>2 DEF Keyed
<1>7. CASE Logout \/ LeaveVault
  <2>1. calls' = PageGone(calls) /\ UNCHANGED <<users, submitted, password>>
    BY <1>7 DEF Logout, LeaveVault, AuthSet
  <2>2. QED  BY <2>1, CallsKeyed DEF Keyed
<1>8. CASE Reload
  <2>1. PICK s : s = stored /\ Fresh(s)
    BY <1>8 DEF Reload
  <2>2. s.users = users \/ s.users = {}
    BY <2>1 DEF Registered, Signed, SignedOut
  <2>3. users' = s.users /\ submitted' = {} /\ password' = password
    BY <1>8, <2>1 DEF Reload, Fresh
  <2>4. calls' = {LayoutCall(KeyNow)} \/ calls' = {}
    BY <1>8 DEF Reload
  <2>5. \A d \in calls' : d.key \in Keys \cup {NoKey}
    BY <2>4, CallsKeyed, KeyNowKeyed
  <2>6. QED  BY <2>2, <2>3, <2>5 DEF Keyed
<1>9. CASE LoginFails \/ ClearCache
  BY <1>9 DEF LoginFails, ClearCache, Keyed
<1>10. ASSUME NEW rest, rest \subseteq calls,
              calls' = rest \/ calls' = DoorGone(rest)
              \/ (\E what, saw : calls' = rest \cup {Call(what, saw)})
              \/ (\E saw : calls' = rest \cup {[Call("status", saw) EXCEPT !.door = TRUE]}),
              UNCHANGED <<users, submitted>>, password' \in [Keys -> BOOLEAN]
       PROVE  Keyed'
  <2>1. \A d \in calls' : d.key \in Keys \cup {NoKey}
    BY <1>10, CallsKeyed
  <2>2. QED  BY <1>10, <2>1 DEF Keyed
<1>11. CASE Lock \/ OpenVault
  BY <1>10, <1>11 DEF Lock, OpenVault, Locked, DoorShown, SendIn, Keyed
<1>12. CASE SetInSettings \/ ResetVault \/ SubmitDoor \/ Unlock
  <2>1. \E what, saw : calls' = calls \cup {Call(what, saw)}
    BY <1>12 DEF SetInSettings, ResetVault, SubmitDoor, Unlock, Send, SendIn
  <2>2. UNCHANGED <<users, submitted, password>>
    BY <1>12 DEF SetInSettings, ResetVault, SubmitDoor, Unlock
  <2>3. QED  BY <1>10, <2>1, <2>2 DEF Keyed
<1>13. ASSUME NEW c \in calls, NEW lost \in BOOLEAN, Status(c, lost)  PROVE Keyed'
  <2>1. calls' = calls \ {c} \/ \E saw : calls' = (calls \ {c}) \cup {Call("status", saw)}
    BY <1>13 DEF Status, DoorAsks, SendIn
  <2>2. UNCHANGED <<users, submitted, password>>
    BY <1>13 DEF Status
  <2>3. QED  BY <1>10, <2>1, <2>2 DEF Keyed
<1>14. ASSUME NEW c \in calls, PasswordSet(c) \/ VaultReset(c)  PROVE Keyed'
  <2>1. UNCHANGED <<users, submitted>> /\ password' \in [Keys -> BOOLEAN]
    BY <1>14 DEF PasswordSet, VaultReset, Keyed
  <2>2. \/ calls' = calls \ {c} \/ calls' = DoorGone(calls \ {c})
        \/ \E saw : calls' = (calls \ {c}) \cup {[Call("status", saw) EXCEPT !.door = TRUE]}
    BY <1>14 DEF PasswordSet, VaultReset, Locked, DoorShown, SendIn
  <2>3. QED  BY <1>10, <2>1, <2>2
<1>15. ASSUME NEW c \in calls, PasswordGood(c) \/ CallFails(c)  PROVE Keyed'
  <2>1. UNCHANGED <<users, submitted, password>> /\ (calls' = calls \ {c} \/ calls' = DoorGone(calls \ {c}))
    BY <1>15 DEF PasswordGood, CallFails
  <2>2. QED  BY <1>10, <2>1 DEF Keyed
<1>16. ASSUME NEW c \in calls, Refused(c)  PROVE Keyed'
  <2>1. users' = users /\ submitted' = {} /\ calls' = {} /\ password' = password
    BY <1>16 DEF Refused, Fresh
  <2>2. QED  BY <2>1 DEF Keyed
<1>17. CASE UNCHANGED acvars
  BY <1>17 DEF acvars, Keyed
<1>18. QED
  BY <1>1, <1>3, <1>4, <1>5, <1>6, <1>7, <1>8, <1>9, <1>11, <1>12, <1>13, <1>14, <1>15, <1>16, <1>17 DEF AcNext

\* Every step keeps what is true of the door.
LEMMA DoorNext ==
  ASSUME DoorInv, Keyed, [AcNext]_acvars
  PROVE  DoorInv'
<1> USE DEF avars0, vvars, dvars0
<1>1. ASSUME page' # "vault", UNCHANGED password, slips \subseteq slips',
             "overwritten" \in slips' => "overwritten" \in slips,
             \/ page # "vault" /\ calls' \subseteq calls
             \/ calls' = PageGone(calls) \/ calls' = {} \/ calls' = {LayoutCall(KeyNow)}
      PROVE  DoorInv'
  <2>1. CASE page # "vault" /\ calls' \subseteq calls
    BY <1>1, <2>1, AwayKeeps DEF DoorInv, OfDoor
  <2>2. CASE calls' = PageGone(calls)
    BY <1>1, <2>2, GoneCalls, AwayKeeps DEF DoorInv
  <2>3. CASE calls' = {}
    BY <1>1, <2>3, AwayKeeps
  <2>4. CASE calls' = {LayoutCall(KeyNow)}
    <3>1. PICK l : l = LayoutCall(KeyNow)
      OBVIOUS
    <3>2. /\ l = [what |-> l.what, key |-> l.key, saw |-> l.saw, door |-> l.door, n |-> l.n]
          /\ l.what = "status" /\ ~l.door
      BY <3>1 DEF LayoutCall, Call
    <3>3. QED  BY <1>1, <2>4, <3>1, <3>2, AwayKeeps
  <2>5. QED  BY <1>1, <2>1, <2>2, <2>3, <2>4
<1>2. ASSUME UNCHANGED <<users, currentUserId, isUnlocked, localUnlocked, isFirstTime, page, password, slips>>,
             calls' \subseteq calls
      PROVE  DoorInv'
  <2>1. KeyNow' = KeyNow /\ DoorNow' = DoorNow
    BY <1>2 DEF KeyNow, Known, DoorNow
  <2>2. OfDoor'
    BY <1>2, <2>1 DEF DoorInv, OfDoor
  <2>3. FirstOnly'
    BY <1>2, <2>1 DEF DoorInv, FirstOnly, Excuses, Unset
  <2>4. QED  BY <2>2, <2>3 DEF DoorInv
<1>3. ASSUME NEW k \in Keys, SubmitKey(k)  PROVE DoorInv'
  BY <1>2, <1>3 DEF SubmitKey
<1>4. ASSUME NEW k \in Keys, RemoveByKey(k)  PROVE DoorInv'
  BY <1>1, <1>4 DEF RemoveByKey
<1>5. CASE LoginFails \/ ClearCache
  BY <1>2, <1>5 DEF LoginFails, ClearCache
<1>6. ASSUME NEW f \in submitted, LoginGood(f)  PROVE DoorInv'
  <2>1. /\ password' = password /\ slips \subseteq slips'
        /\ "overwritten" \in slips' => "overwritten" \in slips
    <3>1. CASE {u \in f.seen : u.key = f.key} = {}
      BY <1>6, <3>1 DEF LoginGood
    <3>2. CASE {u \in f.seen : u.key = f.key} # {}
      <4>1. PICK id : id = First({u \in f.seen : u.key = f.key}).id
        OBVIOUS
      <4>2. slips' = IF Known(id) THEN slips ELSE slips \cup {"removed while logging in"}
        BY <1>6, <3>2, <4>1 DEF LoginGood
      <4>3. password' = password
        BY <1>6 DEF LoginGood
      <4>4. QED  BY <4>2, <4>3
    <3>3. QED  BY <3>1, <3>2
  <2>2. CASE {u \in f.seen : u.key = f.key} = {}
    BY <1>6, <2>1, <2>2, EnterKeeps DEF LoginGood
  <2>3. CASE {u \in f.seen : u.key = f.key} # {}
    <3>1. PICK key, id : /\ id = First({u \in f.seen : u.key = f.key}).id
                         /\ key = IF Known(id) THEN f.key ELSE NoKey
      OBVIOUS
    <3>2. Enter(key, count.ids)
      BY <1>6, <2>3, <3>1 DEF LoginGood
    <3>3. QED  BY <2>1, <3>2, EnterKeeps
  <2>4. QED  BY <2>2, <2>3
<1>7. ASSUME NEW u \in users, SelectUser(u)  PROVE DoorInv'
  BY <1>7, EnterKeeps DEF SelectUser
<1>8. ASSUME NEW u \in users, RemoveUser(u)  PROVE DoorInv'
  BY <1>1, <1>8 DEF RemoveUser
<1>9. CASE GoBack
  BY <1>9, EnterKeeps DEF GoBack
<1>10. CASE Logout \/ LeaveVault \/ Reload
  BY <1>1, <1>10 DEF Logout, LeaveVault, Reload
<1>11. CASE Lock
  BY <1>11, LockedKeeps DEF Lock
<1>12. CASE OpenVault
  <2>1. /\ page = "app" /\ page' = "vault" /\ localUnlocked' = FALSE
        /\ UNCHANGED <<users, currentUserId, isUnlocked, password, slips>>
    BY <1>12 DEF OpenVault
  <2>2. \A c \in calls : ~c.door
    BY <2>1 DEF DoorInv, OfDoor
  <2>3. CASE isUnlocked
    <3>1. calls' = calls /\ ~DoorNow'
      BY <1>12, <2>1, <2>3 DEF OpenVault, DoorNow
    <3>2. OfDoor'
      BY <2>2, <3>1 DEF DoorInv, OfDoor
    <3>3. FirstOnly'
      BY <2>1, <3>1 DEF DoorInv, FirstOnly, Excuses, Unset
    <3>4. QED  BY <3>2, <3>3 DEF DoorInv
  <2>4. CASE ~isUnlocked
    <3>1. PICK rest : rest = calls /\ DoorShown(rest)
      BY <1>12, <2>4 DEF OpenVault
    <3>2. DoorNow'
      BY <2>1, <2>4 DEF DoorNow
    <3>3. QED  BY <2>1, <2>2, <3>1, <3>2, DoorShownKeeps
  <2>5. QED  BY <2>3, <2>4
<1>13. CASE SetInSettings \/ ResetVault \/ SubmitDoor \/ Unlock
  <2>1. UNCHANGED <<users, currentUserId, isUnlocked, localUnlocked, isFirstTime, page, password, slips>>
    BY <1>13 DEF SetInSettings, ResetVault, SubmitDoor, Unlock
  <2>2. CASE SetInSettings
    BY <2>1, <2>2, SendKeeps DEF SetInSettings
  <2>3. CASE ResetVault
    BY <2>1, <2>3, SendKeeps DEF ResetVault
  <2>4. CASE Unlock
    BY <2>1, <2>4, SendKeeps DEF Unlock
  <2>5. CASE SubmitDoor
    <3>1. PICK w : w = (IF isFirstTime THEN "first" ELSE "verify") /\ Send(Call(w, TRUE))
      BY <2>5 DEF SubmitDoor
    <3>2. w # "status" /\ (w = "first" => DoorNow /\ isFirstTime)
      BY <2>5, <3>1 DEF SubmitDoor, DoorNow
    <3>3. QED  BY <2>1, <3>1, <3>2, SendKeeps
  <2>6. QED  BY <1>13, <2>2, <2>3, <2>4, <2>5
<1>14. ASSUME NEW c \in calls, NEW lost \in BOOLEAN, Status(c, lost)  PROVE DoorInv'
  BY <1>14, StatusKeeps
<1>15. ASSUME NEW c \in calls, PasswordSet(c)  PROVE DoorInv'
  BY <1>15, PasswordSetKeeps
<1>16. ASSUME NEW c \in calls, VaultReset(c)  PROVE DoorInv'
  <2>1. PICK rest : rest = calls \ {c} /\ rest \subseteq calls /\ Locked(rest)
    BY <1>16 DEF VaultReset
  <2>2. \A k \in Keys : ~password[k] => ~password'[k]
    BY <1>16 DEF VaultReset, Keyed
  <2>3. QED  BY <1>16, <2>1, <2>2, LockedKeeps DEF VaultReset
<1>17. ASSUME NEW c \in calls, PasswordGood(c)  PROVE DoorInv'
  BY <1>17, PasswordGoodKeeps
<1>18. ASSUME NEW c \in calls, CallFails(c)  PROVE DoorInv'
  BY <1>2, <1>18 DEF CallFails
<1>19. ASSUME NEW c \in calls, Refused(c)  PROVE DoorInv'
  BY <1>1, <1>19 DEF Refused
<1>20. CASE UNCHANGED acvars
  BY <1>2, <1>20 DEF acvars
<1>21. QED
  BY <1>3, <1>4, <1>5, <1>6, <1>7, <1>8, <1>9, <1>10, <1>11, <1>12, <1>13, <1>14, <1>15, <1>16, <1>17,
     <1>18, <1>19, <1>20 DEF AcNext

\* The door of the vault page sets no password over another, for any keys,
\* accounts and requests, unless a status was lost, came for an older render,
\* or a first password was on its way when one was set (vault-memories.tsx,
\* VaultUnlock; vault.ts, checkStatus and setPassword).
THEOREM PasswordIsKept == AcSpec => []PasswordKept
<1>1. AcInit => DoorInv /\ Keyed
  BY DEF AcInit, DoorInv, OfDoor, FirstOnly, DoorNow, Keyed
<1>2. DoorInv /\ Keyed /\ AccountInv /\ [AcNext]_acvars => (DoorInv /\ Keyed)'
  BY DoorNext, KeyedNext DEF DoorInv, AccountInv
<1>3. DoorInv => PasswordKept
  BY DEF DoorInv, FirstOnly, Excuses, PasswordKept
<1>4. QED  BY <1>1, <1>2, <1>3, AccountsAlways, PTL DEF AcSpec
=============================================================================

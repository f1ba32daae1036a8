----------------------------- MODULE SessionPage -----------------------------
(***************************************************************************)
(* The page of a session, omem-web/src/views/sessions/session-detail.tsx:  *)
(* the private memories of its recall events, which the vault's password   *)
(* opens for the page or one by one.  A password is asked for in the box   *)
(* of the page or on a memory's own card, and verified by the server.      *)
(***************************************************************************)
EXTENDS Naturals, FiniteSets

CONSTANTS
  Recalled,    \* private memories of the session's events
  MaxProofs,   \* bound: passwords submitted
  MaxLocks     \* bound: uses of a lock

NoCard == "none"

VARIABLES
  opened,               \* the page: "loading", "there", "failed", "deleting" or "left"
  vaultOpen,            \* the store's isUnlocked
  sessionVaultUnlocked,
  unlockedMemories,
  manuallyLocked,
  pendingUnlock,        \* pendingUnlockMemoryId
  showVaultInput,
  showPwInput,          \* the memories whose card has a box
  proofs,               \* submitted passwords [n, card, seen, pending]
  cards,                \* cards[m]: "closed", "loading", "loaded" or "failed"
  closedByUser,         \* what the user locked and has not opened since
  locks, proved         \* locks and submitted passwords so far

sepage == <<vaultOpen, sessionVaultUnlocked, unlockedMemories, manuallyLocked, pendingUnlock, showVaultInput,
            showPwInput, proofs, cards, closedByUser, locks, proved>>
sevars == <<opened, sepage>>

OnPage == opened \in {"there", "deleting"}

SeInit ==
  /\ opened = "loading" /\ vaultOpen \in BOOLEAN /\ sessionVaultUnlocked = FALSE
  /\ unlockedMemories = {} /\ manuallyLocked = {} /\ pendingUnlock = NoCard
  /\ showVaultInput = FALSE /\ showPwInput = {} /\ proofs = {}
  /\ cards = [m \in Recalled |-> "closed"] /\ closedByUser = Recalled
  /\ locks = 0 /\ proved = 0

\* What a handler of the present rendering sees.
Seen == [session |-> sessionVaultUnlocked, unlocked |-> unlockedMemories, manual |-> manuallyLocked]
IsOpen(m, s) == m \in s.unlocked \/ (s.session /\ m \notin s.manual)
ShownNow(m) == cards[m] = "loaded" /\ IsOpen(m, Seen)

-----------------------------------------------------------------------------
(* The page and the cards of its events *)

\* The events of the session arrive, or not: an error is all there is then.
EventsArrive ==
  /\ opened = "loading" /\ opened' \in {"there", "failed"}
  /\ UNCHANGED sepage

\* The session is deleted and the page left, or not deleted.
DeleteSession == opened = "there" /\ opened' = "deleting" /\ UNCHANGED sepage
SessionDeleted == opened = "deleting" /\ opened' \in {"left", "there"} /\ UNCHANGED sepage

\* An event is expanded: a memory that failed to load is not asked for again
\* before the card is made anew.
Expand(m) ==
  /\ cards[m] = "closed" /\ cards' = [cards EXCEPT ![m] = "loading"]
  /\ UNCHANGED <<opened, vaultOpen, sessionVaultUnlocked, unlockedMemories, manuallyLocked, pendingUnlock, showVaultInput,
                 showPwInput, proofs, closedByUser, locks, proved>>
CardLoads(m, how) ==
  /\ cards[m] = "loading" /\ cards' = [cards EXCEPT ![m] = how]
  /\ UNCHANGED <<opened, vaultOpen, sessionVaultUnlocked, unlockedMemories, manuallyLocked, pendingUnlock, showVaultInput,
                 showPwInput, proofs, closedByUser, locks, proved>>
\* Another page of events: its cards are made anew, the locks stay.
TurnPage ==
  /\ \E m \in Recalled : cards[m] # "closed"
  /\ cards' = [m \in Recalled |-> "closed"] /\ showPwInput' = {}
  /\ UNCHANGED <<opened, vaultOpen, sessionVaultUnlocked, unlockedMemories, manuallyLocked, pendingUnlock, showVaultInput,
                 proofs, closedByUser, locks, proved>>

-----------------------------------------------------------------------------
\* handleToggleMemoryLock, of the rendering s.
Toggle(m, s) ==
  IF IsOpen(m, s)
  THEN /\ manuallyLocked' = manuallyLocked \cup {m} /\ unlockedMemories' = unlockedMemories \ {m}
       /\ UNCHANGED <<pendingUnlock, showVaultInput>>
  ELSE IF s.session
  THEN /\ manuallyLocked' = manuallyLocked \ {m}
       /\ UNCHANGED <<unlockedMemories, pendingUnlock, showVaultInput>>
  ELSE /\ pendingUnlock' = m /\ showVaultInput' = TRUE
       /\ UNCHANGED <<unlockedMemories, manuallyLocked>>

\* The button of a memory that is open.
LockCard(m) ==
  /\ ShownNow(m) /\ locks < MaxLocks /\ locks' = locks + 1
  /\ Toggle(m, Seen) /\ showPwInput' = showPwInput \ {m}
  /\ closedByUser' = closedByUser \cup {m}
  /\ UNCHANGED <<opened, vaultOpen, sessionVaultUnlocked, proofs, cards, proved>>

\* The button of a memory that is not: with the vault closed its card asks.
UnlockCard(m) ==
  /\ cards[m] = "loaded" /\ ~IsOpen(m, Seen)
  /\ IF sessionVaultUnlocked \/ vaultOpen
     THEN /\ Toggle(m, Seen) /\ UNCHANGED showPwInput
          /\ closedByUser' = IF sessionVaultUnlocked THEN closedByUser \ {m} ELSE closedByUser
     ELSE /\ showPwInput' = showPwInput \cup {m}
          /\ UNCHANGED <<manuallyLocked, unlockedMemories, pendingUnlock, showVaultInput, closedByUser>>
  /\ UNCHANGED <<opened, vaultOpen, sessionVaultUnlocked, proofs, cards, locks, proved>>

-----------------------------------------------------------------------------
(* The vault *)

\* The box of the page is opened or put away: the memory it was for stays.
ToggleBox ==
  /\ ~sessionVaultUnlocked /\ showVaultInput' = ~showVaultInput
  /\ UNCHANGED <<opened, vaultOpen, sessionVaultUnlocked, unlockedMemories, manuallyLocked, pendingUnlock,
                 showPwInput, proofs, cards, closedByUser, locks, proved>>

Prove(card) ==
  /\ proved < MaxProofs /\ proved' = proved + 1
  /\ proofs' = proofs \cup {[n |-> proved, card |-> card, seen |-> Seen, pending |-> pendingUnlock]}
  /\ UNCHANGED <<opened, vaultOpen, sessionVaultUnlocked, unlockedMemories, manuallyLocked, pendingUnlock, showVaultInput,
                 showPwInput, cards, closedByUser, locks>>
ProveForPage == showVaultInput /\ Prove(NoCard)
ProveForCard(m) == m \in showPwInput /\ cards[m] = "loaded" /\ ~IsOpen(m, Seen) /\ Prove(m)

WrongPassword(p) ==
  /\ proofs' = proofs \ {p}
  /\ UNCHANGED <<opened, vaultOpen, sessionVaultUnlocked, unlockedMemories, manuallyLocked, pendingUnlock, showVaultInput,
                 showPwInput, cards, closedByUser, locks, proved>>

\* The password is right.  The page opens the memory that was pending when it
\* was submitted; a card unlocks the page and toggles its memory, as the
\* rendering of its submission saw it.
RightPassword(p) ==
  /\ proofs' = proofs \ {p} /\ vaultOpen' = TRUE /\ sessionVaultUnlocked' = TRUE
  /\ IF p.card = NoCard
     THEN /\ showVaultInput' = FALSE
          /\ unlockedMemories' = unlockedMemories \cup ({p.pending} \ {NoCard})
          /\ pendingUnlock' = IF p.pending # NoCard THEN NoCard ELSE pendingUnlock
          /\ UNCHANGED <<manuallyLocked, showPwInput>>
     ELSE Toggle(p.card, p.seen) /\ showPwInput' = showPwInput \ {p.card}
  /\ closedByUser' = (IF sessionVaultUnlocked THEN closedByUser ELSE {}) \ {p.card, p.pending}
  /\ UNCHANGED <<opened, cards, locks, proved>>

\* Fault: the memories opened one by one are forgotten by the lock.
StayOpen(ms) == ms
Relocked(ms) == {}

\* handleVaultLock: what is pending stays.
LockVault ==
  /\ sessionVaultUnlocked /\ locks < MaxLocks /\ locks' = locks + 1
  /\ sessionVaultUnlocked' = FALSE /\ vaultOpen' = FALSE
  /\ unlockedMemories' = Relocked(unlockedMemories) /\ manuallyLocked' = {}
  /\ closedByUser' = Recalled
  /\ UNCHANGED <<opened, pendingUnlock, showVaultInput, showPwInput, proofs, cards, proved>>

SeNext ==
  \/ EventsArrive \/ DeleteSession \/ SessionDeleted
  \/ /\ OnPage
     /\ \/ \E m \in Recalled :
             \/ Expand(m) \/ CardLoads(m, "loaded") \/ CardLoads(m, "failed")
             \/ LockCard(m) \/ UnlockCard(m) \/ ProveForCard(m)
        \/ TurnPage \/ ToggleBox \/ ProveForPage \/ LockVault
        \/ \E p \in proofs : RightPassword(p) \/ WrongPassword(p)

SeSpec == SeInit /\ [][SeNext]_sevars

-----------------------------------------------------------------------------
\* A private memory is shown only when, since the user last locked it by hand
\* or with the vault, a password was found right or its own button used while
\* the vault was open.  (A password that was submitted before a lock and found
\* right after it counts: handleVaultUnlock does not look.)
ShownOnlyProved ==
  \A m \in Recalled : ShownNow(m) => m \notin closedByUser
=============================================================================

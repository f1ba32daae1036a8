------------------------------- MODULE Accounts -------------------------------
(***************************************************************************)
(* The accounts and the vault of the web interface (omem-web/src): the     *)
(* stores auth.ts and vault.ts, the interceptors of api/client.ts, the     *)
(* login page, the header, the settings and the door of the vault page.    *)
(* A store is written at once; what a handler does after an await sees the *)
(* stores as they are then and its own closure as it was.                  *)
(***************************************************************************)
EXTENDS Naturals

CONSTANTS
  Keys,        \* API keys, a tenant each
  MaxIds,      \* bound: accounts ever added
  MaxCalls     \* bound: requests ever sent

NoKey == "no key"
NoId == 0

VARIABLES
  users,            \* auth: the saved accounts [id, key]; ids count up, so that
                    \* they are in the order of the list
  currentUserId,
  isAuthenticated,
  stored,           \* sessionStorage "omem-auth"
  page,             \* "login", "app" or "vault"
  submitted,        \* the login form in flight [key, seen]: seen, the users of
                    \* its render
  isUnlocked,       \* vault
  hasPassword,
  isFirstTime,      \* of the door of the vault page
  localUnlocked,    \* of the vault page
  password,         \* server: password[k], whether k's vault has one
  calls,            \* requests in flight [what, key, saw, door, n]: door, that
                    \* what sent it is on the vault page still
  count,            \* [ids, calls] so far
  slips             \* what is known to lead astray, see the properties

avars0 == <<users, currentUserId, isAuthenticated, stored>>
vvars == <<isUnlocked, hasPassword>>
dvars0 == <<isFirstTime, localUnlocked>>
acvars == <<avars0, vvars, dvars0, page, submitted, password, calls, count, slips>>

Signed == [users |-> users, id |-> currentUserId, auth |-> isAuthenticated]
SignedOut == [users |-> {}, id |-> NoId, auth |-> FALSE]

AcInit ==
  /\ users = {} /\ currentUserId = NoId /\ isAuthenticated = FALSE /\ stored = SignedOut
  /\ page = "login" /\ submitted = {}
  /\ isUnlocked = FALSE /\ hasPassword = FALSE
  /\ isFirstTime = FALSE /\ localUnlocked = FALSE
  /\ password \in [Keys -> BOOLEAN] /\ calls = {} /\ count = [ids |-> 0, calls |-> 0]
  /\ slips = {}

-----------------------------------------------------------------------------
(* The store auth.ts: each set writes sessionStorage too. *)

AuthSet(us, id, auth) ==
  /\ users' = us /\ currentUserId' = id /\ isAuthenticated' = auth
  /\ stored' = [users |-> us, id |-> id, auth |-> auth]

Known(id) == \E u \in users : u.id = id
KeyNow == IF Known(currentUserId) THEN (CHOOSE u \in users : u.id = currentUserId).key ELSE NoKey

First(us) == CHOOSE u \in us : \A v \in us : u.id <= v.id
FirstId(us) == IF us = {} THEN NoId ELSE First(us).id

\* A request carries the key of the account of the moment.
Call(what, saw) == [what |-> what, key |-> KeyNow, saw |-> saw, door |-> page = "vault", n |-> count.calls + 1]
SendIn(left, c) ==
  /\ count.calls < MaxCalls /\ calls' = left \cup {c}
  /\ count' = [count EXCEPT !.calls = @ + 1]
Send(c) == SendIn(calls, c)

\* The vault page is left, or its door closed: what comes for it is dropped.
PageGone(cs) == {[c EXCEPT !.door = FALSE] : c \in cs}
DoorGone(cs) == {[c EXCEPT !.door = @ /\ c.what # "status"] : c \in cs}

\* A page of the application is entered.  From the login page its layout asks
\* for the vault's status, with the key of the account that is current from
\* now on.
LayoutCall(key) == [Call("status", FALSE) EXCEPT !.key = key, !.door = FALSE]
Enter(key, ids) ==
  /\ page' = "app"
  /\ IF page = "login"
     THEN /\ count.calls < MaxCalls /\ calls' = calls \cup {LayoutCall(key)}
          /\ count' = [ids |-> ids, calls |-> count.calls + 1]
     ELSE calls' = PageGone(calls) /\ count' = [count EXCEPT !.ids = ids]

-----------------------------------------------------------------------------
(* views/auth/login.tsx *)

SubmitKey(k) ==
  /\ page = "login" /\ submitted = {}
  /\ submitted' = {[key |-> k, seen |-> users]}
  /\ UNCHANGED <<avars0, vvars, dvars0, page, password, calls, count, slips>>

LoginFails ==
  /\ submitted # {} /\ submitted' = {}
  /\ UNCHANGED <<avars0, vvars, dvars0, page, password, calls, count, slips>>

\* The key is good: an account of the render that has it is taken, removed
\* since or not, else one is added.
LoginGood(f) ==
  LET same == {u \in f.seen : u.key = f.key}
      taken == First(same).id
      added == count.ids + 1
  IN  /\ submitted' = {}
      /\ IF same = {}
         THEN /\ added <= MaxIds /\ AuthSet(users \cup {[id |-> added, key |-> f.key]}, added, TRUE)
              /\ Enter(f.key, added) /\ UNCHANGED slips
         ELSE /\ AuthSet(users, taken, TRUE)
              /\ Enter(IF Known(taken) THEN f.key ELSE NoKey, count.ids)
              /\ slips' = IF Known(taken) THEN slips ELSE slips \cup {"removed while logging in"}
      /\ UNCHANGED <<vvars, dvars0, password>>

SelectUser(u) ==
  /\ page = "login" /\ AuthSet(users, u.id, TRUE) /\ Enter(u.key, count.ids)
  /\ UNCHANGED <<vvars, dvars0, submitted, password, slips>>

\* Fault: the account that takes over is not made current.
StayGone(id, us) == currentUserId
Heir(id, us) == IF currentUserId = id THEN FirstId(us) ELSE currentUserId

\* removeUser; its button is disabled for the current account.  With nobody
\* signed in it signs in nobody.
RemoveUser(u) ==
  /\ page = "login" /\ u.id # currentUserId
  /\ LET us == {v \in users : v.id # u.id}
     IN  /\ AuthSet(us, Heir(u.id, us), us # {})
         /\ slips' = IF ~isAuthenticated /\ us # {} THEN slips \cup {"removed while signed out"} ELSE slips
  /\ UNCHANGED <<vvars, dvars0, page, submitted, password, calls, count>>

\* removeUsersByApiKeys, called by the page of the spaces with the keys of
\* the members of a space that was deleted.
RemoveByKey(k) ==
  /\ page = "app" /\ \E u \in users : u.key = k
  /\ LET us == {u \in users : u.key # k}
         gone == currentUserId # NoId /\ \A u \in us : u.id # currentUserId
     IN  /\ AuthSet(us, IF gone THEN Heir(currentUserId, us) ELSE currentUserId, us # {})
         /\ page' = IF us = {} THEN "login" ELSE page
  /\ UNCHANGED <<vvars, dvars0, submitted, password, calls, count, slips>>

\* The browser goes back to the application: ProtectedRoute asks only
\* whether somebody is authenticated.
GoBack ==
  /\ page = "login" /\ isAuthenticated /\ Enter(KeyNow, count.ids)
  /\ UNCHANGED <<avars0, vvars, dvars0, submitted, password, slips>>

-----------------------------------------------------------------------------
(* The header and api/client.ts *)

\* handleLogout: no reload, the vault store and the requests stay.
Logout ==
  /\ page # "login" /\ page' = "login" /\ localUnlocked' = FALSE
  /\ AuthSet(users, NoId, FALSE) /\ calls' = PageGone(calls)
  /\ UNCHANGED <<vvars, isFirstTime, submitted, password, count, slips>>

\* The page is loaded anew, with the accounts of sessionStorage.
Fresh(s) ==
  /\ users' = s.users /\ currentUserId' = s.id /\ isAuthenticated' = s.auth /\ stored' = s
  /\ isUnlocked' = FALSE /\ hasPassword' = FALSE /\ isFirstTime' = FALSE /\ localUnlocked' = FALSE
  /\ submitted' = {}

Reload ==
  /\ page # "login" /\ count.calls < MaxCalls /\ Fresh(stored)
  /\ IF stored.auth
     THEN /\ page' = "app" /\ calls' = {LayoutCall(KeyNow)}
          /\ count' = [count EXCEPT !.calls = @ + 1]
     ELSE page' = "login" /\ calls' = {} /\ UNCHANGED count
  /\ UNCHANGED <<password, slips>>

\* A request is refused with 401: whoever sent it, the account of now is
\* logged out and the login page loaded.
Refused(c) ==
  /\ Fresh([users |-> users, id |-> NoId, auth |-> FALSE])
  /\ page' = "login" /\ calls' = {}
  /\ UNCHANGED <<password, count, slips>>

\* handleClearCache: the stores of this page stay until it is loaded anew.
ClearCache ==
  /\ page = "app" /\ stored' = SignedOut
  /\ UNCHANGED <<users, currentUserId, isAuthenticated, vvars, dvars0, page, submitted, password, calls, count, slips>>

-----------------------------------------------------------------------------
(* stores/vault.ts, views/settings and the door of views/vault *)

\* The door of the vault page is shown, anew: it asks for the status.
DoorShown(left) ==
  isFirstTime' = FALSE /\ SendIn(left, [Call("status", hasPassword) EXCEPT !.door = TRUE])
\* The store is locked: the vault page shows its door unless it was opened by it.
Locked(left) ==
  /\ isUnlocked' = FALSE
  /\ IF page = "vault" /\ isUnlocked /\ ~localUnlocked
     THEN DoorShown(left) ELSE calls' = left /\ UNCHANGED <<isFirstTime, count>>

Lock ==
  /\ page # "login" /\ isUnlocked /\ Locked(calls)
  /\ UNCHANGED <<avars0, hasPassword, localUnlocked, page, submitted, password, slips>>

\* handleSetVaultPassword and handleResetVault send their requests.
SetInSettings ==
  /\ page = "app" /\ Send(Call("set", TRUE))
  /\ UNCHANGED <<avars0, vvars, dvars0, page, submitted, password, slips>>
ResetVault ==
  /\ page = "app" /\ Send(Call("reset", TRUE))
  /\ UNCHANGED <<avars0, vvars, dvars0, page, submitted, password, slips>>

OpenVault ==
  /\ page = "app" /\ page' = "vault" /\ localUnlocked' = FALSE
  /\ IF isUnlocked THEN UNCHANGED <<isFirstTime, calls, count>> ELSE DoorShown(calls)
  /\ UNCHANGED <<avars0, vvars, submitted, password, slips>>

LeaveVault ==
  /\ page = "vault" /\ page' = "app" /\ localUnlocked' = FALSE /\ calls' = PageGone(calls)
  /\ UNCHANGED <<avars0, vvars, isFirstTime, submitted, password, count, slips>>

\* handleSubmit of the door: the first password is set, another verified.
SubmitDoor ==
  /\ page = "vault" /\ ~isUnlocked /\ ~localUnlocked
  /\ Send(Call(IF isFirstTime THEN "first" ELSE "verify", TRUE))
  /\ UNCHANGED <<avars0, vvars, dvars0, page, submitted, password, slips>>

\* handleVaultUnlock of the other pages goes through the store's unlock.
Unlock ==
  /\ page = "app" /\ ~isUnlocked /\ Send(Call("unlock", TRUE))
  /\ UNCHANGED <<avars0, vvars, dvars0, page, submitted, password, slips>>

\* checkStatus: a request that failed counts as a vault without a password.
\* The door then goes by the hasPassword of its render, and asks again when
\* that has changed.
\* Fault: the door takes the opposite.
ByOldRender(c, has) == c.saw
ByRender(c, has) == ~c.saw

\* The door asks again whenever hasPassword changes under it.
DoorAsks(c, has) ==
  IF page = "vault" /\ ~isUnlocked /\ ~localUnlocked /\ has # hasPassword /\ count.calls < MaxCalls
  THEN SendIn(calls \ {c}, Call("status", has))
  ELSE calls' = calls \ {c} /\ UNCHANGED count

Status(c, lost) ==
  LET has == IF c.key = NoKey \/ lost THEN FALSE ELSE password[c.key]
  IN  /\ c.what = "status" /\ hasPassword' = has /\ DoorAsks(c, has)
      /\ isFirstTime' = IF c.door THEN ByRender(c, has) ELSE isFirstTime
      /\ slips' = slips \cup (IF lost THEN {"status lost"} ELSE {})
                        \cup (IF c.door /\ has /\ ~c.saw THEN {"status of an old render"} ELSE {})
      /\ UNCHANGED <<avars0, isUnlocked, localUnlocked, page, submitted, password>>

\* The store's setPassword, from the settings or from the door: onUnlock.
PasswordSet(c) ==
  /\ c.what \in {"set", "first"} /\ c.key # NoKey
  /\ password' = [password EXCEPT ![c.key] = TRUE]
  /\ slips' = slips \cup (IF c.what = "first" /\ password[c.key] THEN {"overwritten"} ELSE {})
                    \cup (IF \E o \in calls \ {c} : o.what = "first" /\ o.key = c.key
                          THEN {"set meanwhile"} ELSE {})
  /\ isUnlocked' = TRUE /\ hasPassword' = TRUE /\ localUnlocked' = (localUnlocked \/ c.door)
  /\ calls' = DoorGone(calls \ {c})
  /\ UNCHANGED <<avars0, isFirstTime, page, submitted, count>>

VaultReset(c) ==
  /\ c.what = "reset" /\ c.key # NoKey
  /\ password' = [password EXCEPT ![c.key] = FALSE] /\ Locked(calls \ {c})
  /\ UNCHANGED <<avars0, hasPassword, localUnlocked, page, submitted, slips>>

\* The right password.  The door's own verification opens the page only.
PasswordGood(c) ==
  /\ c.what \in {"verify", "unlock"} /\ c.key # NoKey /\ password[c.key]
  /\ isUnlocked' = (isUnlocked \/ c.what = "unlock") /\ localUnlocked' = (localUnlocked \/ c.door)
  /\ calls' = IF c.what = "unlock" \/ c.door THEN DoorGone(calls \ {c}) ELSE calls \ {c}
  /\ UNCHANGED <<avars0, hasPassword, isFirstTime, page, submitted, password, count, slips>>

\* The wrong password, or the request failed: nothing changes.
CallFails(c) ==
  /\ c.what # "status" /\ calls' = calls \ {c}
  /\ UNCHANGED <<avars0, vvars, dvars0, page, submitted, password, count, slips>>

AcNext ==
  \/ \E k \in Keys : SubmitKey(k) \/ RemoveByKey(k)
  \/ LoginFails \/ (\E f \in submitted : LoginGood(f))
  \/ \E u \in users : SelectUser(u) \/ RemoveUser(u)
  \/ GoBack \/ Logout \/ Reload \/ ClearCache
  \/ Lock \/ SetInSettings \/ ResetVault \/ OpenVault \/ LeaveVault \/ SubmitDoor \/ Unlock
  \/ \E c \in calls :
       \/ \E lost \in BOOLEAN : Status(c, lost)
       \/ PasswordSet(c) \/ VaultReset(c) \/ PasswordGood(c) \/ CallFails(c) \/ Refused(c)

AcSpec == AcInit /\ [][AcNext]_acvars

-----------------------------------------------------------------------------
\* Inside the application an account is signed in: except after the removal
\* of a saved account while nobody was, or while its own login was checked.
SomebodySignedIn ==
  page # "login" =>
    Known(currentUserId) \/ slips \cap {"removed while signed out", "removed while logging in"} # {}

\* The door of the vault page never sets a password over another: unless a
\* status request was lost, the door went by the render before its answer, or
\* a password was set while a first one was on its way.
PasswordKept ==
  "overwritten" \in slips =>
    slips \cap {"status lost", "status of an old render", "set meanwhile"} # {}
=============================================================================

------------------------------- MODULE MCWebApp -------------------------------
(***************************************************************************)
(* The web interface for TLC.  Its pages are not open at the same time and *)
(* share no state but the stores of Accounts, so that a behaviour of one   *)
(* of them at a time shows all there is: `part` says whose it is.          *)
(***************************************************************************)
EXTENDS Accounts, MemoryLists, MemoryDetail, MemoryForm, SessionPage, ProfilePage

VARIABLE part

MCMaxFetches == [k \in {"list", "vault"} |-> IF k = "vault" THEN 4 ELSE 3]

webvars == <<acvars, lvars, detvars, fvars, sevars, pvars, part>>

\* One of several keys, which all behave alike at the start.
FirstKey == CHOOSE k \in Keys : TRUE

\* The parts whose initial states are many start anywhere only when it is
\* their turn.
WebInit ==
  /\ part \in {"accounts", "lists", "detail", "form", "session", "profile"}
  /\ AcInit /\ LInit /\ DetInit /\ FormInit /\ SeInit /\ PInit
  /\ part # "accounts" => \A k \in Keys : password[k]
  /\ (\E k \in Keys : password[k]) => password[FirstKey]
  /\ part # "lists" => kind = "list" /\ rows = Ids /\ view = Opening(1, FALSE, FALSE)
  /\ view \in {Opening(1, FALSE, FALSE), Opening(2, TRUE, TRUE)}
  /\ view.page = 2 => rows = Ids
  /\ part # "detail" => (\A m \in Mems : scope[m] = scope[address]) /\ address = CHOOSE m \in Mems : TRUE
  /\ part # "detail" => scope[address] = CHOOSE s \in Scopes : TRUE
  /\ part # "form" => saved = {}
  /\ part # "session" => ~vaultOpen
  /\ part # "profile" => prefs = {}

WebNext ==
  \/ part = "accounts" /\ AcNext /\ UNCHANGED <<lvars, detvars, fvars, sevars, pvars, part>>
  \/ part = "lists" /\ LNext /\ UNCHANGED <<acvars, detvars, fvars, sevars, pvars, part>>
  \/ part = "detail" /\ DetNext /\ UNCHANGED <<acvars, lvars, fvars, sevars, pvars, part>>
  \/ part = "form" /\ FormNext /\ UNCHANGED <<acvars, lvars, detvars, sevars, pvars, part>>
  \/ part = "session" /\ SeNext /\ UNCHANGED <<acvars, lvars, detvars, fvars, pvars, part>>
  \/ part = "profile" /\ PNext /\ UNCHANGED <<acvars, lvars, detvars, fvars, sevars, part>>

WebSpec == WebInit /\ [][WebNext]_webvars
=============================================================================

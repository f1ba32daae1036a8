------------------------------ MODULE Spaces -------------------------------
(***************************************************************************)
(* The `spaces` table (store/spaces.rs) under the handlers that change a   *)
(* space: api/handlers/spaces.rs and the rules and publishing of           *)
(* api/handlers/sharing.rs.                                                *)
(*                                                                         *)
(* A space is one JSON document.  Every handler reads the whole document,  *)
(* checks that the caller administers it, edits its copy, and writes the   *)
(* copy back as a delete followed by an insert.  Nothing holds a lock, so  *)
(* two handlers may hold copies of one document, and a handler may stop    *)
(* between its delete and its insert.                                      *)
(***************************************************************************)
EXTENDS Naturals, Sequences

CONSTANTS
  Users,      \* tenants
  SpaceIds,   \* ids of team and organization spaces (UUIDs: never reused)
  Rules,      \* auto-share rules
  Handlers,   \* requests in flight at once
  Extras,     \* member lists that a space may be created with
  Changes,    \* edits that an instance lets requests ask for
  MaxMembers  \* bound: entries in a member list

Roles  == {"admin", "member", "reader"}
Member == [user : Users, role : Roles]
Space  == [owner : Users, members : Seq(Member), rules : SUBSET Rules]

\* The edits of one document.  A rename changes no field that is modelled, but
\* rewrites the document like the others; publishing with a rule adds the rule.
Change ==
       [what : {"rename"}]
  \cup [what : {"add", "role"}, user : Users, role : Roles]
  \cup [what : {"remove"}, user : Users]
  \cup [what : {"rule", "unrule"}, rule : Rules]

ASSUME SpacesAssumption ==
  /\ MaxMembers \in Nat /\ Users # {} /\ SpaceIds # {}
  /\ Extras \subseteq Seq(Member) /\ Changes \subseteq Change

VARIABLES
  docs,    \* docs[i]: the rows of the table with space id i
  pc,      \* pc[p]: "idle", or the commit that p makes next
  work,    \* work[p]: the space p works on, its edited copy and the edit
  made,    \* ids of spaces that were created
  truth,   \* truth[i]: the space if each edit had applied to the latest document
  dropped, \* ids of spaces that a delete was committed for
  gone,    \* ids deleted while no update of the space was in flight
  raced,   \* ids with two requests in flight at once
  torn     \* ids with an update that stopped between its delete and its insert

spvars == <<docs, pc, work, made, truth, dropped, gone, raced, torn>>

NoSpace == [owner |-> CHOOSE u \in Users : TRUE, members |-> <<>>, rules |-> {}]
NoWork  == [space |-> CHOOSE i \in SpaceIds : TRUE, copy |-> NoSpace,
            change |-> [what |-> "rename"]]

SpTypeOK ==
  /\ docs \in [SpaceIds -> Seq(Space)]
  /\ pc \in [Handlers -> {"idle", "delete", "add", "remove"}]
  /\ work \in [Handlers -> [space : SpaceIds, copy : Space, change : Change]]
  /\ truth \in [SpaceIds -> Space]
  /\ made \subseteq SpaceIds /\ dropped \subseteq made /\ gone \subseteq dropped
  /\ raced \subseteq made /\ torn \subseteq made

SpInit ==
  /\ docs = [i \in SpaceIds |-> <<>>]
  /\ pc = [p \in Handlers |-> "idle"]
  /\ work = [p \in Handlers |-> NoWork]
  /\ truth = [i \in SpaceIds |-> NoSpace]
  /\ made = {} /\ dropped = {} /\ gone = {} /\ raced = {} /\ torn = {}

-----------------------------------------------------------------------------
(* Documents. *)

RangeOf(s) == {s[k] : k \in DOMAIN s}

IsMember(d, u) == \E m \in RangeOf(d.members) : m.user = u

\* The owner, or any entry of the member list that says admin.
IsAdmin(d, u) ==
  \/ d.owner = u
  \/ \E m \in RangeOf(d.members) : m.user = u /\ m.role = "admin"

\* The first entry of u, as iter_mut().find() sees it.
FirstEntry(d, u) ==
  CHOOSE k \in DOMAIN d.members :
    /\ d.members[k].user = u
    /\ \A l \in 1 .. k - 1 : d.members[l].user # u

\* retain: the entries that name somebody else, in their order.
Without(members, u) ==
  LET kept[k \in 0 .. Len(members)] ==
        IF k = 0 THEN <<>>
        ELSE IF members[k].user = u THEN kept[k - 1] ELSE Append(kept[k - 1], members[k])
  IN  kept[Len(members)]

\* Fault: the owner may be removed like any member.
AllowedWithoutOwner(d, c) ==
  CASE c.what = "add"    -> ~IsMember(d, c.user) /\ Len(d.members) < MaxMembers
    [] c.what = "remove" -> IsMember(d, c.user)
    [] c.what = "role"   -> IsMember(d, c.user)
    [] c.what = "unrule" -> c.rule \in d.rules
    [] OTHER             -> TRUE

\* What each handler refuses.
Allowed(d, c) ==
  CASE c.what = "add"    -> ~IsMember(d, c.user) /\ Len(d.members) < MaxMembers
    [] c.what = "remove" -> c.user # d.owner /\ IsMember(d, c.user)
    [] c.what = "role"   -> IsMember(d, c.user)
    [] c.what = "unrule" -> c.rule \in d.rules
    [] OTHER             -> TRUE

\* Fault: a role is stored as the request spells it.
ApplyUnparsed(d, c) ==
  CASE c.what = "role" -> [d EXCEPT !.members =
                             [k \in DOMAIN @ |-> [@[k] EXCEPT !.role = "Reader"]]]
    [] OTHER           -> d

Apply(d, c) ==
  CASE c.what = "add"    -> [d EXCEPT !.members =
                               Append(@, [user |-> c.user, role |-> c.role])]
    [] c.what = "remove" -> [d EXCEPT !.members = Without(@, c.user)]
    [] c.what = "role"   -> IF IsMember(d, c.user)
                            THEN [d EXCEPT !.members[FirstEntry(d, c.user)].role = c.role]
                            ELSE d
    [] c.what = "rule"   -> [d EXCEPT !.rules = @ \cup {c.rule}]
    [] c.what = "unrule" -> [d EXCEPT !.rules = @ \ {c.rule}]
    [] OTHER             -> d

-----------------------------------------------------------------------------
(* Requests. *)

Busy(i) == {p \in Handlers : pc[p] # "idle" /\ work[p].space = i}
Updating(i) == {p \in Handlers : pc[p] \in {"delete", "add"} /\ work[p].space = i}

\* The latest document with one more edit; not followed once requests overlap.
Followed(i, d, c) == IF i \in raced \cup torn THEN d ELSE Apply(d, c)

Finish(p) ==
  /\ pc' = [pc EXCEPT ![p] = "idle"]
  /\ work' = [work EXCEPT ![p] = NoWork]

NoteRace(i) == raced' = IF Busy(i) # {} THEN raced \cup {i} ELSE raced

\* create_space and org_setup: the caller first, as admin, then the members asked
\* for, except entries that name the caller again.  Nothing else is deduplicated.
CreateSpace(u, i, extra) ==
  LET d == [owner |-> u, rules |-> {},
            members |-> <<[user |-> u, role |-> "admin"]>> \o Without(extra, u)]
  IN /\ i \notin made
     /\ Len(d.members) <= MaxMembers
     /\ docs' = [docs EXCEPT ![i] = <<d>>]
     /\ truth' = [truth EXCEPT ![i] = d]
     /\ made' = made \cup {i}
     /\ UNCHANGED <<pc, work, dropped, gone, raced, torn>>

\* get_space (any one row), the checks, and the edit of the copy.
UpdateStart(p, u, i, c) ==
  /\ pc[p] = "idle"
  /\ \E d \in RangeOf(docs[i]) :
       /\ IsAdmin(d, u) /\ Allowed(d, c)
       /\ work' = [work EXCEPT ![p] = [space |-> i, copy |-> Apply(d, c), change |-> c]]
  /\ pc' = [pc EXCEPT ![p] = "delete"]
  /\ NoteRace(i)
  /\ UNCHANGED <<docs, made, truth, dropped, gone, torn>>

\* Fault: update_space inserts without deleting.
UpdateWithoutDelete(p) ==
  /\ pc[p] = "delete"
  /\ pc' = [pc EXCEPT ![p] = "add"]
  /\ UNCHANGED <<docs, work, made, truth, dropped, gone, raced, torn>>

\* update_space: delete every row with the id ...
UpdateDelete(p) ==
  /\ pc[p] = "delete"
  /\ docs' = [docs EXCEPT ![work[p].space] = <<>>]
  /\ pc' = [pc EXCEPT ![p] = "add"]
  /\ UNCHANGED <<work, made, truth, dropped, gone, raced, torn>>

\* Fault: the insert is an update of the rows that are there.
UpdateInPlace(p) ==
  /\ pc[p] = "add"
  /\ LET i == work[p].space
     IN /\ docs' = [docs EXCEPT ![i] = [k \in DOMAIN @ |-> work[p].copy]]
        /\ truth' = [truth EXCEPT ![i] = Followed(i, @, work[p].change)]
  /\ Finish(p)
  /\ UNCHANGED <<made, dropped, gone, raced, torn>>

\* ... and insert the edited copy.
UpdateAdd(p) ==
  /\ pc[p] = "add"
  /\ LET i == work[p].space
     IN /\ docs' = [docs EXCEPT ![i] = Append(@, work[p].copy)]
        /\ truth' = [truth EXCEPT ![i] = Followed(i, @, work[p].change)]
  /\ Finish(p)
  /\ UNCHANGED <<made, dropped, gone, raced, torn>>

\* delete_space: read, check, and delete every row.
DeleteStart(p, u, i) ==
  /\ pc[p] = "idle"
  /\ \E d \in RangeOf(docs[i]) : IsAdmin(d, u)
  /\ pc' = [pc EXCEPT ![p] = "remove"]
  /\ work' = [work EXCEPT ![p].space = i]
  /\ NoteRace(i)
  /\ UNCHANGED <<docs, made, truth, dropped, gone, torn>>

\* Fault: one row is deleted.
DeleteOneRow(p) ==
  /\ pc[p] = "remove"
  /\ LET i == work[p].space
     IN /\ docs' = [docs EXCEPT ![i] = IF @ = <<>> THEN @ ELSE Tail(@)]
        /\ dropped' = dropped \cup {i}
        /\ gone' = IF Updating(i) = {} THEN gone \cup {i} ELSE gone
  /\ Finish(p)
  /\ UNCHANGED <<made, truth, raced, torn>>

DeleteSpace(p) ==
  /\ pc[p] = "remove"
  /\ LET i == work[p].space
     IN /\ docs' = [docs EXCEPT ![i] = <<>>]
        /\ dropped' = dropped \cup {i}
        /\ gone' = IF Updating(i) = {} THEN gone \cup {i} ELSE gone
  /\ Finish(p)
  /\ UNCHANGED <<made, truth, raced, torn>>

\* A handler is dropped at an await: what it committed stays.
Drop(p) ==
  /\ pc[p] # "idle"
  /\ torn' = IF pc[p] = "add" THEN torn \cup {work[p].space} ELSE torn
  /\ Finish(p)
  /\ UNCHANGED <<docs, made, truth, dropped, gone, raced>>

SpNext ==
  \/ \E u \in Users, i \in SpaceIds, extra \in Extras : CreateSpace(u, i, extra)
  \/ \E p \in Handlers, u \in Users, i \in SpaceIds :
       \/ DeleteStart(p, u, i)
       \/ \E c \in Changes : UpdateStart(p, u, i, c)
  \/ \E p \in Handlers : UpdateDelete(p) \/ UpdateAdd(p) \/ DeleteSpace(p) \/ Drop(p)

SpSpec == SpInit /\ [][SpNext]_spvars

-----------------------------------------------------------------------------
(* Properties. *)

\* As long as the requests on a space do not overlap and none is cut in half,
\* the table holds one document for it, with every accepted edit applied to the
\* one before: no invitation, removal or rule is lost.
NoEditLostUnlessRaced ==
  \A i \in made \ (raced \cup torn) : Busy(i) = {} =>
    docs[i] = IF i \in dropped THEN <<>> ELSE <<truth[i]>>

\* A space disappears only by a delete, by an update that was cut in half, or
\* while an update is between its two commits, whatever the interleaving.
NoSpaceLost ==
  \A i \in made \ dropped : docs[i] = <<>> =>
    \/ i \in torn
    \/ \E p \in Handlers : pc[p] = "add" /\ work[p].space = i

\* A space deleted while no update of it was in flight never comes back.
DeletedSpaceStaysDeleted == \A i \in gone : docs[i] = <<>>

\* Whatever edits race, the owner of a document stays in its member list, so the
\* owner is never shown as an outsider of the space.
OwnerStaysMember ==
  \A i \in SpaceIds : \A d \in RangeOf(docs[i]) : IsMember(d, d.owner)

\* The documents of the spaces through racing and interrupted edits
\* (store/spaces.rs:228-372, api/handlers/spaces.rs).
SpacesSafe ==
  SpTypeOK /\ NoEditLostUnlessRaced /\ NoSpaceLost /\ DeletedSpaceStaysDeleted /\ OwnerStaysMember
=============================================================================

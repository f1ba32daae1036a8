------------------------------ MODULE ApplyDream ------------------------------
(***************************************************************************)
(* The merge of a dream's archive into the directory of memory files       *)
(* (plugins/claude-code/hooks/apply-dream.mjs): a pure algorithm, applied  *)
(* once to every directory and archive of the bounds.                      *)
(***************************************************************************)
EXTENDS Naturals, FiniteSetsExt

CONSTANTS
  MemFiles,     \* file names of the memory directory
  Names,        \* names of memories
  Slug,         \* Slug[n]: the file name made of n
  LinkText,     \* LinkText[n]: the name that the index line with text n leads to
  MaxEntries    \* bound: entries of an archive

Absent == "no file"
NoName == "no name"    \* a file without a frontmatter that can be read

\* No memory's name is that of no file.
ASSUME ApplyAssumption == Absent \notin Names

Acts == {"kept", "dropped", "added", "merged", "updated"}
Entries == [name : Names, act : Acts, size : 0 .. 2, desc : BOOLEAN]  \* body's size; a description

VARIABLES
  dir,      \* dir[f]: the name in f, NoName or Absent
  archive,  \* the entries of the dream
  body,     \* body[f]: 0 what was there, or the number of the entry written there
  applied

avars == <<dir, archive, body, applied>>

\* A name is in one file: the Map of old files keeps one path for each name.
AInit ==
  /\ dir \in [MemFiles -> Names \cup {NoName, Absent}]
  /\ \A f, g \in MemFiles : dir[f] = dir[g] /\ dir[f] \in Names => f = g
  /\ archive \in UNION {[1 .. k -> Entries] : k \in 1 .. MaxEntries}
  /\ body = [f \in MemFiles |-> 0] /\ applied = FALSE

OldFiles == {dir[f] : f \in MemFiles} \ {NoName, Absent}
FileOf(n) == CHOOSE f \in MemFiles : dir[f] = n

\* Of the entries of one name: the longest, then one that is kept, then the first;
\* it takes the place of the first.
Better(i, j) ==
  \/ archive[i].size > archive[j].size
  \/ archive[i].size = archive[j].size /\ archive[i].act = "kept" /\ archive[j].act # "kept"

SameName(i) == {j \in DOMAIN archive : archive[j].name = archive[i].name}
Chosen == {i \in DOMAIN archive : \A j \in SameName(i) \ {i} : Better(i, j) \/ (i < j /\ ~Better(j, i))}
Place(i) == Min(SameName(i))

\* The name of entry i, led to its file by the index if it is a link's text.
NameOf(i) ==
  IF archive[i].name \notin OldFiles /\ LinkText[archive[i].name] \in OldFiles
  THEN LinkText[archive[i].name] ELSE archive[i].name

\* Fault: an addition may replace a file that exists.
NoConflict(i) == FALSE
Conflict(i) == archive[i].act = "added" /\ NameOf(i) \in OldFiles

Content(i) == archive[i].size > 0 \/ archive[i].desc

Writes == {i \in Chosen : archive[i].act \in {"added", "merged", "updated"} /\ Content(i) /\ ~Conflict(i)}
Drops  == {i \in Chosen : archive[i].act = "dropped" /\ NameOf(i) \in OldFiles}

PathOf(i) == IF NameOf(i) \in OldFiles THEN FileOf(NameOf(i)) ELSE Slug[NameOf(i)]

\* --apply: all writes in the archive's order, the last into a file stays.
Written(f) == {i \in Writes : PathOf(i) = f}
Lasting(f)   == {i \in Written(f) : \A j \in Written(f) : Place(j) <= Place(i)}

\* Then the removals, up to the first of a file that is already gone: it throws.
Removed(f) ==
  \E i \in Drops :
    /\ FileOf(NameOf(i)) = f
    /\ ~ \E j, k \in Drops : /\ NameOf(j) = NameOf(k) /\ Place(j) < Place(k)
                             /\ Place(k) < Place(i)

Apply ==
  /\ ~applied /\ applied' = TRUE
  /\ body' = [f \in MemFiles |->
       IF Removed(f) \/ Lasting(f) = {} THEN 0 ELSE CHOOSE i \in Lasting(f) : TRUE]
  /\ dir' = [f \in MemFiles |->
       IF Removed(f) THEN Absent ELSE IF body'[f] = 0 THEN dir[f] ELSE NameOf(body'[f])]
  /\ UNCHANGED archive

ASpec == AInit /\ [][Apply]_avars

-----------------------------------------------------------------------------
(* Properties.                                                             *)

\* Entry i is about the name in file f, or a text of the index that leads to it.
About(i, f) == dir[f] \in {archive[i].name, LinkText[archive[i].name]}

\* The merge contract (apply-dream.mjs:3-9), kind by kind.  A memory file is only
\* removed by an entry that drops it, and none of that entry's name is longer, or
\* as long and says that it is kept.  It is only rewritten by an entry with content
\* that merges or updates it; or else by one of a new name, whose slug is the name
\* of the file: that cause breaks the contract for additions.
ContractKept ==
  [][\A f \in MemFiles : dir[f] # Absent =>
       /\ dir'[f] = Absent =>
            \E i \in DOMAIN archive :
              /\ archive[i].act = "dropped" /\ About(i, f)
              /\ \A j \in SameName(i) : ~Better(j, i)
       /\ body'[f] # body[f] =>
            \E i \in DOMAIN archive :
              /\ i = body'[f] /\ Content(i)
              /\ \/ archive[i].act \in {"merged", "updated"} /\ About(i, f)
                 \/ /\ archive[i].act \in {"added", "merged", "updated"}
                    /\ archive[i].name \notin OldFiles /\ Slug[archive[i].name] = f
    ]_avars

\* "added onto an existing local file is a conflict [...] skipped and surfaced, never
\* blindly overwrites" (apply-dream.mjs:8-9): false of a new name with an old slug.
NeverOverwritten ==
  [][\A f \in MemFiles : (dir[f] # Absent /\ body'[f] # 0) => archive[body'[f]].act # "added"]_avars
=============================================================================

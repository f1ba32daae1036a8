------------------------------ MODULE MemoryForm ------------------------------
(***************************************************************************)
(* The forms that edit a memory, omem-web/src/views/memories/              *)
(* memory-form.tsx and memory-insight-form.tsx, as far as the tags go: the *)
(* form holds them twice, as a list and as the text of a box.              *)
(***************************************************************************)
EXTENDS Naturals, FiniteSets

CONSTANTS
  Words,       \* the words tags are made of
  MaxEdits     \* bound: edits of the user

\* A tag is the set of its words: the text "a, b" is two tags, or one when
\* it is added as it stands.
TagsOf(text) == {{w} : w \in text}

VARIABLES
  saved,       \* server: the tags of the memory
  tags,        \* formData.tags
  tagInput,    \* the words of the box
  formState,   \* "loading", "shown", "saving" or "done"
  loaded,      \* the words the form was opened with
  dropped,     \* the words the user took out
  entered,     \* a tag was added by Enter
  payload,     \* what Save sent last: the tags, and the user's part in them
  edits,       \* number of edits
  excused      \* the form was not loaded, or another client has edited it

fvars == <<saved, tags, tagInput, formState, loaded, dropped, entered, payload, edits, excused>>

FormInit ==
  /\ \E text \in SUBSET Words : saved = TagsOf(text)
  /\ tags = {} /\ tagInput = {} /\ formState = "loading"
  /\ loaded = {} /\ dropped = {} /\ edits = 0 /\ excused = FALSE
  /\ entered = FALSE /\ payload = [tags |-> {}, dropped |-> {}, entered |-> FALSE]

\* Fault: the box is left empty.
NoText(ts) == {}
\* formatTags
BoxOf(ts) == UNION ts

FormLoaded ==
  /\ formState = "loading" /\ formState' = "shown"
  /\ tags' = saved /\ tagInput' = BoxOf(saved) /\ loaded' = UNION saved
  /\ UNCHANGED <<saved, dropped, entered, payload, edits, excused>>

\* The form is shown all the same, empty, and saves what is typed into it.
LoadFails ==
  /\ formState = "loading" /\ formState' = "shown"
  /\ loaded' = UNION saved /\ excused' = TRUE
  /\ UNCHANGED <<saved, tags, tagInput, dropped, entered, payload, edits>>

\* The fields stay enabled while the form is saved.
Edit(ts, text, out) ==
  /\ formState \in {"shown", "saving"} /\ edits < MaxEdits /\ edits' = edits + 1
  /\ tags' = ts /\ tagInput' = text /\ dropped' = (dropped \cup out) \ UNION ts
  /\ UNCHANGED <<saved, formState, loaded, payload, excused>>

\* handleTagInputChange: the list is what the box says.  The user sees the
\* words of the box only.
TypeTags(text) ==
  /\ text # tagInput /\ Edit(TagsOf(text), text, tagInput \ text)
  /\ UNCHANGED entered

\* Enter adds the text of the box as one tag and empties the box: what is
\* typed next replaces the list.
EnterTag ==
  /\ tagInput \notin tags \cup {{}} /\ Edit(tags \cup {tagInput}, {}, {})
  /\ entered' = TRUE

\* A click on a tag; the box still names it.
RemoveTag(t) ==
  /\ Edit(tags \ {t}, tagInput, t) /\ UNCHANGED entered

\* Another client changes the tags meanwhile.
EditedElsewhere(text) ==
  /\ formState # "done" /\ saved' = TagsOf(text) /\ saved' # saved
  /\ excused' = (excused \/ formState # "loading")
  /\ UNCHANGED <<tags, tagInput, formState, loaded, dropped, entered, payload, edits>>

\* handleSubmit: what the form holds now is sent; the button is disabled.
Submit ==
  /\ formState = "shown" /\ formState' = "saving"
  /\ payload' = [tags |-> tags, dropped |-> dropped, entered |-> entered]
  /\ UNCHANGED <<saved, tags, tagInput, loaded, dropped, entered, edits, excused>>

\* The PUT is served; its answer may be lost, which keeps the form open.
Put2xx(told) ==
  /\ formState = "saving" /\ saved' = payload.tags
  /\ formState' = IF told THEN "done" ELSE "shown"
  /\ UNCHANGED <<tags, tagInput, loaded, dropped, entered, payload, edits, excused>>

SaveFails ==
  /\ formState = "saving" /\ formState' = "shown"
  /\ UNCHANGED <<saved, tags, tagInput, loaded, dropped, entered, payload, edits, excused>>

FormNext ==
  \/ FormLoaded \/ LoadFails \/ EnterTag \/ Submit \/ SaveFails
  \/ \E text \in SUBSET Words : TypeTags(text) \/ EditedElsewhere(text)
  \/ \E t \in tags : RemoveTag(t)
  \/ \E told \in BOOLEAN : Put2xx(told)

FormSpec == FormInit /\ [][FormNext]_fvars

-----------------------------------------------------------------------------
\* A memory that was saved by the form keeps the words of its tags that the
\* user had not taken out when he pressed Save, whatever he types while it is
\* saved: unless the form could not load it, he had added a tag by Enter, or
\* another client edited it meanwhile.
SavedKeepsTags ==
  formState = "done" /\ ~excused /\ ~payload.entered => loaded \ payload.dropped \subseteq UNION saved
=============================================================================

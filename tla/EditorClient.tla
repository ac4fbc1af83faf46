---------------------------- MODULE EditorClient ----------------------------
(***************************************************************************)
(* The record editor of the browser page against the server and D3: which  *)
(* item the page shows, the draft of the operator, and the requests that   *)
(* read and save while the operator goes on - opens another item, switches *)
(* the connection, types - and while others edit profiles and items.       *)
(*                                                                         *)
(* A read or save on D3 is one step here: that it is, is what              *)
(* RecordProtocol shows (RecordRegister).  A modal dialog takes all input  *)
(* of the operator.  Program actions (compile, catalog, run), plan mode    *)
(* and the list of items are not modelled.                                 *)
(***************************************************************************)
EXTENDS Naturals, FiniteSets

CONSTANTS
    Profiles,     \* names of connection profiles
    Connections,  \* fingerprints of their settings; each leads to a D3
    Items,        \* items the operator may open
    Values,       \* contents of items and of the editor
    Settings,     \* Settings[p]: the settings of profile p at first
    Contents,     \* what the D3 installations may store at first
    MaxReads,     \* bound on readSelectedItem and resetEditorSelection
    MaxEdits,     \* bound on what others do: write, edit or select a profile
    None

Slots == Connections \X Items

\* A record the page has loaded; id is the number of its read.
Records == [id : 1 .. MaxReads, profile : Profiles, item : Items,
            connection : Connections, original : Values, readOnly : BOOLEAN]

\* Where an operator wants to go: open an item, leave the selection, or
\* switch to another connection.
Moves == [to : {"item"}, arg : Items] \cup [to : {"nothing"}, arg : {None}]
            \cup [to : {"profile"}, arg : Profiles]

\* What an open dialog decides: to save what was shown, or to discard it.
Dialogs == [ask : {"save"}, replacement : Values] \cup [ask : {"discard"}, move : Moves]

\* The answer to a read.
Answers == [connection : Connections, value : Values, readOnly : BOOLEAN]
Reads == [id : 1 .. MaxReads, profile : Profiles, item : Items, answer : {None} \cup Answers]

\* stored is what the page showed as stored when the save was approved
\* (history).
Saves == [id : 1 .. MaxReads, profile : Profiles, item : Items,
          connection : Connections, expected : Values, replacement : Values,
          stored : Values, step : {"sent", "accepted", "saved", "failed"}]

ASSUME EditorAssumption ==
    /\ None \notin Profiles \cup Connections \cup Items \cup Values
    /\ None \notin Records \cup Dialogs \cup Answers
    /\ Settings \in [Profiles -> Connections]
    /\ Contents \subseteq [Connections \X Items -> Values]
    /\ MaxReads \in Nat /\ MaxEdits \in Nat

VARIABLES
    content,     \* content[c][i]: what D3 behind connection c stores as item i
    moved,       \* <<c, i>> that was written by others, by a save that failed, or
                 \* by one whose record was no longer shown (history)
    connection,  \* connection[p]: the settings profile p has now
    edits,       \* what others have done so far, counted
    server,      \* state.profile of the server
    switching,   \* the profile switchProfile is selecting, or None
    selected,    \* selectedProfile of the page
    shown,       \* the item input
    sequence,    \* editorReadSequence
    editor,      \* editorRecord of a loaded item, or None
    body,        \* itemBody: the draft
    savedBody,   \* itemBody.dataset.savedBody
    dialog,      \* the open dialog: what it decides, or None
    reads,       \* reads under way
    saves,       \* saves under way
    retyped      \* the item input was changed during a read (history)

dataVars == <<content, moved>>
serverVars == <<connection, edits, server>>
pageVars == <<shown, sequence, editor, body, savedBody, retyped>>
vars == <<content, moved, connection, edits, server, switching, selected, shown, sequence,
          editor, body, savedBody, dialog, reads, saves, retyped>>

TypeOK ==
    /\ content \in [Slots -> Values]
    /\ moved \subseteq Slots
    /\ connection \in [Profiles -> Connections]
    /\ edits \in 0 .. MaxEdits
    /\ server \in Profiles /\ selected \in Profiles
    /\ switching \in Profiles \cup {None}
    /\ shown \in Items \cup {None}
    /\ sequence \in 0 .. MaxReads
    /\ editor \in Records \cup {None}
    /\ body \in Values \cup {None} /\ savedBody \in Values \cup {None}
    /\ editor = None => body = None /\ savedBody = None
    /\ dialog \in {None} \cup Dialogs
    /\ reads \subseteq Reads
    /\ \A r \in reads : r.id <= sequence
    /\ saves \subseteq Saves
    /\ retyped \in BOOLEAN

Init ==
    /\ content \in Contents
    /\ moved = {}
    /\ connection = Settings
    /\ edits = 0
    /\ server \in Profiles /\ selected = server /\ switching = None
    /\ shown = None /\ sequence = 0 /\ editor = None
    /\ body = None /\ savedBody = None
    /\ dialog = None /\ reads = {} /\ saves = {} /\ retyped = FALSE

HasDraft == editor # None /\ body # savedBody
Saving(id) == \E s \in saves : s.id = id

-----------------------------------------------------------------------------
(* The operator moves on *)

\* resetEditorSelection
Reset ==
    /\ sequence < MaxReads
    /\ sequence' = sequence + 1
    /\ editor' = None /\ body' = None /\ savedBody' = None /\ retyped' = FALSE

\* readSelectedItem behind its confirmation: an older read will be ignored.
BeginRead(item) ==
    reads' = reads \cup {[id |-> sequence', profile |-> selected, item |-> item,
                          answer |-> None]}

\* Without a draft, or when it is discarded: an item is clicked (or read
\* again), the file or section is left, or another profile is chosen.
Go(move) ==
    /\ Reset
    /\ CASE move.to = "item" -> shown' = move.arg /\ BeginRead(move.arg) /\ UNCHANGED switching
         [] move.to = "nothing" -> shown' = None /\ UNCHANGED <<reads, switching>>
         [] move.to = "profile" -> shown' = None /\ switching' = move.arg /\ UNCHANGED reads

\* Mutant: only another item asks for the draft.
LeaveUnasked(move) ==
    /\ dialog = None
    /\ move.to = "profile" => move.arg # selected /\ switching = None
    /\ IF HasDraft /\ move.to = "item"
       THEN dialog' = [ask |-> "discard", move |-> move]
            /\ UNCHANGED <<switching, reads>> /\ UNCHANGED pageVars
       ELSE Go(move) /\ UNCHANGED dialog
    /\ UNCHANGED <<selected, saves>> /\ UNCHANGED dataVars /\ UNCHANGED serverVars

\* confirmEditorDiscard
Leave(move) ==
    /\ dialog = None
    /\ move.to = "profile" => move.arg # selected /\ switching = None
    /\ IF HasDraft
       THEN dialog' = [ask |-> "discard", move |-> move]
            /\ UNCHANGED <<switching, reads>> /\ UNCHANGED pageVars
       ELSE Go(move) /\ UNCHANGED dialog
    /\ UNCHANGED <<selected, saves>> /\ UNCHANGED dataVars /\ UNCHANGED serverVars

Discard ==
    /\ dialog # None /\ dialog.ask = "discard"
    /\ dialog' = None
    /\ Go(dialog.move)
    /\ UNCHANGED <<selected, saves>> /\ UNCHANGED dataVars /\ UNCHANGED serverVars

\* Escape, Cancel, or a click beside either dialog.
Keep ==
    /\ dialog # None /\ dialog' = None
    /\ UNCHANGED <<selected, switching, reads, saves>>
    /\ UNCHANGED pageVars /\ UNCHANGED dataVars /\ UNCHANGED serverVars

\* The item input can be typed in until an item is loaded; it matters here
\* while a read is under way.
Retype(item) ==
    /\ dialog = None /\ editor = None
    /\ \E r \in reads : r.id = sequence
    /\ shown' = item /\ shown # item
    /\ retyped' = TRUE
    /\ UNCHANGED <<sequence, editor, body, savedBody, selected, switching, dialog, reads, saves>>
    /\ UNCHANGED dataVars /\ UNCHANGED serverVars

\* switchProfile: POST /api/profile is handled ...
ServerSelects ==
    /\ switching # None
    /\ server' = switching /\ switching' = None
    /\ UNCHANGED <<connection, edits, selected, dialog, reads, saves>>
    /\ UNCHANGED pageVars /\ UNCHANGED dataVars

\* ... and boot() takes what the server has selected; it also runs after a
\* profile form, or when the workspace is refreshed.
Boot ==
    /\ selected' = server /\ selected # server
    /\ UNCHANGED <<switching, dialog, reads, saves>>
    /\ UNCHANGED pageVars /\ UNCHANGED dataVars /\ UNCHANGED serverVars

-----------------------------------------------------------------------------
(* Reading *)

\* GET /api/record, and GET /api/item when lossless access is unavailable.
ServerReads(r, readOnly) ==
    /\ r.answer = None /\ r.profile = server
    /\ LET c == connection[server] IN
       reads' = (reads \ {r}) \cup
           {[r EXCEPT !.answer = [connection |-> c, value |-> content[<<c, r.item>>],
                                  readOnly |-> readOnly]]}
    /\ UNCHANGED <<selected, switching, dialog, saves>>
    /\ UNCHANGED pageVars /\ UNCHANGED dataVars /\ UNCHANGED serverVars

\* Mutant: whatever answer arrives is shown.
ReadAnswersLate(r) ==
    /\ r.answer # None
    /\ reads' = reads \ {r}
    /\ editor' = [id |-> r.id, profile |-> r.profile, item |-> r.item,
                  connection |-> r.answer.connection, original |-> r.answer.value,
                  readOnly |-> r.answer.readOnly]
    /\ body' = r.answer.value /\ savedBody' = r.answer.value
    /\ UNCHANGED <<shown, sequence, retyped, selected, switching, dialog, saves>>
    /\ UNCHANGED dataVars /\ UNCHANGED serverVars

\* The answer is shown if nothing newer was asked for under the same profile.
ReadAnswers(r) ==
    /\ r.answer # None
    /\ reads' = reads \ {r}
    /\ IF r.id = sequence /\ r.profile = selected
       THEN /\ editor' = [id |-> r.id, profile |-> r.profile, item |-> r.item,
                          connection |-> r.answer.connection,
                          original |-> r.answer.value, readOnly |-> r.answer.readOnly]
            /\ body' = r.answer.value /\ savedBody' = r.answer.value
       ELSE UNCHANGED <<editor, body, savedBody>>
    /\ UNCHANGED <<shown, sequence, retyped, selected, switching, dialog, saves>>
    /\ UNCHANGED dataVars /\ UNCHANGED serverVars

\* The profile is not the one the server has selected, or D3 failed.
ReadFails(r) ==
    /\ r.answer = None
    /\ reads' = reads \ {r}
    /\ UNCHANGED <<selected, switching, dialog, saves>>
    /\ UNCHANGED pageVars /\ UNCHANGED dataVars /\ UNCHANGED serverVars

-----------------------------------------------------------------------------
(* Editing and saving *)

Type(value) ==
    /\ dialog = None /\ editor # None /\ ~editor.readOnly
    /\ body' = value /\ body # value
    /\ UNCHANGED <<shown, sequence, editor, savedBody, retyped>>
    /\ UNCHANGED <<selected, switching, dialog, reads, saves>>
    /\ UNCHANGED dataVars /\ UNCHANGED serverVars

\* saveSelectedRecord up to its dialog: the replacement is what is shown now.
PressSave ==
    /\ dialog = None /\ editor # None /\ ~editor.readOnly
    /\ ~Saving(editor.id)
    /\ editor.profile = selected
    /\ dialog' = [ask |-> "save", replacement |-> body]
    /\ UNCHANGED <<selected, switching, reads, saves>>
    /\ UNCHANGED pageVars /\ UNCHANGED dataVars /\ UNCHANGED serverVars

ApproveSave ==
    /\ dialog # None /\ dialog.ask = "save"
    /\ dialog' = None
    /\ saves' = saves \cup
           {[id |-> editor.id, profile |-> editor.profile, item |-> editor.item,
             connection |-> editor.connection, expected |-> editor.original,
             replacement |-> dialog.replacement, stored |-> savedBody, step |-> "sent"]}
    /\ UNCHANGED <<selected, switching, reads>>
    /\ UNCHANGED pageVars /\ UNCHANGED dataVars /\ UNCHANGED serverVars

Answered(s) == s.step \in {"saved", "failed"}
IsShown(s) == editor # None /\ editor.id = s.id
Step(s, step) == saves' = (saves \ {s}) \cup {[s EXCEPT !.step = step]}

\* PUT /api/record: the connection must be selected and as it was read from.
ServerAccepts(s) ==
    /\ s.step = "sent"
    /\ IF s.profile = server /\ s.connection = connection[server]
       THEN Step(s, "accepted") ELSE Step(s, "failed")
    /\ UNCHANGED <<selected, switching, dialog, reads>>
    /\ UNCHANGED pageVars /\ UNCHANGED dataVars /\ UNCHANGED serverVars

\* Mutant: the expected content is not compared.
ServerWritesOver(s, certain) ==
    /\ s.step = "accepted"
    /\ content' = [content EXCEPT ![<<s.connection, s.item>>] = s.replacement]
    /\ moved' = IF certain /\ IsShown(s) THEN moved ELSE moved \cup {<<s.connection, s.item>>}
    /\ Step(s, IF certain THEN "saved" ELSE "failed")
    /\ UNCHANGED <<selected, switching, dialog, reads>>
    /\ UNCHANGED pageVars /\ UNCHANGED serverVars

\* Compare and replace on D3 (saveEditorRecord); an uncertain end is a failure
\* to the page.
ServerWrites(s, certain) ==
    /\ s.step = "accepted"
    /\ content[<<s.connection, s.item>>] = s.expected
    /\ content' = [content EXCEPT ![<<s.connection, s.item>>] = s.replacement]
    /\ moved' = IF certain /\ IsShown(s) THEN moved ELSE moved \cup {<<s.connection, s.item>>}
    /\ Step(s, IF certain THEN "saved" ELSE "failed")
    /\ UNCHANGED <<selected, switching, dialog, reads>>
    /\ UNCHANGED pageVars /\ UNCHANGED serverVars

\* CONFLICT, BUSY, not permitted, or the transport failed before the write.
ServerRefuses(s) ==
    /\ s.step = "accepted"
    /\ Step(s, "failed")
    /\ UNCHANGED <<selected, switching, dialog, reads>>
    /\ UNCHANGED pageVars /\ UNCHANGED dataVars /\ UNCHANGED serverVars

\* Mutant: everything that is shown counts as saved.
SaveAnswersAll(s) ==
    /\ Answered(s)
    /\ saves' = saves \ {s}
    /\ IF s.step = "saved" /\ IsShown(s)
       THEN /\ editor' = [editor EXCEPT !.original = s.replacement]
            /\ savedBody' = body
       ELSE UNCHANGED <<editor, savedBody>>
    /\ UNCHANGED <<shown, sequence, body, retyped, selected, switching, dialog, reads>>
    /\ UNCHANGED dataVars /\ UNCHANGED serverVars

\* The answer: a success moves the baseline of the record that was saved.
SaveAnswers(s) ==
    /\ Answered(s)
    /\ saves' = saves \ {s}
    /\ IF s.step = "saved" /\ IsShown(s)
       THEN /\ editor' = [editor EXCEPT !.original = s.replacement]
            /\ savedBody' = s.replacement
       ELSE UNCHANGED <<editor, savedBody>>
    /\ UNCHANGED <<shown, sequence, body, retyped, selected, switching, dialog, reads>>
    /\ UNCHANGED dataVars /\ UNCHANGED serverVars

-----------------------------------------------------------------------------
(* Others *)

OtherWrites(slot, value) ==
    /\ edits < MaxEdits /\ edits' = edits + 1
    /\ content' = [content EXCEPT ![slot] = value] /\ content[slot] # value
    /\ moved' = moved \cup {slot}
    /\ UNCHANGED <<connection, server, selected, switching, dialog, reads, saves>>
    /\ UNCHANGED pageVars

\* PUT /api/profile/manage by another user; a fingerprint covers the name.
OtherEditsProfile(p, c) ==
    /\ edits < MaxEdits /\ edits' = edits + 1
    /\ \A other \in Profiles : connection[other] # c
    /\ connection' = [connection EXCEPT ![p] = c]
    /\ UNCHANGED <<server, selected, switching, dialog, reads, saves>>
    /\ UNCHANGED pageVars /\ UNCHANGED dataVars

\* The same user selects a profile in another tab.
OtherSelects(p) ==
    /\ edits < MaxEdits /\ edits' = edits + 1
    /\ server' = p /\ server # p
    /\ UNCHANGED <<connection, selected, switching, dialog, reads, saves>>
    /\ UNCHANGED pageVars /\ UNCHANGED dataVars

Next ==
    \/ \E move \in Moves : Leave(move)
    \/ Discard \/ Keep \/ ServerSelects \/ Boot \/ PressSave \/ ApproveSave
    \/ \E i \in Items : Retype(i)
    \/ \E v \in Values : Type(v)
    \/ \E r \in reads :
          ReadAnswers(r) \/ ReadFails(r) \/ \E readOnly \in BOOLEAN : ServerReads(r, readOnly)
    \/ \E s \in saves :
          \/ ServerAccepts(s) \/ ServerRefuses(s) \/ SaveAnswers(s)
          \/ \E certain \in BOOLEAN : ServerWrites(s, certain)
    \/ \E slot \in Slots, v \in Values : OtherWrites(slot, v)
    \/ \E p \in Profiles, c \in Connections : OtherEditsProfile(p, c)
    \/ \E p \in Profiles : OtherSelects(p)

Spec == Init /\ [][Next]_vars

-----------------------------------------------------------------------------
(* Properties *)

\* What the page has loaded is what was asked for last, however late the
\* answers of other reads come: the agent is told the item of the draft, and a
\* save goes to the item that is shown.  (Unless the item input was changed
\* while the read was under way; it is read-only only once the item is there.)
LoadedIsLatest ==
    editor # None => editor.id = sequence /\ (shown = editor.item \/ retyped)

\* "No unsaved changes." is true of D3: when the page shows no draft and no
\* save is under way, D3 stores what is shown, unless somebody else wrote the
\* item, a save ended in an error, or one of an earlier reading came late.
CleanIsStored ==
    editor # None /\ ~HasDraft /\ ~Saving(editor.id) =>
        \/ content[<<editor.connection, editor.item>>] = body
        \/ <<editor.connection, editor.item>> \in moved

\* "unsaved changes require a decision: prevent source leaking between items
\* or silently losing a draft" (docs/evidence/2026-10-26-program-code-editor):
\* a draft disappears only when the operator discards it or saves it.
DraftsNeedDecision ==
    [][HasDraft /\ (editor' = None \/ editor'.id # editor.id)
          => dialog # None /\ dialog.ask = "discard"]_vars

\* A save never destroys what the operator has not seen: what it replaces is
\* what the page showed as stored when it was approved, on the D3 it was read
\* from, whoever wrote, edited or switched in between.
ReplacesWhatWasShown ==
    [][\A s \in saves :
          (s.step = "accepted" /\ \E t \in saves' : t.id = s.id /\ t.step = "saved")
              => content[<<s.connection, s.item>>] = s.stored]_vars
=============================================================================

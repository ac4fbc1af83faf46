------------------------- MODULE EditorClientProofs -------------------------
(***************************************************************************)
(* That the page shows the record it was asked for last, and shows it as   *)
(* stored when it is, and that saves and moves of the operator take no     *)
(* draft and no content unseen, for any number of profiles, items, reads   *)
(* and saves.                                                              *)
(***************************************************************************)
EXTENDS EditorClient, TLAPS

\* What is in the editor of a loaded record: its draft, and its original.
BodyOfRecord == editor # None => body \in Values /\ savedBody = editor.original

\* A read is under way once.
ReadOnce == \A r, t \in reads : r.id = t.id => r = t

\* A record is being saved once, after it has been read.
SaveOnce ==
    /\ \A s, t \in saves : s.id = t.id => s = t
    /\ \A s \in saves : s.id <= sequence
    /\ \A s \in saves : \A r \in reads : s.id # r.id

\* What is loaded has been read last.  While the newest read is under way nothing
\* is loaded, and what it reads is in the item input.
NewestRead ==
    /\ editor # None => editor.id = sequence /\ (shown = editor.item \/ retyped)
    /\ \A r \in reads : r.id = sequence => editor = None /\ (shown = r.item \/ retyped)

\* A dialog is about a loaded record; that of a save is open before the save.
DialogOnRecord ==
    dialog # None => editor # None /\ (dialog.ask = "save" => ~Saving(editor.id))

\* A save replaces what the page showed as stored; while its record is shown
\* the editor goes on showing that.
SavesReplaceShown ==
    \A s \in saves :
        /\ s.expected = s.stored
        /\ IsShown(s) => /\ s.item = editor.item /\ s.connection = editor.connection
                         /\ s.expected = editor.original

\* What D3 stores of the shown record: its original, or what has been saved;
\* and what it stores of the one being loaded: what has been read.
StoredAsKnown ==
    /\ editor # None /\ <<editor.connection, editor.item>> \notin moved =>
          LET stored == content[<<editor.connection, editor.item>>] IN
          /\ ~Saving(editor.id) => stored = editor.original
          /\ \A s \in saves : s.id = editor.id =>
                stored = IF s.step = "saved" THEN s.replacement ELSE editor.original
    /\ \A r \in reads : r.id = sequence /\ r.answer # None
          /\ <<r.answer.connection, r.item>> \notin moved =>
              content[<<r.answer.connection, r.item>>] = r.answer.value

Inv == /\ TypeOK /\ BodyOfRecord /\ ReadOnce /\ SaveOnce /\ NewestRead
       /\ DialogOnRecord /\ SavesReplaceShown /\ StoredAsKnown

-----------------------------------------------------------------------------
(* The operator moves on *)

\* Who only moves the dialog, and opens it for a record that is not saving.
LEMMA DialogMoves ==
    ASSUME Inv, dialog' \in {None} \cup Dialogs,
           dialog' # None => editor # None /\ (dialog'.ask = "save" => ~Saving(editor.id)),
           UNCHANGED <<selected, switching, reads, saves>>, UNCHANGED pageVars,
           UNCHANGED dataVars, UNCHANGED serverVars
    PROVE  Inv'
BY DEF Inv, TypeOK, BodyOfRecord, ReadOnce, SaveOnce, NewestRead, DialogOnRecord,
       SavesReplaceShown, StoredAsKnown, pageVars, dataVars, serverVars, Saving, IsShown

\* Leaving a record, for another or none, keeps the invariant.
LEMMA GoStep ==
    ASSUME Inv, NEW move \in Moves, Go(move), dialog' = None,
           UNCHANGED <<selected, saves>>, UNCHANGED dataVars, UNCHANGED serverVars
    PROVE  Inv'
<1> USE EditorAssumption
<1>1. /\ sequence < MaxReads /\ sequence' = sequence + 1 /\ sequence \in 0 .. MaxReads
      /\ editor' = None /\ body' = None /\ savedBody' = None /\ retyped' = FALSE
  BY DEF Go, Reset, Inv, TypeOK
<1>2. /\ shown' \in Items \cup {None}
      /\ switching' \in Profiles \cup {None}
      /\ \/ reads' = reads
         \/ /\ move.to = "item" /\ move.arg \in Items /\ shown' = move.arg
            /\ BeginRead(move.arg)
  <2>1. CASE move.to = "item"
    BY <2>1 DEF Go, Moves, Inv, TypeOK
  <2>2. CASE move.to = "nothing"
    BY <2>2 DEF Go, Moves, Inv, TypeOK
  <2>3. CASE move.to = "profile"
    BY <2>3 DEF Go, Moves, Inv, TypeOK
  <2> QED
    BY <2>1, <2>2, <2>3 DEF Moves
<1>3. \A r \in reads' : \/ r \in reads
                         \/ /\ r.id = sequence' /\ r.item = shown' /\ r.answer = None
                            /\ r \in Reads
                            /\ \A t \in reads' : t.id = sequence' => t = r
  <2>1. CASE reads' = reads
    BY <2>1
  <2>2. CASE move.arg \in Items /\ shown' = move.arg /\ BeginRead(move.arg)
    <3> DEFINE new == [id |-> sequence', profile |-> selected, item |-> move.arg,
                       answer |-> None]
    <3>1. new \in Reads
      BY <1>1, <2>2 DEF Reads, Inv, TypeOK
    <3>2. reads' = reads \cup {new}
      BY <2>2 DEF BeginRead
    <3>3. \A t \in reads : t.id # sequence'
      BY <1>1 DEF Inv, TypeOK, Reads
    <3> QED
      BY <2>2, <3>1, <3>2, <3>3
  <2> QED
    BY <1>2, <2>1, <2>2
<1>4. \A r \in reads : r.id < sequence' /\ r \in Reads
  BY <1>1 DEF Inv, TypeOK, Reads
<1>5. TypeOK'
  <2>1. reads' \subseteq Reads /\ \A r \in reads' : r.id <= sequence'
    BY <1>1, <1>3, <1>4 DEF Reads
  <2>2. sequence' \in 0 .. MaxReads
    BY <1>1
  <2>3. UNCHANGED <<content, moved, connection, edits, server, selected, saves>>
    BY DEF dataVars, serverVars
  <2> QED
    BY <1>1, <1>2, <2>1, <2>2, <2>3 DEF Inv, TypeOK
<1>6. BodyOfRecord' /\ DialogOnRecord'
  BY <1>1 DEF BodyOfRecord, DialogOnRecord
<1>7. ReadOnce'
  BY <1>3 DEF ReadOnce, Inv
<1>8. SaveOnce'
  <2>1. \A s \in saves : s.id <= sequence /\ s.id \in Nat
    BY DEF Inv, SaveOnce, TypeOK, Saves
  <2> QED
    BY <1>1, <1>3, <2>1 DEF SaveOnce, Inv
<1>9. NewestRead'
  BY <1>1, <1>3, <1>4 DEF NewestRead
<1>10. SavesReplaceShown'
  BY <1>1 DEF SavesReplaceShown, IsShown, Inv
<1>11. StoredAsKnown'
  BY <1>1, <1>3, <1>4 DEF StoredAsKnown
<1> QED
  BY <1>5, <1>6, <1>7, <1>8, <1>9, <1>10, <1>11 DEF Inv

\* Leave asks when there is a draft, and goes otherwise.
LEMMA LeaveStep ==
    ASSUME Inv, NEW move \in Moves, Leave(move)
    PROVE  Inv'
<1>1. CASE HasDraft
  <2>1. dialog' = [ask |-> "discard", move |-> move] /\ editor # None
    BY <1>1 DEF Leave, HasDraft
  <2>2. dialog' \in Dialogs /\ dialog'.ask # "save"
    BY <2>1 DEF Dialogs
  <2> QED
    BY <1>1, <2>1, <2>2, DialogMoves DEF Leave
<1>2. CASE ~HasDraft
  BY <1>2, GoStep DEF Leave
<1> QED
  BY <1>1, <1>2

\* Discard goes where the dialog was asked about.
LEMMA DiscardStep ==
    ASSUME Inv, Discard
    PROVE  Inv'
<1>1. dialog.move \in Moves
  BY DEF Discard, Inv, TypeOK, Dialogs
<1> QED
  BY <1>1, GoStep DEF Discard

\* What is typed into the item input during a read is remembered as such.
LEMMA RetypeStep ==
    ASSUME Inv, NEW item \in Items, Retype(item)
    PROVE  Inv'
BY DEF Retype, Inv, TypeOK, BodyOfRecord, ReadOnce, SaveOnce, NewestRead, DialogOnRecord,
       SavesReplaceShown, StoredAsKnown, dataVars, serverVars, Saving, IsShown

\* Who selects a profile or edits one leaves the page and the stored alone.
LEMMA ProfilesMove ==
    ASSUME Inv, connection' \in [Profiles -> Connections], edits' \in 0 .. MaxEdits,
           server' \in Profiles, selected' \in Profiles, switching' \in Profiles \cup {None},
           UNCHANGED <<dialog, reads, saves>>, UNCHANGED pageVars, UNCHANGED dataVars
    PROVE  Inv'
BY DEF Inv, TypeOK, BodyOfRecord, ReadOnce, SaveOnce, NewestRead, DialogOnRecord,
       SavesReplaceShown, StoredAsKnown, pageVars, dataVars, Saving, IsShown

-----------------------------------------------------------------------------
(* Reading *)

\* What the server reads is what D3 stores.
LEMMA ServerReadsStep ==
    ASSUME Inv, NEW r \in reads, NEW readOnly \in BOOLEAN, ServerReads(r, readOnly)
    PROVE  Inv'
<1> DEFINE c == connection[server]
           answer == [connection |-> c, value |-> content[<<c, r.item>>],
                      readOnly |-> readOnly]
           new == [r EXCEPT !.answer = answer]
<1>1. /\ reads' = (reads \ {r}) \cup {new}
      /\ UNCHANGED <<selected, switching, dialog, saves, content, moved, connection, edits,
                     server, shown, sequence, editor, body, savedBody, retyped>>
  BY DEF ServerReads, pageVars, dataVars, serverVars
<1>2. r \in Reads /\ r.id <= sequence
  BY DEF Inv, TypeOK
<1>3. answer \in Answers
  <2>1. c \in Connections /\ r.item \in Items
    BY <1>2 DEF Inv, TypeOK, Reads
  <2>2. content[<<c, r.item>>] \in Values
    BY <2>1 DEF Inv, TypeOK, Slots
  <2> QED
    BY <2>1, <2>2 DEF Answers
<1>4. new \in Reads /\ new.id = r.id /\ new.item = r.item /\ new.answer = answer
  BY <1>2, <1>3 DEF Reads
<1>5. content[<<new.answer.connection, new.item>>] = new.answer.value
  BY <1>4
<1> HIDE DEF new
<1>6. TypeOK'
  BY <1>1, <1>2, <1>4 DEF Inv, TypeOK
<1>7. BodyOfRecord' /\ DialogOnRecord' /\ SavesReplaceShown'
  BY <1>1 DEF Inv, BodyOfRecord, DialogOnRecord, SavesReplaceShown, IsShown, Saving
<1>8. ReadOnce' /\ SaveOnce'
  BY <1>1, <1>4 DEF Inv, ReadOnce, SaveOnce
<1>9. NewestRead'
  BY <1>1, <1>4 DEF Inv, NewestRead
<1>10. StoredAsKnown'
  BY <1>1, <1>5 DEF Inv, StoredAsKnown, Saving
<1> QED
  BY <1>6, <1>7, <1>8, <1>9, <1>10 DEF Inv

\* A read that fails, or whose answer is not shown, is over.
LEMMA ReadEnds ==
    ASSUME Inv, NEW r \in reads, reads' = reads \ {r},
           UNCHANGED <<selected, switching, dialog, saves>>, UNCHANGED pageVars,
           UNCHANGED dataVars, UNCHANGED serverVars
    PROVE  Inv'
BY DEF Inv, TypeOK, BodyOfRecord, ReadOnce, SaveOnce, NewestRead, DialogOnRecord,
       SavesReplaceShown, StoredAsKnown, pageVars, dataVars, serverVars, Saving, IsShown

\* The answer to the newest read is shown: it is of the item in the input, no
\* save of it is under way, and it is what D3 stores.
LEMMA ReadShows ==
    ASSUME Inv, NEW r \in reads, ReadAnswers(r), r.id = sequence, r.profile = selected
    PROVE  Inv'
<1> DEFINE loaded == [id |-> r.id, profile |-> r.profile, item |-> r.item,
                      connection |-> r.answer.connection,
                      original |-> r.answer.value, readOnly |-> r.answer.readOnly]
<1> USE EditorAssumption
<1>1. /\ reads' = reads \ {r} /\ editor' = loaded
      /\ body' = r.answer.value /\ savedBody' = r.answer.value
      /\ UNCHANGED <<shown, sequence, retyped, selected, switching, dialog, saves,
                     content, moved, connection, edits, server>>
  BY DEF ReadAnswers, dataVars, serverVars
<1>2. r \in Reads /\ r.answer \in Answers
  BY DEF ReadAnswers, Inv, TypeOK, Reads
<1>3. /\ loaded \in Records
      /\ loaded.id = sequence /\ loaded.item = r.item
      /\ loaded.connection = r.answer.connection /\ loaded.original = r.answer.value
  BY <1>2 DEF Reads, Answers, Records
<1>4. loaded # None /\ r.answer.value \in Values /\ r.answer # None
  BY <1>2, <1>3 DEF Answers
<1>5. editor = None /\ (shown = r.item \/ retyped) /\ dialog = None
  BY DEF Inv, NewestRead, DialogOnRecord
<1>6. \A s \in saves : s.id # sequence
  BY DEF Inv, SaveOnce
<1>7. \A t \in reads' : t.id # sequence
  BY <1>1 DEF Inv, ReadOnce
<1> HIDE DEF loaded
<1>8. TypeOK'
  BY <1>1, <1>3, <1>4 DEF Inv, TypeOK
<1>9. BodyOfRecord' /\ DialogOnRecord' /\ NewestRead'
  BY <1>1, <1>3, <1>4, <1>5, <1>7 DEF BodyOfRecord, DialogOnRecord, NewestRead
<1>10. ReadOnce' /\ SaveOnce'
  BY <1>1 DEF Inv, ReadOnce, SaveOnce
<1>11. SavesReplaceShown'
  BY <1>1, <1>3, <1>6 DEF Inv, SavesReplaceShown, IsShown
<1>12. StoredAsKnown'
  <2>1. <<r.answer.connection, r.item>> \notin moved =>
            content[<<r.answer.connection, r.item>>] = r.answer.value
    BY <1>4 DEF Inv, StoredAsKnown
  <2> QED
    BY <1>1, <1>3, <1>6, <1>7, <2>1 DEF StoredAsKnown, Saving
<1> QED
  BY <1>8, <1>9, <1>10, <1>11, <1>12 DEF Inv

\* The answer to a read is shown, or the read is over.
LEMMA ReadAnswersStep ==
    ASSUME Inv, NEW r \in reads, ReadAnswers(r)
    PROVE  Inv'
<1>1. CASE r.id = sequence /\ r.profile = selected
  BY <1>1, ReadShows
<1>2. CASE ~(r.id = sequence /\ r.profile = selected)
  BY <1>2, ReadEnds DEF ReadAnswers, pageVars
<1> QED
  BY <1>1, <1>2

-----------------------------------------------------------------------------
(* Editing and saving *)

\* Typing changes nothing but the draft.
LEMMA TypeStep ==
    ASSUME Inv, NEW value \in Values, Type(value)
    PROVE  Inv'
BY DEF Type, Inv, TypeOK, BodyOfRecord, ReadOnce, SaveOnce, NewestRead, DialogOnRecord,
       SavesReplaceShown, StoredAsKnown, dataVars, serverVars, Saving, IsShown

\* The dialog of a save opens for a record that is not being saved.
LEMMA PressSaveStep ==
    ASSUME Inv, PressSave
    PROVE  Inv'
<1>1. dialog' = [ask |-> "save", replacement |-> body] /\ editor # None /\ ~Saving(editor.id)
  BY DEF PressSave
<1>2. dialog' \in Dialogs
  BY <1>1 DEF Dialogs, Inv, BodyOfRecord
<1> QED
  BY <1>1, <1>2, DialogMoves DEF PressSave

\* An approved save is of the record the page shows, as it shows it.
LEMMA ApproveSaveStep ==
    ASSUME Inv, ApproveSave
    PROVE  Inv'
<1> DEFINE new == [id |-> editor.id, profile |-> editor.profile, item |-> editor.item,
                   connection |-> editor.connection, expected |-> editor.original,
                   replacement |-> dialog.replacement, stored |-> savedBody,
                   step |-> "sent"]
<1>1. /\ saves' = saves \cup {new} /\ dialog' = None
      /\ UNCHANGED <<selected, switching, reads, content, moved, connection, edits, server,
                     shown, sequence, editor, body, savedBody, retyped>>
  BY DEF ApproveSave, pageVars, dataVars, serverVars
<1>2. editor # None /\ ~Saving(editor.id) /\ editor \in Records
      /\ dialog.replacement \in Values
  BY DEF ApproveSave, Inv, TypeOK, DialogOnRecord, Dialogs
<1>3. editor.id = sequence /\ sequence \in Nat /\ savedBody = editor.original
      /\ \A r \in reads : r.id # sequence
  BY <1>2, EditorAssumption DEF Inv, NewestRead, TypeOK, BodyOfRecord
<1>4. new \in Saves
  BY <1>2, <1>3 DEF Records, Saves
<1>5. /\ new.id = editor.id /\ new.item = editor.item /\ new.connection = editor.connection
      /\ new.expected = editor.original /\ new.stored = editor.original
      /\ new.step = "sent"
  BY <1>3
<1> HIDE DEF new
<1>6. \A s \in saves : s.id # new.id
  BY <1>2, <1>5 DEF Saving
<1>7. TypeOK'
  BY <1>1, <1>4 DEF Inv, TypeOK
<1>8. BodyOfRecord' /\ DialogOnRecord' /\ ReadOnce' /\ NewestRead'
  BY <1>1 DEF Inv, BodyOfRecord, DialogOnRecord, ReadOnce, NewestRead
<1>9. SaveOnce'
  BY <1>1, <1>3, <1>5, <1>6 DEF Inv, SaveOnce
<1>10. SavesReplaceShown'
  BY <1>1, <1>5 DEF Inv, SavesReplaceShown, IsShown
<1>11. StoredAsKnown'
  BY <1>1, <1>2, <1>5 DEF Inv, StoredAsKnown, Saving
<1> QED
  BY <1>7, <1>8, <1>9, <1>10, <1>11 DEF Inv

\* A save that goes on, without a write, is the same save.
LEMMA StepOn ==
    ASSUME Inv, NEW s \in saves, NEW step \in {"accepted", "failed"}, Step(s, step),
           s.step # "saved",
           UNCHANGED <<selected, switching, dialog, reads>>, UNCHANGED pageVars,
           UNCHANGED dataVars, UNCHANGED serverVars
    PROVE  Inv'
<1> DEFINE new == [s EXCEPT !.step = step]
<1>1. /\ saves' = (saves \ {s}) \cup {new}
      /\ UNCHANGED <<selected, switching, reads, dialog, content, moved, connection, edits,
                     server, shown, sequence, editor, body, savedBody, retyped>>
  BY DEF Step, pageVars, dataVars, serverVars
<1>2. s \in Saves
  BY DEF Inv, TypeOK
<1>3. /\ new \in Saves /\ new.id = s.id /\ new.item = s.item
      /\ new.connection = s.connection /\ new.expected = s.expected
      /\ new.stored = s.stored /\ new.step = step
  BY <1>2 DEF Saves
<1> HIDE DEF new
<1>4. TypeOK'
  BY <1>1, <1>3 DEF Inv, TypeOK
<1>5. BodyOfRecord' /\ ReadOnce' /\ NewestRead'
  BY <1>1 DEF Inv, BodyOfRecord, ReadOnce, NewestRead
<1>6. SaveOnce' /\ DialogOnRecord'
  BY <1>1, <1>3 DEF Inv, SaveOnce, DialogOnRecord, Saving
<1>7. SavesReplaceShown'
  BY <1>1, <1>3 DEF Inv, SavesReplaceShown, IsShown
<1>8. StoredAsKnown'
  BY <1>1, <1>3 DEF Inv, StoredAsKnown, Saving
<1> QED
  BY <1>4, <1>5, <1>6, <1>7, <1>8 DEF Inv

\* A write replaces what was expected; who else shows its item is moved.
LEMMA ServerWritesStep ==
    ASSUME Inv, NEW s \in saves, NEW certain \in BOOLEAN, ServerWrites(s, certain)
    PROVE  Inv'
<1> DEFINE step == IF certain THEN "saved" ELSE "failed"
           new == [s EXCEPT !.step = step]
           slot == <<s.connection, s.item>>
<1>1. /\ saves' = (saves \ {s}) \cup {new}
      /\ content' = [content EXCEPT ![slot] = s.replacement]
      /\ moved' = IF certain /\ IsShown(s) THEN moved ELSE moved \cup {slot}
      /\ UNCHANGED <<selected, switching, reads, dialog, connection, edits,
                     server, shown, sequence, editor, body, savedBody, retyped>>
  BY DEF ServerWrites, Step, pageVars, serverVars
<1>2. s \in Saves /\ slot \in Slots
  BY DEF Inv, TypeOK, Saves, Slots
<1>3. /\ new \in Saves /\ new.id = s.id /\ new.item = s.item
      /\ new.connection = s.connection /\ new.expected = s.expected
      /\ new.stored = s.stored /\ new.step = step /\ new.replacement = s.replacement
  BY <1>2 DEF Saves
<1>4. /\ content' \in [Slots -> Values]
      /\ content'[slot] = s.replacement
      /\ \A other : slot # other /\ other \in Slots => content'[other] = content[other]
  BY <1>1, <1>2 DEF Inv, TypeOK, Saves
<1>5. moved \subseteq moved' /\ moved' \subseteq Slots
      /\ (slot \in moved' \/ (certain /\ IsShown(s)))
  BY <1>1, <1>2 DEF Inv, TypeOK
<1> HIDE DEF new, slot
<1>6. TypeOK'
  BY <1>1, <1>3, <1>4, <1>5 DEF Inv, TypeOK
<1>7. BodyOfRecord' /\ ReadOnce' /\ NewestRead'
  BY <1>1 DEF Inv, BodyOfRecord, ReadOnce, NewestRead
<1>8. SaveOnce' /\ DialogOnRecord'
  BY <1>1, <1>3 DEF Inv, SaveOnce, DialogOnRecord, Saving
<1>9. SavesReplaceShown'
  BY <1>1, <1>3 DEF Inv, SavesReplaceShown, IsShown
<1>10. ASSUME editor # None, <<editor.connection, editor.item>> \notin moved'
       PROVE  LET stored == content'[<<editor.connection, editor.item>>] IN
              /\ ~Saving(editor.id)' => stored = editor.original
              /\ \A t \in saves' : t.id = editor.id =>
                    stored = IF t.step = "saved" THEN t.replacement ELSE editor.original
  <2>1. <<editor.connection, editor.item>> \in Slots
    BY <1>10 DEF Inv, TypeOK, Records, Slots
  <2>2. CASE slot = <<editor.connection, editor.item>>
    <3>1. certain /\ IsShown(s)
      BY <1>5, <1>10, <2>2
    <3>2. new.step = "saved" /\ new.id = editor.id
      BY <1>3, <3>1 DEF IsShown
    <3>3. \A t \in saves' : t.id = editor.id => t = new
      BY <1>1, <1>3, <3>2 DEF Inv, SaveOnce
    <3> QED
      BY <1>1, <1>3, <1>4, <2>2, <3>2, <3>3 DEF Saving
  <2>3. CASE slot # <<editor.connection, editor.item>>
    <3>1. s.id # editor.id
      BY <1>10, <2>3 DEF Inv, SavesReplaceShown, IsShown, slot
    <3>2. content'[<<editor.connection, editor.item>>]
             = content[<<editor.connection, editor.item>>]
      BY <1>4, <2>1, <2>3
    <3>3. <<editor.connection, editor.item>> \notin moved
      BY <1>5, <1>10
    <3>4. \A t \in saves' : t.id = editor.id => t \in saves
      BY <1>1, <1>3, <3>1
    <3>5. ~Saving(editor.id)' => ~Saving(editor.id)
      BY <1>1, <3>1 DEF Saving
    <3> QED
      BY <1>10, <3>2, <3>3, <3>4, <3>5 DEF Inv, StoredAsKnown
  <2> QED
    BY <2>2, <2>3
<1>11. ASSUME NEW r \in reads, r.id = sequence, r.answer # None,
              <<r.answer.connection, r.item>> \notin moved'
       PROVE  content'[<<r.answer.connection, r.item>>] = r.answer.value
  <2>1. <<r.answer.connection, r.item>> \in Slots
    BY <1>11 DEF Inv, TypeOK, Reads, Answers, Slots
  <2>2. slot # <<r.answer.connection, r.item>>
    BY <1>5, <1>11 DEF Inv, NewestRead, IsShown
  <2> QED
    BY <1>4, <1>5, <1>11, <2>1, <2>2 DEF Inv, StoredAsKnown
<1>12. StoredAsKnown'
  BY <1>1, <1>10, <1>11 DEF StoredAsKnown
<1> QED
  BY <1>6, <1>7, <1>8, <1>9, <1>12 DEF Inv

\* A success makes what was saved the original of the record, if that is shown.
LEMMA SaveAnswersStep ==
    ASSUME Inv, NEW s \in saves, SaveAnswers(s)
    PROVE  Inv'
<1>1. /\ saves' = saves \ {s} /\ s.step \in {"saved", "failed"}
      /\ UNCHANGED <<selected, switching, reads, dialog, content, moved, connection, edits,
                     server, shown, sequence, body, retyped>>
  BY DEF SaveAnswers, Answered, dataVars, serverVars
<1>2. \A t \in saves' : t \in saves /\ t.id # s.id
  BY <1>1 DEF Inv, SaveOnce
<1>3. s \in Saves
  BY DEF Inv, TypeOK
<1>4. CASE s.step = "saved" /\ IsShown(s)
  <2> DEFINE after == [editor EXCEPT !.original = s.replacement]
  <2>1. editor' = after /\ savedBody' = s.replacement /\ s.replacement \in Values
        /\ editor # None /\ editor \in Records /\ editor.id = s.id
    BY <1>3, <1>4 DEF SaveAnswers, Saves, IsShown, Inv, TypeOK
  <2>2. /\ after \in Records /\ after.id = editor.id /\ after.item = editor.item
        /\ after.connection = editor.connection /\ after.original = s.replacement
    BY <2>1 DEF Records
  <2>3. after # None
    BY <2>2, EditorAssumption
  <2> HIDE DEF after
  <2>4. TypeOK' /\ BodyOfRecord'
    BY <1>1, <2>1, <2>2, <2>3 DEF Inv, TypeOK, BodyOfRecord
  <2>5. ReadOnce' /\ SaveOnce' /\ NewestRead' /\ DialogOnRecord'
    BY <1>1, <1>2, <2>1, <2>2, <2>3
    DEF Inv, ReadOnce, SaveOnce, NewestRead, DialogOnRecord, Saving
  <2>6. SavesReplaceShown'
    BY <1>2, <2>1, <2>2 DEF Inv, SavesReplaceShown, IsShown
  <2>7. StoredAsKnown'
    BY <1>1, <1>2, <1>4, <2>1, <2>2 DEF Inv, StoredAsKnown, Saving
  <2> QED
    BY <2>4, <2>5, <2>6, <2>7 DEF Inv
<1>5. CASE ~(s.step = "saved" /\ IsShown(s))
  <2>1. UNCHANGED <<editor, savedBody>>
    BY <1>5 DEF SaveAnswers
  <2>2. TypeOK' /\ BodyOfRecord' /\ ReadOnce' /\ SaveOnce' /\ NewestRead' /\ DialogOnRecord'
        /\ SavesReplaceShown'
    BY <1>1, <2>1 DEF Inv, TypeOK, BodyOfRecord, ReadOnce, SaveOnce, NewestRead,
       DialogOnRecord, SavesReplaceShown, Saving, IsShown
  <2>3. ASSUME editor # None, ~Saving(editor.id)',
               <<editor.connection, editor.item>> \notin moved
        PROVE  content[<<editor.connection, editor.item>>] = editor.original
    <3>1. CASE s.id = editor.id
      BY <1>1, <1>5, <2>3, <3>1 DEF Inv, StoredAsKnown, IsShown
    <3>2. CASE s.id # editor.id
      BY <1>1, <2>1, <2>3, <3>2 DEF Inv, StoredAsKnown, Saving
    <3> QED
      BY <3>1, <3>2
  <2>4. StoredAsKnown'
    BY <1>1, <2>1, <2>3 DEF Inv, StoredAsKnown, Saving
  <2> QED
    BY <2>2, <2>4 DEF Inv
<1> QED
  BY <1>4, <1>5

-----------------------------------------------------------------------------
(* Others, and all together *)

\* What others write is moved.
LEMMA OtherWritesStep ==
    ASSUME Inv, NEW slot \in Slots, NEW value \in Values, OtherWrites(slot, value)
    PROVE  Inv'
<1>1. /\ content' = [content EXCEPT ![slot] = value] /\ moved' = moved \cup {slot}
      /\ edits < MaxEdits /\ edits' = edits + 1
      /\ UNCHANGED <<connection, server, selected, switching, dialog, reads, saves,
                     shown, sequence, editor, body, savedBody, retyped>>
  BY DEF OtherWrites, pageVars
<1>2. edits' \in 0 .. MaxEdits
  BY <1>1, EditorAssumption DEF Inv, TypeOK
<1>3. content' \in [Slots -> Values] /\ \A other \in Slots \ moved' : content'[other] = content[other]
  BY <1>1 DEF Inv, TypeOK
<1>4. TypeOK'
  BY <1>1, <1>2, <1>3 DEF Inv, TypeOK
<1>5. BodyOfRecord' /\ ReadOnce' /\ SaveOnce' /\ NewestRead' /\ DialogOnRecord'
      /\ SavesReplaceShown'
  BY <1>1 DEF Inv, BodyOfRecord, ReadOnce, SaveOnce, NewestRead, DialogOnRecord,
     SavesReplaceShown, Saving, IsShown
<1>6. editor # None => <<editor.connection, editor.item>> \in Slots
  BY DEF Inv, TypeOK, Records, Slots
<1>7. \A r \in reads : r.answer # None => <<r.answer.connection, r.item>> \in Slots
  BY DEF Inv, TypeOK, Reads, Answers, Slots
<1>8. StoredAsKnown'
  BY <1>1, <1>3, <1>6, <1>7 DEF Inv, StoredAsKnown, Saving
<1> QED
  BY <1>4, <1>5, <1>8 DEF Inv

\* Every step keeps the invariant.
LEMMA InvStep ==
    ASSUME Inv, [Next]_vars
    PROVE  Inv'
<1> USE EditorAssumption
<1>1. ASSUME NEW move \in Moves, Leave(move)
      PROVE  Inv'
  BY <1>1, LeaveStep
<1>2. CASE Discard
  BY <1>2, DiscardStep
<1>3. CASE Keep
  BY <1>3, DialogMoves DEF Keep
<1>4. CASE ServerSelects
  BY <1>4, ProfilesMove DEF ServerSelects, Inv, TypeOK
<1>5. CASE Boot
  BY <1>5, ProfilesMove DEF Boot, serverVars, Inv, TypeOK
<1>6. CASE PressSave
  BY <1>6, PressSaveStep
<1>7. CASE ApproveSave
  BY <1>7, ApproveSaveStep
<1>8. ASSUME NEW i \in Items, Retype(i)
      PROVE  Inv'
  BY <1>8, RetypeStep
<1>9. ASSUME NEW v \in Values, Type(v)
      PROVE  Inv'
  BY <1>9, TypeStep
<1>10. ASSUME NEW r \in reads, ReadAnswers(r)
       PROVE  Inv'
  BY <1>10, ReadAnswersStep
<1>11. ASSUME NEW r \in reads, ReadFails(r)
       PROVE  Inv'
  BY <1>11, ReadEnds DEF ReadFails
<1>12. ASSUME NEW r \in reads, NEW readOnly \in BOOLEAN, ServerReads(r, readOnly)
       PROVE  Inv'
  BY <1>12, ServerReadsStep
<1>13. ASSUME NEW s \in saves, ServerAccepts(s)
       PROVE  Inv'
  BY <1>13, StepOn DEF ServerAccepts
<1>14. ASSUME NEW s \in saves, ServerRefuses(s)
       PROVE  Inv'
  BY <1>14, StepOn DEF ServerRefuses
<1>15. ASSUME NEW s \in saves, SaveAnswers(s)
       PROVE  Inv'
  BY <1>15, SaveAnswersStep
<1>16. ASSUME NEW s \in saves, NEW certain \in BOOLEAN, ServerWrites(s, certain)
       PROVE  Inv'
  BY <1>16, ServerWritesStep
<1>17. ASSUME NEW slot \in Slots, NEW v \in Values, OtherWrites(slot, v)
       PROVE  Inv'
  BY <1>17, OtherWritesStep
<1>18. ASSUME NEW p \in Profiles, NEW c \in Connections, OtherEditsProfile(p, c)
       PROVE  Inv'
  <2>1. edits' \in 0 .. MaxEdits /\ connection' \in [Profiles -> Connections]
    BY <1>18 DEF OtherEditsProfile, Inv, TypeOK
  <2> QED
    BY <1>18, <2>1, ProfilesMove DEF OtherEditsProfile, Inv, TypeOK
<1>19. ASSUME NEW p \in Profiles, OtherSelects(p)
       PROVE  Inv'
  <2>1. edits' \in 0 .. MaxEdits
    BY <1>19 DEF OtherSelects, Inv, TypeOK
  <2> QED
    BY <1>19, <2>1, ProfilesMove DEF OtherSelects, Inv, TypeOK
<1>20. CASE UNCHANGED vars
  BY <1>20, ProfilesMove DEF vars, pageVars, dataVars, Inv, TypeOK
<1> QED
  BY <1>1, <1>2, <1>3, <1>4, <1>5, <1>6, <1>7, <1>8, <1>9, <1>10, <1>11, <1>12, <1>13,
     <1>14, <1>15, <1>16, <1>17, <1>18, <1>19, <1>20 DEF Next

\* The invariant holds of every state the editor can reach.
THEOREM InductiveInvariant == Spec => []Inv
<1>1. Init => Inv
  <2> SUFFICES ASSUME Init PROVE Inv
    OBVIOUS
  <2>1. TypeOK
    <3>1. content \in [Slots -> Values] /\ connection \in [Profiles -> Connections]
      BY EditorAssumption DEF Init, Slots
    <3>2. edits \in 0 .. MaxEdits /\ sequence \in 0 .. MaxReads
      BY EditorAssumption DEF Init
    <3> QED
      BY <3>1, <3>2 DEF Init, TypeOK
  <2> QED
    BY <2>1 DEF Init, Inv, BodyOfRecord, ReadOnce, SaveOnce, NewestRead, DialogOnRecord,
       SavesReplaceShown, StoredAsKnown
<1> QED
  BY <1>1, InvStep, PTL DEF Spec

-----------------------------------------------------------------------------
(* The properties *)

\* TypeOK: every variable of the page and the server keeps its type.
THEOREM TypeCorrect == Spec => []TypeOK
<1>1. Inv => TypeOK
  BY DEF Inv
<1> QED
  BY <1>1, InductiveInvariant, PTL

\* LoadedIsLatest: the page has loaded what was asked for last, however late
\* the answers of other reads come.
THEOREM LatestIsShown == Spec => []LoadedIsLatest
<1>1. Inv => LoadedIsLatest
  <2> SUFFICES ASSUME Inv, editor # None
               PROVE  editor.id = sequence /\ (shown = editor.item \/ retyped)
    BY DEF LoadedIsLatest
  <2> QED
    BY DEF Inv, NewestRead
<1> QED
  BY <1>1, InductiveInvariant, PTL

\* CleanIsStored: without a draft and a save under way, D3 stores what the
\* page shows, unless the item was moved behind it.
THEOREM CleanPageIsTrue == Spec => []CleanIsStored
<1>1. Inv => CleanIsStored
  BY DEF Inv, BodyOfRecord, StoredAsKnown, CleanIsStored, HasDraft
<1> QED
  BY <1>1, InductiveInvariant, PTL

\* A step that takes the record of a draft away is a decision to discard it.
LEMMA DraftLeft ==
    ASSUME Inv, [Next]_vars, HasDraft, editor' = None \/ editor'.id # editor.id
    PROVE  dialog # None /\ dialog.ask = "discard"
<1>1. editor # None
  BY DEF HasDraft
<1>2. UNCHANGED editor => FALSE
  BY <1>1
<1>3. ASSUME NEW move \in Moves, Leave(move)
      PROVE  FALSE
  BY <1>2, <1>3 DEF Leave, pageVars
<1>4. ASSUME NEW r \in reads, ReadAnswers(r)
      PROVE  FALSE
  <2>1. r.id # sequence
    BY <1>1, <1>4 DEF Inv, NewestRead
  <2> QED
    BY <1>2, <1>4, <2>1 DEF ReadAnswers
<1>5. ASSUME NEW s \in saves, SaveAnswers(s)
      PROVE  FALSE
  <2>1. editor' = [editor EXCEPT !.original = s.replacement]
    BY <1>2, <1>5 DEF SaveAnswers
  <2>2. editor \in Records /\ s \in Saves
    BY <1>1 DEF Inv, TypeOK
  <2>3. editor' \in Records /\ editor'.id = editor.id
    BY <2>1, <2>2 DEF Records, Saves
  <2> QED
    BY <2>3, EditorAssumption
<1>6. CASE Discard
  BY <1>6 DEF Discard
<1>7. CASE Keep \/ ServerSelects \/ Boot \/ PressSave \/ ApproveSave \/ UNCHANGED vars
  BY <1>2, <1>7 DEF Keep, ServerSelects, Boot, PressSave, ApproveSave, pageVars, vars
<1>8. ASSUME NEW i \in Items, Retype(i)
      PROVE  FALSE
  BY <1>2, <1>8 DEF Retype
<1>9. ASSUME NEW v \in Values, Type(v)
      PROVE  FALSE
  BY <1>2, <1>9 DEF Type
<1>10. ASSUME NEW r \in reads,
              ReadFails(r) \/ \E readOnly \in BOOLEAN : ServerReads(r, readOnly)
       PROVE  FALSE
  BY <1>2, <1>10 DEF ReadFails, ServerReads, pageVars
<1>11. ASSUME NEW s \in saves,
              \/ ServerAccepts(s) \/ ServerRefuses(s)
              \/ \E certain \in BOOLEAN : ServerWrites(s, certain)
       PROVE  FALSE
  BY <1>2, <1>11 DEF ServerAccepts, ServerRefuses, ServerWrites, pageVars
<1>12. ASSUME NEW slot \in Slots, NEW v \in Values, OtherWrites(slot, v)
       PROVE  FALSE
  BY <1>2, <1>12 DEF OtherWrites, pageVars
<1>13. ASSUME NEW p \in Profiles,
              OtherSelects(p) \/ \E c \in Connections : OtherEditsProfile(p, c)
       PROVE  FALSE
  BY <1>2, <1>13 DEF OtherEditsProfile, OtherSelects, pageVars
<1> QED
  BY <1>3, <1>4, <1>5, <1>6, <1>7, <1>8, <1>9, <1>10, <1>11, <1>12, <1>13 DEF Next

\* DraftsNeedDecision: a draft disappears only when the operator discards or
\* saves it, whatever answers arrive meanwhile.
THEOREM DraftsAreKept == Spec => DraftsNeedDecision
<1>1. Inv /\ [Next]_vars =>
        [HasDraft /\ (editor' = None \/ editor'.id # editor.id)
            => dialog # None /\ dialog.ask = "discard"]_vars
  BY DraftLeft
<1> QED
  BY <1>1, InductiveInvariant, PTL DEF Spec, DraftsNeedDecision

\* Only a write that found what was expected makes a save a saved one.
LEMMA SavedByWrite ==
    ASSUME Inv, [Next]_vars, NEW s \in saves, s.step = "accepted",
           NEW t \in saves', t.id = s.id, t.step = "saved"
    PROVE  content[<<s.connection, s.item>>] = s.stored
<1>1. t \notin saves
  BY DEF Inv, SaveOnce
<1>2. UNCHANGED saves => FALSE
  BY <1>1
<1>3. ASSUME NEW o \in saves, NEW step, Step(o, step)
      PROVE  t.id = o.id /\ t.step = step
  <2>1. t = [o EXCEPT !.step = step]
    BY <1>1, <1>3 DEF Step
  <2>2. o \in Saves
    BY DEF Inv, TypeOK
  <2> QED
    BY <2>1, <2>2 DEF Saves
<1>4. ASSUME NEW o \in saves, NEW certain \in BOOLEAN, ServerWrites(o, certain)
      PROVE  content[<<s.connection, s.item>>] = s.stored
  <2>1. t.id = o.id
    BY <1>3, <1>4 DEF ServerWrites
  <2>2. o = s
    BY <2>1 DEF Inv, SaveOnce
  <2> QED
    BY <1>4, <2>2 DEF ServerWrites, Inv, SavesReplaceShown
<1>5. ASSUME NEW o \in saves, ServerAccepts(o) \/ ServerRefuses(o)
      PROVE  FALSE
  <2>1. t.step = "accepted" \/ t.step = "failed"
    BY <1>3, <1>5 DEF ServerAccepts, ServerRefuses
  <2> QED
    BY <2>1
<1>6. ASSUME NEW o \in saves, SaveAnswers(o)
      PROVE  FALSE
  BY <1>1, <1>6 DEF SaveAnswers
<1>7. CASE ApproveSave
  BY <1>1, <1>7 DEF ApproveSave
<1>8. CASE Discard \/ Keep \/ ServerSelects \/ Boot \/ PressSave \/ UNCHANGED vars
  BY <1>2, <1>8 DEF Discard, Keep, ServerSelects, Boot, PressSave, vars
<1>9. ASSUME NEW move \in Moves, Leave(move)
      PROVE  FALSE
  BY <1>2, <1>9 DEF Leave
<1>10. ASSUME NEW i \in Items, Retype(i)
       PROVE  FALSE
  BY <1>2, <1>10 DEF Retype
<1>11. ASSUME NEW v \in Values, Type(v)
       PROVE  FALSE
  BY <1>2, <1>11 DEF Type
<1>12. ASSUME NEW r \in reads,
              \/ ReadAnswers(r) \/ ReadFails(r)
              \/ \E readOnly \in BOOLEAN : ServerReads(r, readOnly)
       PROVE  FALSE
  BY <1>2, <1>12 DEF ReadAnswers, ReadFails, ServerReads
<1>13. ASSUME NEW slot \in Slots, NEW v \in Values, OtherWrites(slot, v)
       PROVE  FALSE
  BY <1>2, <1>13 DEF OtherWrites
<1>14. ASSUME NEW p \in Profiles,
              OtherSelects(p) \/ \E c \in Connections : OtherEditsProfile(p, c)
       PROVE  FALSE
  BY <1>2, <1>14 DEF OtherEditsProfile, OtherSelects
<1> QED
  BY <1>4, <1>5, <1>6, <1>7, <1>8, <1>9, <1>10, <1>11, <1>12, <1>13, <1>14 DEF Next

\* ReplacesWhatWasShown: a save that succeeds has replaced what the page showed
\* as stored when it was approved, whoever wrote or switched in between.
THEOREM NothingUnseenLost == Spec => ReplacesWhatWasShown
<1>1. Inv /\ [Next]_vars =>
        [\A s \in saves :
            (s.step = "accepted" /\ \E t \in saves' : t.id = s.id /\ t.step = "saved")
                => content[<<s.connection, s.item>>] = s.stored]_vars
  BY SavedByWrite
<1> QED
  BY <1>1, InductiveInvariant, PTL DEF Spec, ReplacesWhatWasShown
=============================================================================

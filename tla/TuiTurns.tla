------------------------------ MODULE TuiTurns ------------------------------
(***************************************************************************)
(* The terminal user interface (App): lines entered at the prompt become   *)
(* turns, lines entered during a turn wait in the module's queue, and an   *)
(* interrupt gives the prompt back before the turn has unwound.            *)
(*                                                                         *)
(* A turn is an asynchronous function that closed over the settings and    *)
(* messages of one rendering.  A turn that ends starts the next queued     *)
(* line itself, through a timer and with its own closure.  Input handlers  *)
(* hear of a new rendering only when its effects have run.                 *)
(*                                                                         *)
(* What a turn does is kept to what outlives it: the settings, messages    *)
(* and D3 session it leaves, and the event it adds to the session record,  *)
(* an object in the turn's closure that is written to a file as a whole.   *)
(* /exit and early input are not modelled.                                 *)
(***************************************************************************)
EXTENDS Naturals, FiniteSets, SequencesExt

CONSTANTS
    Lines,      \* lines the operator may enter, each once
    What,       \* What[l]: what the line is, see Kinds
    Profiles,   \* connection profiles
    Recorders,  \* lines whose turn's events in the session record are modelled
    None

Kinds == [kind : {"text", "shell", "chat", "query"}, arg : {None}]
            \cup [kind : {"d3", "profile"}, arg : Profiles]
            \cup [kind : {"safety"}, arg : {"plan", "ask"}]

Settings == [safety : {"plan", "ask"}, profile : Profiles \cup {None}, mode : {"chat", "d3"}]
Closures == [settings : Settings, messages : SUBSET Lines, record : Lines]

ASSUME TuiAssumption ==
    /\ What \in [Lines -> Kinds]
    /\ None \notin Lines \cup Profiles \cup Closures
    /\ Recorders \subseteq Lines

VARIABLES
    settings,  \* safety, profile and mode, as the prompt shows them
    messages,  \* lines whose exchange with the agent the history holds
    terminal,  \* profile of the session in d3Session.current, or None
    busy,      \* busy and busyRef
    heard,     \* busy, as the registered input handlers know it
    current,   \* line whose controller is in abortRef, or None
    aborted,   \* lines whose controller has been aborted
    queue,     \* queued lines
    turn,      \* turn[l]: see Stages
    closure,   \* closure[l]: settings, messages and session record the turn of l
               \* closed over; a record is named by the first line that did
    newest,    \* the session record in the state of App: its name, None while no
               \* closure has it
    records,   \* records[r]: the turns with an event in record r
    recorded,  \* turns that have recorded their event
    saving,    \* turns that await the save of their record
    file,      \* the turns with an event in the session file
    cut        \* lines running or handed over at an interrupt (history)

vars == <<settings, messages, terminal, busy, heard, current, aborted, queue,
          turn, closure, newest, records, recorded, saving, file, cut>>
promptVars == <<busy, heard, current, aborted, queue, cut>>
recordVars == <<newest, records, recorded, saving, file>>
sessionVars == <<settings, messages, terminal, recordVars>>

\* handed: dequeued, its timer is set.  unwinding: in the finally block.
\* broken: the finally block threw.  dropped: removed from the queue by the
\* operator.  lost: removed by the end of an interrupted turn.
Stages == {"unused", "queued", "handed", "running", "unwinding", "done",
           "broken", "dropped", "lost"}

TypeOK ==
    /\ settings \in Settings
    /\ messages \subseteq Lines
    /\ terminal \in Profiles \cup {None}
    /\ busy \in BOOLEAN /\ heard \in BOOLEAN
    /\ current \in Lines \cup {None}
    /\ aborted \subseteq Lines /\ cut \subseteq Lines
    /\ queue \in Seq(Lines) /\ ToSet(queue) = {l \in Lines : turn[l] = "queued"}
    /\ turn \in [Lines -> Stages]
    /\ closure \in [Lines -> {None} \cup Closures]
    /\ newest \in Lines \cup {None}
    /\ records \in [Lines \cup {None} -> SUBSET Lines] /\ file \subseteq Lines
    /\ recorded \subseteq Lines /\ saving \subseteq Lines

Init ==
    /\ settings \in [safety : {"ask"}, profile : Profiles, mode : {"chat"}]
    /\ messages = {} /\ terminal = None
    /\ busy = FALSE /\ heard = FALSE
    /\ current = None /\ aborted = {} /\ queue = <<>> /\ cut = {}
    /\ turn = [l \in Lines |-> "unused"]
    /\ closure = [l \in Lines |-> None]
    /\ newest = None /\ records = [r \in Lines \cup {None} |-> {}] /\ file = {}
    /\ recorded = {} /\ saving = {}

Running == {l \in Lines : turn[l] = "running"}
Live == {l \in Lines : turn[l] \in {"running", "unwinding"}}
Handed == {l \in Lines : turn[l] = "handed"}

-----------------------------------------------------------------------------
(* Input *)

\* The text of a turn in d3 mode is a TCL line: it goes to the session there
\* is, or to a new one of the selected profile.
GoesToD3(l, with) == What[l].kind = "text" /\ with.mode = "d3"

\* submitD3TerminalLine: without a session one of the selected profile is made.
TerminalFor(with) == IF terminal = None THEN with.settings.profile ELSE terminal

\* submit(): up to the first await, then the part of the body up to its own.
Begin(l, with) ==
    /\ turn' = [turn EXCEPT ![l] = "running"]
    /\ busy' = TRUE /\ current' = l
    /\ terminal' = IF GoesToD3(l, with.settings) THEN TerminalFor(with) ELSE terminal

\* submitLine at a free prompt.
Submit(l) ==
    /\ turn[l] = "unused" /\ ~heard /\ ~busy
    /\ newest' = IF newest = None THEN l ELSE newest
    /\ records' = IF newest = None THEN [records EXCEPT ![l] = records[None], ![None] = {}]
                                   ELSE records
    /\ closure' = [closure EXCEPT ![l] =
                     [settings |-> settings, messages |-> messages, record |-> newest']]
    /\ Begin(l, closure'[l])
    /\ UNCHANGED <<settings, messages, heard, aborted, queue, cut, recorded, saving, file>>

\* submitLine while a turn is, or seems to be, under way.
Enqueue(l) ==
    /\ turn[l] = "unused"
    /\ heard \/ busy
    /\ queue' = Append(queue, l)
    /\ turn' = [turn EXCEPT ![l] = "queued"]
    /\ UNCHANGED <<busy, heard, current, aborted, closure, cut>>
    /\ UNCHANGED sessionVars

\* The effects of the last rendering register new handlers.
Effects ==
    /\ heard # busy /\ heard' = busy
    /\ UNCHANGED <<busy, current, aborted, queue, turn, closure, cut>>
    /\ UNCHANGED sessionVars

Emptied(stage) ==
    [l \in Lines |-> IF turn[l] = "queued" THEN stage ELSE turn[l]]

\* interruptActiveTurn: the queue is cleared, with a notice, the turn that is
\* current is aborted, and the prompt is free at once.
Interrupt ==
    /\ heard
    /\ queue' = <<>> /\ turn' = Emptied("dropped")
    /\ aborted' = aborted \cup ({current} \ {None})
    /\ cut' = cut \cup Live \cup Handed
    /\ busy' = FALSE
    /\ UNCHANGED <<heard, current, closure>> /\ UNCHANGED sessionVars

\* handleBusyEscape with no turn to interrupt: the newest queued line goes.
DropLast ==
    /\ heard /\ queue # <<>>
    /\ ~busy \/ current = None \/ current \in aborted
    /\ queue' = Front(queue)
    /\ turn' = [turn EXCEPT ![Last(queue)] = "dropped"]
    /\ UNCHANGED <<busy, heard, current, aborted, closure, cut>>
    /\ UNCHANGED sessionVars

-----------------------------------------------------------------------------
(* Turns *)

\* What the body of a turn that gets to its end leaves behind.
\* The session: /d3 attaches one to a profile, /chat closes it.
TerminalAfter(what) ==
    CASE what.kind = "d3" -> what.arg [] what.kind = "chat" -> None [] OTHER -> terminal

\* The settings: handleSlashCommand answers with those it changes.
SettingsAfter(what) ==
    CASE what.kind = "d3" -> [settings EXCEPT !.profile = what.arg, !.mode = "d3"]
      [] what.kind = "chat" -> [settings EXCEPT !.mode = "chat"]
      [] what.kind = "safety" -> [settings EXCEPT !.safety = what.arg]
      [] what.kind = "profile" -> [settings EXCEPT !.profile = what.arg]
      [] OTHER -> settings

\* The history: the agent's replaces that of the rendering; new settings empty it.
MessagesAfter(l) ==
    CASE What[l].kind \in {"safety", "profile"} -> {}
      [] What[l].kind = "text" /\ closure[l].settings.mode = "chat" ->
             closure[l].messages \cup {l}
      [] OTHER -> messages

Finish(l) ==
    /\ turn[l] = "running"
    /\ l \in Recorders => l \in recorded
    /\ settings' = SettingsAfter(What[l])
    /\ terminal' = TerminalAfter(What[l])
    /\ messages' = MessagesAfter(l)
    /\ turn' = [turn EXCEPT ![l] = "unwinding"]
    /\ UNCHANGED closure /\ UNCHANGED promptVars /\ UNCHANGED recordVars

\* The body throws: an abort it listens to, an error of D3 or of a tool.
Throw(l) ==
    /\ turn[l] = "running"
    /\ turn' = [turn EXCEPT ![l] = "unwinding"]
    /\ UNCHANGED closure /\ UNCHANGED promptVars /\ UNCHANGED sessionVars

Released(l) == current' = IF current = l THEN None ELSE current

\* The closure of l is gone, or has gone over to the next line: records that
\* no closure has any more are forgotten, but for App's.
Forgotten ==
    LET held == {closure'[m].record : m \in {n \in Lines : closure'[n] # None}}
        kept == IF newest \in held THEN newest ELSE None
    IN  /\ newest' = kept
        /\ records' = [r \in DOMAIN records |->
                          IF r \in held THEN records[r]
                          ELSE IF r = kept THEN records[newest] ELSE {}]
        /\ recorded' = recorded \cap Live'
        /\ saving' = saving \cap Live'
        /\ UNCHANGED file

\* The end of the finally block after an abort.
UnwindAborted(l) ==
    /\ turn[l] = "unwinding" /\ l \in aborted
    /\ Released(l)
    /\ queue' = <<>>
    /\ turn' = [Emptied("lost") EXCEPT ![l] = "done"]
    /\ closure' = [closure EXCEPT ![l] = None]
    /\ busy' = FALSE
    /\ UNCHANGED <<heard, aborted, cut, settings, messages, terminal>> /\ Forgotten

\* Mutant: the prompt is free until the timer fires.
UnwindToNextFree(l) ==
    /\ turn[l] = "unwinding" /\ l \notin aborted /\ queue # <<>>
    /\ Released(l)
    /\ queue' = Tail(queue)
    /\ turn' = [turn EXCEPT ![l] = "done", ![Head(queue)] = "handed"]
    /\ closure' = [closure EXCEPT ![Head(queue)] = closure[l], ![l] = None]
    /\ busy' = FALSE
    /\ UNCHANGED <<heard, aborted, cut, settings, messages, terminal>> /\ Forgotten

\* Mutant: the next line is left in the queue.
UnwindToNextLater(l) ==
    /\ turn[l] = "unwinding" /\ l \notin aborted /\ queue # <<>>
    /\ Released(l)
    /\ turn' = [turn EXCEPT ![l] = "done"]
    /\ closure' = [closure EXCEPT ![l] = None]
    /\ UNCHANGED <<busy, queue, heard, aborted, cut, settings, messages, terminal>> /\ Forgotten

\* The end of the finally block otherwise: the next line, or a free prompt.
UnwindToNext(l) ==
    /\ turn[l] = "unwinding" /\ l \notin aborted /\ queue # <<>>
    /\ Released(l)
    /\ queue' = Tail(queue)
    /\ turn' = [turn EXCEPT ![l] = "done", ![Head(queue)] = "handed"]
    /\ closure' = [closure EXCEPT ![Head(queue)] = closure[l], ![l] = None]
    /\ UNCHANGED <<busy, heard, aborted, cut, settings, messages, terminal>> /\ Forgotten

\* Mutant: the prompt stays taken.
UnwindToPromptBusy(l) ==
    /\ turn[l] = "unwinding" /\ l \notin aborted /\ queue = <<>>
    /\ Released(l)
    /\ turn' = [turn EXCEPT ![l] = "done"]
    /\ closure' = [closure EXCEPT ![l] = None]
    /\ UNCHANGED <<busy, heard, aborted, queue, cut, settings, messages, terminal>> /\ Forgotten

UnwindToPrompt(l) ==
    /\ turn[l] = "unwinding" /\ l \notin aborted /\ queue = <<>>
    /\ Released(l)
    /\ turn' = [turn EXCEPT ![l] = "done"]
    /\ closure' = [closure EXCEPT ![l] = None]
    /\ busy' = FALSE
    /\ UNCHANGED <<heard, aborted, queue, cut, settings, messages, terminal>> /\ Forgotten

\* The finally block throws: the session file or a changed file of the
\* workspace could not be written or read.  Nothing behind it happens.
UnwindBreaks(l) ==
    /\ turn[l] = "unwinding"
    /\ turn' = [turn EXCEPT ![l] = "broken"]
    /\ closure' = [closure EXCEPT ![l] = None] /\ Forgotten
    /\ UNCHANGED <<settings, messages, terminal>> /\ UNCHANGED promptVars

\* The timer of a line that was handed over: submitLine(line, force).
StartHanded(l) ==
    /\ turn[l] = "handed"
    /\ Begin(l, closure[l])
    /\ UNCHANGED <<settings, messages, heard, aborted, queue, closure, cut>>
    /\ UNCHANGED recordVars

Ends(l) == l \notin saving /\ (Finish(l) \/ Throw(l))
Unwinds(l) ==
    \/ l \notin saving /\ (UnwindAborted(l) \/ UnwindToNext(l) \/ UnwindToPrompt(l))
    \/ UnwindBreaks(l)

-----------------------------------------------------------------------------
(* The session record *)

\* Mutant: appendEvent answers with a new record, which App gets and which is
\* saved; that of the closure stays as it was.
RecordCopies(l) ==
    /\ l \in (Live \cap Recorders) \ recorded
    /\ recorded' = recorded \cup {l}
    /\ newest' = None
    /\ records' = [records EXCEPT ![None] = records[closure[l].record] \cup {l}]
    /\ file' = records'[None]
    /\ UNCHANGED <<settings, messages, terminal, turn, closure, saving>> /\ UNCHANGED promptVars

\* record(): appendEvent changes the record of the closure, setSession gets a
\* copy, and the record of the closure is to be saved.
Record(l) ==
    /\ l \in (Live \cap Recorders) \ recorded
    /\ recorded' = recorded \cup {l} /\ saving' = saving \cup {l}
    /\ newest' = None
    /\ LET mine == closure[l].record
           grown == records[mine] \cup {l}
       IN  records' = [records EXCEPT ![mine] = grown, ![None] = grown]
    /\ UNCHANGED <<settings, messages, terminal, turn, closure, file>> /\ UNCHANGED promptVars

\* saveSession writes the whole record, as it is behind its await.
Save(l) ==
    /\ l \in saving
    /\ file' = records[closure[l].record]
    /\ saving' = saving \ {l}
    /\ UNCHANGED <<settings, messages, terminal, turn, closure, newest, records, recorded>>
    /\ UNCHANGED promptVars

\* saveSession throws in the body, before it writes.
SaveFails(l) ==
    /\ l \in saving /\ turn[l] = "running"
    /\ saving' = saving \ {l}
    /\ turn' = [turn EXCEPT ![l] = "unwinding"]
    /\ UNCHANGED <<settings, messages, terminal, closure, newest, records, recorded, file>>
    /\ UNCHANGED promptVars

Next ==
    \/ Effects \/ Interrupt \/ DropLast
    \/ \E l \in Lines :
          \/ Submit(l) \/ Enqueue(l) \/ Ends(l) \/ Unwinds(l) \/ StartHanded(l)
          \/ Record(l) \/ Save(l) \/ SaveFails(l)

\* Every turn ends (a D3 line has a timer, an agent turn one per request), the
\* timer of a hand-over fires and effects run.  The operator owes nothing.
Fairness ==
    /\ WF_vars(Effects)
    /\ \A l \in Lines :
          /\ WF_vars(Ends(l)) /\ WF_vars(Unwinds(l)) /\ WF_vars(StartHanded(l))
          /\ WF_vars(Save(l))

Spec == Init /\ [][Next]_vars /\ Fairness

-----------------------------------------------------------------------------
(* Properties *)

\* Without an interrupt one turn is under way at a time: busyRef stays set
\* while a queued line waits for its timer, a handler that has not heard of the
\* end of a turn only queues, and a free prompt means that every turn has
\* unwound.  (After an interrupt the turns it cut off unwind beside new ones,
\* and free the prompt of these when they end.)
OneTurnUntilCut == cut = {} => Cardinality(Live \cup Handed) <= 1

\* The prompt is never stuck: while it shows a turn, one is under way, or
\* about to be, or one has failed in its own cleanup.
BusyHasTurn ==
    busy => Live \cup Handed # {} \/ \E l \in Lines : turn[l] = "broken"

\* A line queued during a turn leaves the queue: it starts, or the operator's
\* interrupt removes it, unless a cleanup fails.
QueueDrains ==
    \A l \in Lines :
        turn[l] = "queued" /\ busy
            ~> turn[l] # "queued" \/ \E m \in Lines : turn[m] = "broken"

\* The session file, from which a session is resumed, loses no event: each turn
\* saves the record it closed over, so it rests on the records in the closures
\* holding what was recorded since, also for a line that was handed over.
\* (Turns beside each other, after an interrupt, write over each other's events.)
SessionKept == [][cut = {} => file \subseteq file']_vars

\* "Safety set to ${safety}" (commands.ts:717): a turn that begins works under
\* the safety the operator has set by then.
SafetyInForce ==
    [][\A l \in Lines : l \notin Running /\ l \in Running' =>
          closure'[l].settings.safety = settings.safety]_vars
=============================================================================

------------------------- MODULE PersistentSession -------------------------
(***************************************************************************)
(* PersistentLocalD3Session and its SSH form: one child process that every *)
(* run() of a session writes its command to, one buffer its output is      *)
(* appended to, and the rule that says where a command's output begins and *)
(* ends in it.  There is no queue: callers may overlap, and a caller that  *)
(* gave up leaves its command running.                                     *)
(*                                                                         *)
(* The output is a sequence of tokens: what a line of a command prints,    *)
(* D3's prompt, or, for a shell without a prompt pattern, the marker that  *)
(* run() has the shell print behind a command.  A prompt counts when it is *)
(* the last thing in the output.  After close() a session gets no new      *)
(* command (its owners drop it first).                                     *)
(***************************************************************************)
EXTENDS Naturals, Sequences, SequencesExt

CONSTANTS
    Calls,      \* calls of run()
    Lines       \* Lines[c]: lines of the command of c, 1 or more

ASSUME SessionAssumption == Lines \in [Calls -> Nat \ {0}]

VARIABLES
    patterned,   \* the profile has a prompt pattern
    child,       \* a child process runs
    owed,        \* what the child has yet to print
    buffer,      \* stdout
    closedError, \* set by the exit of a child, until the next one starts
    closed,      \* close() has been called
    call,        \* call[c]: how far c is, see Stages
    from,        \* from[c]: stdoutStart, where the output of c begins
    behind,      \* behind[c]: a running child owed output when c was written, and c
                 \* has not failed (history)
    lost         \* calls under way for which another started a new child before
                 \* they noticed that theirs was gone (history)

childVars == <<child, owed, closedError>>
callVars == <<call, from, behind, lost>>
vars == <<patterned, child, owed, buffer, closedError, closed, call, from, behind, lost>>

Prompt == [kind |-> "prompt"]
Output(c, i) == [kind |-> "output", call |-> c, line |-> i]
Marker(c) == [kind |-> "marker", call |-> c]

\* What the child prints for the command of c: D3 prompts after every line.
Reply(c) ==
    IF patterned
    THEN [i \in 1 .. 2 * Lines[c] |-> IF i % 2 = 1 THEN Output(c, (i + 1) \div 2) ELSE Prompt]
    ELSE [i \in 1 .. Lines[c] + 1 |-> IF i <= Lines[c] THEN Output(c, i) ELSE Marker(c)]

Tokens ==
    {Prompt} \cup [kind : {"output"}, call : Calls, line : Nat \ {0}]
             \cup [kind : {"marker"}, call : Calls]

\* startup: no prompt has shown; ready: it has, the command is to be written.
Stages == {"idle", "startup", "ready", "waiting", "answered", "failed"}
Before == {"startup", "ready", "waiting"}

TypeOK ==
    /\ patterned \in BOOLEAN /\ child \in BOOLEAN
    /\ closedError \in BOOLEAN /\ closed \in BOOLEAN
    /\ owed \in Seq(Tokens) /\ buffer \in Seq(Tokens)
    /\ call \in [Calls -> Stages]
    /\ from \in [Calls -> Nat]
    /\ behind \in [Calls -> BOOLEAN]
    /\ lost \subseteq Calls

Init ==
    /\ patterned \in BOOLEAN
    /\ child = FALSE /\ owed = <<>> /\ buffer = <<>>
    /\ closedError = FALSE /\ closed = FALSE
    /\ call = [c \in Calls |-> "idle"]
    /\ from = [c \in Calls |-> 0]
    /\ behind = [c \in Calls |-> FALSE]
    /\ lost = {}

AtPrompt(s) == s # <<>> /\ Last(s) = Prompt
OutputOf(c) == SubSeq(buffer, from[c] + 1, Len(buffer))

-----------------------------------------------------------------------------
(* The child process *)

Emit ==
    /\ child /\ owed # <<>>
    /\ buffer' = Append(buffer, Head(owed))
    /\ owed' = Tail(owed)
    /\ UNCHANGED <<patterned, child, closedError, closed>> /\ UNCHANGED callVars

\* Mutant: the output of the dead child stays in the buffer.
ExitKeepsOutput ==
    /\ child
    /\ child' = FALSE /\ owed' = <<>> /\ closedError' = TRUE
    /\ UNCHANGED <<patterned, buffer, closed>> /\ UNCHANGED callVars

\* Mutant: nobody is told.
ExitSilently ==
    /\ child
    /\ child' = FALSE /\ owed' = <<>> /\ buffer' = <<>>
    /\ UNCHANGED <<patterned, closedError, closed>> /\ UNCHANGED callVars

\* The "close" event: the session is dropped with what it printed.
Exit ==
    /\ child
    /\ child' = FALSE /\ owed' = <<>> /\ buffer' = <<>> /\ closedError' = TRUE
    /\ UNCHANGED <<patterned, closed>> /\ UNCHANGED callVars

-----------------------------------------------------------------------------
(* run() *)

\* The command goes to the child; pending is what the child owed before.
Write(c, pending) ==
    /\ call' = [call EXCEPT ![c] = "waiting"]
    /\ from' = [from EXCEPT ![c] = Len(buffer)]
    /\ owed' = pending \o Reply(c)
    /\ behind' = [behind EXCEPT ![c] = child /\ pending # <<>>]

\* What is owed once start() has seen to it that there is a child: a logon
\* ends in a prompt, a bare shell prints nothing.
OwedAtStart == IF child THEN owed ELSE IF patterned THEN <<Prompt>> ELSE <<>>
Start ==
    /\ child' = TRUE
    /\ closedError' = (closedError /\ child)
    /\ lost' = IF child THEN lost
               ELSE lost \cup {c \in Calls : call[c] \in Before}

\* Mutant: the command is written whether the prompt shows or not.
RunWritesAtOnce(c) ==
    /\ call[c] = "idle" /\ ~closed
    /\ Start /\ Write(c, OwedAtStart)
    /\ UNCHANGED <<patterned, buffer, closed>>

RunWrites(c) ==
    /\ call[c] = "idle" /\ ~closed
    /\ patterned => AtPrompt(buffer)
    /\ Start /\ Write(c, OwedAtStart)
    /\ UNCHANGED <<patterned, buffer, closed>>

\* No prompt at the end of the output: absorbStartupPrompt waits for one.
RunAbsorbs(c) ==
    /\ call[c] = "idle" /\ ~closed
    /\ patterned /\ ~AtPrompt(buffer)
    /\ Start
    /\ owed' = OwedAtStart
    /\ call' = [call EXCEPT ![c] = "startup"]
    /\ UNCHANGED <<patterned, buffer, closed, from, behind>>

PromptSeen(c) ==
    /\ call[c] = "startup" /\ ~closedError
    /\ AtPrompt(buffer)
    /\ call' = [call EXCEPT ![c] = "ready"]
    /\ UNCHANGED <<patterned, buffer, closed, from, behind, lost>>
    /\ UNCHANGED childVars

\* The command is written; an SSH session waits for 50 ms before, in which others
\* may write, and the child may end and be another.
ReadyWrites(c) ==
    /\ call[c] = "ready" /\ child
    /\ Write(c, owed)
    /\ UNCHANGED <<patterned, child, buffer, closedError, closed, lost>>

\* run() throws: the child is gone, the prompt did not show in time, the
\* command took too long, or the caller aborted it.  The child goes on.
GiveUp(c) ==
    /\ call[c] \in {"startup", "waiting"} \/ (call[c] = "ready" /\ ~child)
    /\ call' = [call EXCEPT ![c] = "failed"]
    /\ from' = [from EXCEPT ![c] = 0]
    /\ behind' = [behind EXCEPT ![c] = FALSE] /\ lost' = lost \ {c}
    /\ UNCHANGED <<patterned, buffer, closed>> /\ UNCHANGED childVars

Returned(c) ==
    IF patterned THEN AtPrompt(OutputOf(c)) ELSE Contains(OutputOf(c), Marker(c))

\* run() returns OutputOf(c).
Answer(c) ==
    /\ call[c] = "waiting" /\ ~closedError
    /\ Returned(c)
    /\ call' = [call EXCEPT ![c] = "answered"]
    /\ from' = [from EXCEPT ![c] = 0] /\ lost' = lost \ {c}
    /\ UNCHANGED <<patterned, buffer, closed, behind>>
    /\ UNCHANGED childVars

\* close(): OFF is written or stdin ended; the child exits (Exit).
Close ==
    /\ ~closed /\ closed' = TRUE
    /\ UNCHANGED <<patterned, buffer>> /\ UNCHANGED childVars /\ UNCHANGED callVars

Next ==
    \/ Emit \/ Exit \/ Close
    \/ \E c \in Calls :
          \/ RunWrites(c) \/ RunAbsorbs(c) \/ PromptSeen(c) \/ ReadyWrites(c)
          \/ Answer(c) \/ GiveUp(c)

\* The child prints what it owes and ends when it is closed; run() polls.
\* Only the wait for the startup prompt surely has a timer, and no caller has
\* to abort: GiveUp is fair only there and once the child is gone.
Forced(c) == (call[c] = "startup" \/ closedError) /\ GiveUp(c)

Fairness ==
    /\ WF_vars(Emit) /\ WF_vars(closed /\ Exit)
    /\ \A c \in Calls :
          /\ WF_vars(PromptSeen(c)) /\ WF_vars(ReadyWrites(c)) /\ WF_vars(Answer(c))
          /\ WF_vars(Forced(c))

Spec == Init /\ [][Next]_vars /\ Fairness

-----------------------------------------------------------------------------
(* Properties *)

\* What the child printed for the command of c: with a prompt pattern it begins
\* with the command's own output, never with the prompt of the logon or with what
\* an earlier command of a dead child left in the buffer, and stops early only at
\* a prompt of its own; with the marker, it ends in the whole of it.
OwnAnswer(c, answer) ==
    IF patterned
    THEN IsPrefix(answer, Reply(c)) \/ IsPrefix(Reply(c), answer)
    ELSE \E i \in 0 .. Len(answer) : IsPrefix(Reply(c), SubSeq(answer, i + 1, Len(answer)))

\* An answer is the command's own - with a prompt pattern unless a running child
\* owed output when the command was written.  A call whose child died waits in
\* the output of the next child if that one is started before the call's next
\* look (every 10 ms).
AnswersOwn ==
    [][\A c \in Calls : call[c] = "waiting" /\ call'[c] = "answered" =>
          \/ c \in lost \/ (patterned /\ behind[c])
          \/ OwnAnswer(c, OutputOf(c))]_vars

\* A call whose child exits, or that finds no prompt, does not hang, and a
\* child that prints what it owes ends every call, even one that another's
\* unfinished command precedes.
RunReturns ==
    \A c \in Calls :
        call[c] \in Before ~> c \in lost \/ call[c] \in {"answered", "failed"}

\* Output is owed when a command is written only because another call has not
\* had its whole answer: it waits, it gave up, or its command has several
\* lines and the wait stopped at the first prompt, or its answer was another's
\* because output was owed when it was written, or the prompt c had seen was that
\* of a child that is gone.  So one caller at a time that sends single lines and
\* never gives up always gets its own answers.
BehindUnfinished ==
    [][\A c \in Calls : behind'[c] /\ ~behind[c] =>
          c \in lost \/ \E d \in Calls \ {c} :
              call[d] \in {"waiting", "failed"} \/ Lines[d] > 1 \/ behind[d]]_vars
=============================================================================

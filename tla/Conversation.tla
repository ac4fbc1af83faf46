---------------------------- MODULE Conversation ----------------------------
(***************************************************************************)
(* The messages of one chat, as the agent turn keeps them and as they are  *)
(* sent to the model provider: turns append to them, end in many places,   *)
(* and hand them to the next turn; compactAgentHistory cuts what is sent,  *)
(* and cuts the conversation itself when a turn begins.                    *)
(*                                                                         *)
(* A message is its role, its size and a number: the native calls of an    *)
(* assistant's message; which of them a tool result answers (its           *)
(* toolCallId), 0 if the call was wrapped in text.  Sizes are units of     *)
(* text; only results differ in size.  The system message, which is always *)
(* sent, is not modelled, and AgentTurn has why and when a batch stops.    *)
(***************************************************************************)
EXTENDS Naturals, Sequences
LOCAL INSTANCE SequencesExt

CONSTANTS
    MaxCalls,   \* native calls in one answer
    MaxRounds,  \* maxToolIterations
    MaxTurns,   \* turns in the chat
    MaxSize,    \* size of the largest result
    Usual,      \* the budget of a request: [size, messages, each]
    Reduced     \* the one after the provider found a request too long

VARIABLES
    history,    \* the messages kept between turns
    turns,      \* turns ended
    phase,      \* "idle", "ask", "model", "retry" (asked again), "results"
    messages,   \* those of the turn
    rounds,     \* iteration
    sent        \* the request under way

vars == <<history, turns, phase, messages, rounds, sent>>

Roles == {"user", "assistant", "tool", "note"}
Sizes == 1..MaxSize
Conversations == Seq([role : Roles, n : 0..MaxCalls, size : Sizes])

TypeOK ==
    /\ history \in Conversations /\ messages \in Conversations /\ sent \in Conversations
    /\ turns \in 0..MaxTurns /\ rounds \in 0..MaxRounds
    /\ phase \in {"idle", "ask", "model", "retry", "results"}

Init ==
    /\ history = <<>> /\ turns = 0 /\ phase = "idle"
    /\ messages = <<>> /\ rounds = 0 /\ sent = <<>>

-----------------------------------------------------------------------------
Message(role, n, size) == [role |-> role, n |-> n, size |-> size]
Note == Message("note", 0, 1)

\* The newest k messages, each cut to the budget.
Newest(list, k, budget) ==
    [i \in 1..k |-> LET m == list[Len(list) - k + i]
                    IN [m EXCEPT !.size = IF m.size > budget.each THEN budget.each ELSE m.size]]

Total(list) == FoldSeq(LAMBDA m, sum : m.size + sum, 0, list)

\* compactAgentHistory: as many of the newest messages as fit, the newest in any
\* case, behind a note if some were left out.
Compact(list, budget) ==
    LET fits == {k \in 0..Len(list) : /\ k <= budget.messages
                                      /\ k <= 1 \/ Total(Newest(list, k, budget)) <= budget.size}
        kept == CHOOSE k \in fits : \A other \in fits : other <= k
    IN (IF kept < Len(list) THEN <<Note>> ELSE <<>>) \o Newest(list, kept, budget)

\* What a page shows of the turns so far, which it sends as the history: the text
\* of the operator's requests and of the outcomes.
PageHistory == [i \in 1..(2 * turns) |-> Message(IF i % 2 = 1 THEN "user" ELSE "assistant", 0, 1)]

-----------------------------------------------------------------------------
\* A turn begins: with the messages of the last one, or with what the page sent.
Begin ==
    /\ phase = "idle" /\ turns < MaxTurns
    /\ \E base \in {history, PageHistory} :
          messages' = Append(Compact(base, Usual), Message("user", 0, 1))
    /\ phase' = "ask"
    /\ UNCHANGED <<history, turns, rounds, sent>>

\* A question about the connection is answered without the model, and its turn
\* keeps nothing of the conversation before.
AskConnection ==
    /\ phase = "idle" /\ turns < MaxTurns
    /\ history' = <<Message("user", 0, 1), Message("assistant", 0, 1)>>
    /\ turns' = turns + 1
    /\ UNCHANGED <<phase, messages, rounds, sent>>

\* The turn ends with these messages.
Ends(list) ==
    /\ messages' = <<>> /\ history' = list
    /\ turns' = turns + 1 /\ phase' = "idle"
    /\ rounds' = 0 /\ sent' = <<>>

GoesOn(list, next) ==
    /\ messages' = list /\ phase' = next
    /\ sent' = <<>>
    /\ UNCHANGED <<history, turns>>

Request ==
    /\ phase = "ask"
    /\ sent' = Compact(messages, Usual)
    /\ phase' = "model"
    /\ UNCHANGED <<history, turns, messages, rounds>>

\* The provider finds the request too long: once more, with less.
ContextLimit ==
    /\ phase = "model"
    /\ sent' = Compact(messages, Reduced)
    /\ phase' = "retry"
    /\ UNCHANGED <<history, turns, messages, rounds>>

\* Aborted before a request, or the request failed.
RequestFails ==
    /\ phase \in {"ask", "model", "retry"}
    /\ Ends(messages)

\* The model answers.  The turn ends if nothing was requested, or if the requests
\* are malformed, over the limit of rounds, blocked or repeated: none is run then.
Answer(n) ==
    /\ phase \in {"model", "retry"}
    /\ LET list == Append(messages, Message("assistant", n, 1))
       IN Ends(list) \/ (rounds < MaxRounds /\ GoesOn(list, "results") /\ UNCHANGED rounds)

\* The native calls of the answer being worked on, and the results due: one if its
\* call was wrapped in text.
Asked == messages[Len(messages)].n
Due == IF Asked = 0 THEN 1 ELSE Asked

\* Mutant: a turn goes on when a call was declined.
GoesOnAfter(done) == TRUE

\* A batch cut short by the approval or an abort, and a call that failed twice, end
\* the turn.
MayGoOn(done) == done = Due

\* Results stand in the order of their calls, whatever order they came in.
Results(sizes) ==
    /\ phase = "results"
    /\ Len(sizes) \in 1..Due
    /\ LET list == messages \o [i \in 1..Len(sizes) |->
                                  Message("tool", IF Asked = 0 THEN 0 ELSE i, sizes[i])]
       IN \/ Ends(list)
          \/ MayGoOn(Len(sizes)) /\ GoesOn(list, "ask") /\ rounds' = rounds + 1

Next ==
    \/ Begin \/ AskConnection \/ Request \/ ContextLimit \/ RequestFails
    \/ \E n \in 0..MaxCalls : Answer(n)
    \/ \E k \in 1..MaxCalls : \E sizes \in [1..k -> Sizes] : Results(sizes)

Spec == Init /\ [][Next]_vars

-----------------------------------------------------------------------------
(* Properties *)

\* Message i is a result whose call was left out: only results and the note stand
\* before it.
CutOff(list, i) ==
    /\ list[1] = Note
    /\ \A j \in 2..i : list[j].role = "tool"

\* In what a provider is sent, the results of an answer's calls stand right behind
\* it, in the order of the calls.  All of them do, unless a turn ended before the
\* rest had run: then the operator's next request follows.  And a result stands
\* behind its call, unless compaction left the call out.
ResultsPaired ==
    \A i \in 1..Len(sent) :
       LET m == sent[i] IN
       /\ m.role = "assistant" =>
             \E done \in 0..m.n :
                /\ i + done <= Len(sent)
                /\ \A k \in 1..done : sent[i + k].role = "tool" /\ sent[i + k].n = k
                /\ done < m.n => i + done < Len(sent) /\ sent[i + done + 1].role = "user"
       /\ m.role = "tool" =>
             \/ CutOff(sent, i)
             \/ m.n = 0 /\ sent[i - 1].role = "assistant" /\ sent[i - 1].n = 0
             \/ \E k \in 1..(i - 1) : /\ sent[k].role = "assistant" /\ sent[k].n >= m.n
                                      /\ i - k = m.n
=============================================================================

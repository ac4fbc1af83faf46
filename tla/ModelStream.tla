---------------------------- MODULE ModelStream ----------------------------
(***************************************************************************)
(* The answer of a model as it is read from an event stream                *)
(* (readOpenAIStream).  The provider sends lines; chunks of bytes end      *)
(* anywhere, also inside a line, and the connection may end or break at    *)
(* any byte.  What has been read is then taken for the answer: its calls   *)
(* are assembled by index and run when the arguments of all are JSON.      *)
(*                                                                         *)
(* A line is four units: its prefix "data:", the begin and the rest of its *)
(* JSON, the line break.  A call is announced with its name, its arguments *)
(* follow in pieces; a proper part of them is no JSON.                     *)
(***************************************************************************)
EXTENDS Naturals, FiniteSets, Sequences

CONSTANTS
    Calls,     \* calls an answer may ask for
    Default,   \* the index of parts that have none
    Answers    \* answers a provider may send: sequences of lines [kind, call], the
               \* kinds being text, call, args, message and done

VARIABLES
    answer,    \* the lines the provider sends
    indexed,   \* whether it gives the index of parts
    arrived,   \* how many units have been received
    buffer,    \* units received and kept for the next chunk
    handled,   \* lines that have been parsed
    stage,     \* "open", "read" or "failed"
    run        \* calls of the answer that become requests of the turn

vars == <<answer, indexed, arrived, buffer, handled, stage, run>>

TypeOK ==
    /\ answer \in Answers /\ indexed \in BOOLEAN
    /\ arrived \in 0..(4 * Len(answer))
    /\ buffer \subseteq 1..arrived /\ handled \subseteq DOMAIN answer
    /\ stage \in {"open", "read", "failed"}
    /\ run \subseteq Calls

Units(line) == (4 * line - 3)..(4 * line)
Json(line) == {4 * line - 2, 4 * line - 1}
Prefix(line) == 4 * line - 3
Break(line) == 4 * line

Init ==
    /\ answer \in Answers /\ indexed \in BOOLEAN
    /\ arrived = 0 /\ buffer = {} /\ handled = {}
    /\ stage = "open" /\ run = {}

\* processLine, of the units of a line there are: without its prefix it is no
\* data, without JSON it is empty, and a part of its JSON throws.
Parsed(line, units) == {Prefix(line)} \cup Json(line) \subseteq units
Throws(line, units) == Prefix(line) \in units /\ Cardinality(Json(line) \cap units) = 1

\* Mutant: what is behind the last line break is dropped.
ChunkForgets(n) ==
    LET text == buffer \cup (arrived + 1)..(arrived + n)
        ended == {line \in DOMAIN answer : Break(line) \in text}
    IN  /\ stage = "open"
        /\ arrived' = arrived + n
        /\ buffer' = {}
        /\ handled' = handled \cup {line \in ended : Parsed(line, text)}
        /\ UNCHANGED <<answer, indexed, stage, run>>

\* A chunk: the lines it ends are processed, the rest is kept.
Chunk(n) ==
    LET text == buffer \cup (arrived + 1)..(arrived + n)
        ended == {line \in DOMAIN answer : Break(line) \in text}
    IN  /\ stage = "open"
        /\ arrived' = arrived + n
        /\ buffer' = text \ UNION {Units(line) : line \in ended}
        /\ handled' = handled \cup {line \in ended : Parsed(line, text)}
        /\ UNCHANGED <<answer, indexed, stage, run>>

-----------------------------------------------------------------------------
(* The calls of the answer *)

Part(line) == answer[line].kind \in {"call", "args"}

\* The entry of toolCallAcc a line goes to.
Entry(line) == IF Part(line) /\ ~indexed THEN Default ELSE answer[line].call

Named(entry, lines) ==
    {answer[line].call : line \in {m \in lines :
        answer[m].kind \in {"call", "message"} /\ Entry(m) = entry}}

ArgumentsOf(call) ==
    {line \in DOMAIN answer : answer[line] = [kind |-> "args", call |-> call]}

\* Arguments that are one call's, all of them; none count as {}.
WellFormed(entry, lines) ==
    LET arguments == {line \in lines : answer[line].kind = "args" /\ Entry(line) = entry}
    IN  arguments = {} \/ \E call \in Calls : arguments = ArgumentsOf(call)

\* nativeCallToRequest throws for one call: none is run.  Names that have run
\* together are no tool's.
RunOf(lines) ==
    LET entries == {e \in Calls \cup {Default} : Named(e, lines) # {}}
    IN  IF \E e \in entries : ~WellFormed(e, lines) THEN {}
        ELSE {call \in Calls : \E e \in entries : Named(e, lines) = {call}}

-----------------------------------------------------------------------------

\* The stream ends: what is left counts as a line.
End ==
    LET last == {line \in DOMAIN answer : Units(line) \cap buffer # {}}
    IN  /\ stage = "open"
        /\ stage' = IF \E line \in last : Throws(line, buffer) THEN "failed" ELSE "read"
        /\ handled' = handled \cup {line \in last : Parsed(line, buffer)}
        /\ run' = IF stage' = "read" THEN RunOf(handled') ELSE {}
        /\ UNCHANGED <<answer, indexed, arrived, buffer>>

\* reader.read() rejects: the connection breaks or the turn is aborted.
Breaks ==
    /\ stage = "open" /\ stage' = "failed"
    /\ UNCHANGED <<answer, indexed, arrived, buffer, handled, run>>

Next ==
    \/ \E n \in 1..(4 * Len(answer)) : arrived + n <= 4 * Len(answer) /\ Chunk(n)
    \/ End \/ Breaks

Spec == Init /\ [][Next]_vars

-----------------------------------------------------------------------------
(* Properties *)

\* However a stream is cut into chunks and wherever it ends, an answer that is
\* read has every line of which the data arrived, and no other; and a call runs
\* with all of its arguments or, where none of them came, with none.
AnswerAsSent ==
    LET whole == {line \in DOMAIN answer : 4 * line - 1 <= arrived}
    IN  /\ stage = "read" => handled = whole
        /\ \A call \in run :
              /\ \E line \in whole : answer[line].call = call
              /\ ArgumentsOf(call) \subseteq whole \/ ArgumentsOf(call) \cap whole = {}
=============================================================================

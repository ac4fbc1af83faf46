---------------------------- MODULE SharedFiles ----------------------------
(***************************************************************************)
(* Two files that the processes of one operator share without a lock: the  *)
(* operator memory (operator/memory.ts), replaced by a rename, and the     *)
(* prompt history of the terminal user interface (tui/prompt-history.ts),  *)
(* compacted in place when a process starts.  Entries are appended with    *)
(* one write.                                                              *)
(*                                                                         *)
(* An entry of the memory is its id, what it replaces and whether it has   *)
(* been superseded; ids are taken to be distinct.  An entry of the history *)
(* is its text and its number among all lines entered.                     *)
(***************************************************************************)
EXTENDS Naturals, FiniteSets, SequencesExt

CONSTANTS
    Procs,      \* processes
    Ids,        \* ids of memory entries
    Texts,      \* lines the operator enters
    MaxLines,   \* lines entered
    Keep,       \* maxPromptHistoryEntries
    None

ASSUME FilesAssumption ==
    /\ None \notin Ids
    /\ MaxLines \in Nat /\ Keep \in Nat \ {0}

Entries == [id : Ids, supersedes : Ids \cup {None}, active : BOOLEAN]
Lines == [n : 1..MaxLines, text : Texts]

VARIABLES
    memory,   \* entries of the memory file
    used,     \* ids given out
    history,  \* readable lines of the history file
    entered,  \* lines entered so far
    at,       \* what a process is doing, see Places
    saw,      \* saw[p]: the memory a superseding process has read
    target,   \* target[p]: the entry it supersedes
    new,      \* new[p]: the id of the replacement
    raw,      \* raw[p]: the history a loading process has read (history)
    kept      \* kept[p]: what it will write

vars == <<memory, used, history, entered, at, saw, target, new, raw, kept>>
memoryVars == <<memory, used, saw, target, new>>
historyVars == <<history, entered, raw, kept>>

\* superseding: the file is read, the rename to come.  loading: read, to be
\* opened for writing.  truncated: opened, to be written.
Places == {"idle", "superseding", "loading", "truncated", "gone"}

TypeOK ==
    /\ memory \subseteq Entries /\ used \subseteq Ids
    /\ history \in Seq(Lines) /\ entered \in 0..MaxLines
    /\ at \in [Procs -> Places]
    /\ saw \in [Procs -> SUBSET Entries]
    /\ target \in [Procs -> Ids \cup {None}] /\ new \in [Procs -> Ids \cup {None}]
    /\ raw \in [Procs -> Seq(Lines)] /\ kept \in [Procs -> Seq(Lines)]

Init ==
    /\ memory = {} /\ used = {}
    /\ history = <<>> /\ entered = 0
    /\ at = [p \in Procs |-> "idle"]
    /\ saw = [p \in Procs |-> {}]
    /\ target = [p \in Procs |-> None] /\ new = [p \in Procs |-> None]
    /\ raw = [p \in Procs |-> <<>>] /\ kept = [p \in Procs |-> <<>>]

-----------------------------------------------------------------------------
(* The operator memory.                                                    *)

\* appendOperatorMemory
AppendMemory(p, i) ==
    /\ at[p] = "idle"
    /\ i \notin used
    /\ used' = used \cup {i}
    /\ memory' = memory \cup {[id |-> i, supersedes |-> None, active |-> TRUE]}
    /\ UNCHANGED <<saw, target, new, at, historyVars>>

\* supersedeOperatorMemory reads all entries; without an active entry of that
\* id it throws.
SupersedeReads(p, m, i) ==
    /\ at[p] = "idle"
    /\ m \in memory /\ m.active
    /\ i \notin used
    /\ used' = used \cup {i}
    /\ at' = [at EXCEPT ![p] = "superseding"]
    /\ saw' = [saw EXCEPT ![p] = memory]
    /\ target' = [target EXCEPT ![p] = m.id]
    /\ new' = [new EXCEPT ![p] = i]
    /\ UNCHANGED <<memory, historyVars>>

\* What it writes: the entry marked, the replacement added.
Superseded(entries, id, i) ==
    {IF m.id = id THEN [m EXCEPT !.active = FALSE] ELSE m : m \in entries}
        \cup {[id |-> i, supersedes |-> id, active |-> TRUE]}

\* Mutant: the new entries are merged with the file as it is at the rename.
SupersedeRenamesMerged(p) ==
    /\ at[p] = "superseding"
    /\ memory' = Superseded(memory, target[p], new[p])
    /\ at' = [at EXCEPT ![p] = "idle"]
    /\ saw' = [saw EXCEPT ![p] = {}]
    /\ target' = [target EXCEPT ![p] = None] /\ new' = [new EXCEPT ![p] = None]
    /\ UNCHANGED <<used, historyVars>>

\* The whole file is replaced by what was read and changed.
SupersedeRenames(p) ==
    /\ at[p] = "superseding"
    /\ memory' = Superseded(saw[p], target[p], new[p])
    /\ at' = [at EXCEPT ![p] = "idle"]
    /\ saw' = [saw EXCEPT ![p] = {}]
    /\ target' = [target EXCEPT ![p] = None] /\ new' = [new EXCEPT ![p] = None]
    /\ UNCHANGED <<used, historyVars>>

-----------------------------------------------------------------------------
(* The prompt history.                                                     *)

\* appendPromptHistory, by any process that shows a prompt, one that is loading
\* included.
AppendLine(p, t) ==
    /\ at[p] # "gone"
    /\ entered < MaxLines
    /\ entered' = entered + 1
    /\ history' = Append(history, [n |-> entered + 1, text |-> t])
    /\ UNCHANGED <<at, raw, kept, memoryVars>>

\* The numbers of S in their order.
Ascending(S) ==
    CHOOSE s \in [1..Cardinality(S) -> S] :
        /\ \A i \in S : \E a \in DOMAIN s : s[a] = i
        /\ \A a, b \in DOMAIN s : a < b => s[a] < s[b]

\* A line that repeats the one before it takes its place: the last line of each
\* run of equal lines is left.
RunEnds(lines) ==
    {i \in 1..Len(lines) : i < Len(lines) => lines[i + 1].text # lines[i].text}
WithoutRepeats(lines) ==
    LET last == Ascending(RunEnds(lines))
    IN [k \in 1..Cardinality(RunEnds(lines)) |-> lines[last[k]]]

\* Mutant: the oldest lines are kept.
CompactOldest(lines) ==
    LET done == WithoutRepeats(lines)
    IN SubSeq(done, 1, IF Len(done) < Keep THEN Len(done) ELSE Keep)

\* compactPromptHistory
Compact(lines) ==
    LET done == WithoutRepeats(lines)
    IN SubSeq(done, IF Len(done) < Keep THEN 1 ELSE Len(done) - Keep + 1, Len(done))

\* loadPromptHistory: the read,
LoadReads(p) ==
    /\ at[p] = "idle"
    /\ at' = [at EXCEPT ![p] = "loading"]
    /\ raw' = [raw EXCEPT ![p] = history]
    /\ kept' = [kept EXCEPT ![p] = Compact(history)]
    /\ UNCHANGED <<history, entered, memoryVars>>

\* ... the opening of the file for writing, which empties it,
LoadTruncates(p) ==
    /\ at[p] = "loading"
    /\ at' = [at EXCEPT ![p] = "truncated"]
    /\ history' = <<>>
    /\ UNCHANGED <<entered, raw, kept, memoryVars>>

\* ... and the write, at the start of the file.  What others have written since
\* is overwritten; only lines that lie behind the end of this write stay
\* readable, and the line this end falls into does not.
LoadWrites(p) ==
    /\ at[p] = "truncated"
    /\ IF kept[p] = <<>>
       THEN UNCHANGED history
       ELSE \E k \in 2..(Len(history) + 1) \cup {Len(history) + 1} :
               history' = kept[p] \o SubSeq(history, k, Len(history))
    /\ at' = [at EXCEPT ![p] = "idle"]
    /\ raw' = [raw EXCEPT ![p] = <<>>] /\ kept' = [kept EXCEPT ![p] = <<>>]
    /\ UNCHANGED <<entered, memoryVars>>

\* The process is killed.
Dies(p) ==
    /\ at[p] # "gone"
    /\ at' = [at EXCEPT ![p] = "gone"]
    /\ saw' = [saw EXCEPT ![p] = {}]
    /\ target' = [target EXCEPT ![p] = None] /\ new' = [new EXCEPT ![p] = None]
    /\ raw' = [raw EXCEPT ![p] = <<>>] /\ kept' = [kept EXCEPT ![p] = <<>>]
    /\ UNCHANGED <<memory, used, history, entered>>

Next ==
    \E p \in Procs :
        \/ \E i \in Ids : AppendMemory(p, i) \/ \E m \in memory : SupersedeReads(p, m, i)
        \/ SupersedeRenames(p)
        \/ \E t \in Texts : AppendLine(p, t)
        \/ LoadReads(p) \/ LoadTruncates(p) \/ LoadWrites(p)
        \/ Dies(p)

Spec == Init /\ [][Next]_vars

-----------------------------------------------------------------------------
(* Properties *)

\* The chain of replacements is never broken: an entry is superseded exactly
\* if the file holds its replacement, and holds one only, however the rewrites
\* of several processes overlap.
SupersededHasSuccessor ==
    /\ \A m \in memory :
          Cardinality({r \in memory : r.supersedes = m.id}) = IF m.active THEN 0 ELSE 1
    /\ \A r \in memory : r.supersedes # None => \E m \in memory : m.id = r.supersedes

\* Lines that are in the file, or in the hands of a process about to write it.
Present == Range(history) \cup UNION {Range(kept[p]) : p \in {q \in Procs : at[q] = "truncated"}}

\* What compaction may drop: a line with Keep newer ones, or repeated by the next.
Outdated(lines, line) ==
    \E i \in DOMAIN lines :
        /\ lines[i] = line
        /\ Len(lines) - i >= Keep \/ (i < Len(lines) /\ lines[i + 1].text = line.text)

\* Nothing is lost but to the races and the deaths these files are open to: a
\* memory entry vanishes only in a rename of a process that read the file
\* without it; a history line only if it is outdated, if a process read the
\* file without it and writes it, or if a process dies with the file emptied.
LossExplained ==
    [][/\ \A m \in memory :
             (\A k \in memory' : k.id # m.id) =>
                 \E p \in Procs : at[p] = "superseding" /\ \A k \in saw[p] : k.id # m.id
       /\ \A line \in Present \ Present' :
             \E p \in Procs :
                 \/ at[p] = "truncated" /\ at'[p] = "gone"
                 \/ /\ at[p] \in {"loading", "truncated"}
                    /\ line \notin Range(raw[p]) \/ Outdated(raw[p], line)]_vars
=============================================================================

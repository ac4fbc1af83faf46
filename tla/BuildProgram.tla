---------------------------- MODULE BuildProgram ----------------------------
(***************************************************************************)
(* Saving, compiling and cataloging one BASIC program at D3: the tool      *)
(* d3_build_basic_program (kind "build"), which replaces the source it was *)
(* given a baseline of and then sends BASIC and CATALOG, and the task      *)
(* basic-check of the agents command (kind "check"), which reads and lints *)
(* the source, then compiles and catalogs what is there.                   *)
(*                                                                         *)
(* Others edit the same source meanwhile.  D3 reads it when BASIC starts   *)
(* and works on when the caller has given up.  A source is a number: 0 was *)
(* there, 1 is the one the tool saves, the others are those of other       *)
(* editors.  The object and what CATALOG prints are not modelled.          *)
(***************************************************************************)
EXTENDS Naturals

CONSTANTS
    MaxSource,  \* the highest number given to a source
    None        \* no source

VARIABLES
    kind,       \* "build" or "check"
    wants,      \* "compile", "catalog" or both
    refused,    \* the steps the permission policy refuses
    good,       \* the sources D3 compiles without error
    source,     \* the source at D3
    written,    \* sources so far, for the number of the next one
    task,       \* what D3 does for us: "none", "basic", "compiling", "catalog"
    read,       \* the source our BASIC read, or None
    output,     \* what BASIC printed: "none", "success", "errors", "other"
    lint,       \* the check's lint found no error in the source it read
    saved,      \* our source was written
    catalogued, \* our CATALOG ran
    pc,         \* the step of the caller
    told        \* its result

program == <<source, written>>
chosen == <<kind, wants, refused, good>>
vars == <<chosen, program, task, read, output, lint, saved, catalogued, pc, told>>

Steps == {"write", "compile", "catalog"}
Sources == 0..MaxSource
Mine == 1

TypeOK ==
    /\ kind \in {"build", "check"} /\ wants \subseteq {"compile", "catalog"}
    /\ refused \subseteq Steps /\ good \subseteq Sources
    /\ source \in Sources /\ written \in Sources
    /\ task \in {"none", "basic", "compiling", "catalog"}
    /\ read \in Sources \cup {None} /\ output \in {"none", "success", "errors", "other"}
    /\ lint \in BOOLEAN /\ saved \in BOOLEAN /\ catalogued \in BOOLEAN
    /\ pc \in {"begin", "save", "compile", "compiling", "catalog", "cataloging", "done"}
    /\ told \in {"none", "refused", "conflict", "unknown", "warning", "failed", "built",
                 "ready", "not ready"}

Init ==
    /\ kind \in {"build", "check"} /\ wants \in SUBSET {"compile", "catalog"}
    /\ refused \in SUBSET Steps /\ good \in SUBSET Sources
    /\ source = 0 /\ written = 1
    /\ task = "none" /\ read = None /\ output = "none"
    /\ lint = FALSE /\ saved = FALSE /\ catalogued = FALSE
    /\ pc = "begin" /\ told = "none"

-----------------------------------------------------------------------------
Tell(what) == told' = what /\ pc' = "done"

\* What follows once "saved" or "compiled" is done.
Proceed(from, done) ==
    IF from = "save" /\ "compile" \in wants THEN pc' = "compile" /\ UNCHANGED told
    ELSE IF "catalog" \in wants THEN pc' = "catalog" /\ UNCHANGED told
    ELSE Tell(done)

\* Mutant: each command is checked when it is sent.
AllowedOneByOne == "write" \notin refused

\* assertD3Allowed on every command, then on the write, before anything is sent.
Allowed == refused \cap (wants \cup {"write"}) = {}

BuildBegins ==
    /\ kind = "build" /\ pc = "begin"
    /\ IF Allowed /\ ("catalog" \in wants => "compile" \in wants)
       THEN pc' = "save" /\ UNCHANGED told
       ELSE Tell("refused")
    /\ UNCHANGED <<chosen, program, task, read, output, lint, saved, catalogued>>

\* saveEditorRecord: the record is replaced if it still is the baseline.
SaveServed ==
    /\ pc = "save"
    /\ IF source = 0
       THEN source' = Mine /\ saved' = TRUE /\ Proceed("save", "built")
       ELSE Tell("conflict") /\ UNCHANGED <<source, saved>>
    /\ UNCHANGED <<chosen, written, task, read, output, lint, catalogued>>

\* The answer is lost, before the record was replaced or after.
SaveUnknown ==
    /\ pc = "save"
    /\ Tell("unknown")
    /\ \/ UNCHANGED <<source, saved>>
       \/ source = 0 /\ source' = Mine /\ saved' = TRUE
    /\ UNCHANGED <<chosen, written, task, read, output, lint, catalogued>>

\* runBasicCheck reads and lints the source, or cannot read it.
CheckBegins ==
    /\ kind = "check" /\ pc = "begin"
    /\ \/ Tell("not ready") /\ UNCHANGED lint
       \/ /\ lint' \in BOOLEAN
          /\ Proceed("save", IF lint' THEN "ready" ELSE "not ready")
    /\ UNCHANGED <<chosen, program, task, read, output, saved, catalogued>>

\* The report once a step was blocked: catalog is skipped.
Stop == Tell(IF kind = "build" THEN "failed" ELSE "not ready")

\* runTcl of BASIC and of CATALOG: refused, or sent.
Send(step, doing, command) ==
    /\ pc = step
    /\ IF step \in refused THEN Stop /\ UNCHANGED task
       ELSE pc' = doing /\ task' = command /\ UNCHANGED told
    /\ UNCHANGED <<chosen, program, read, output, lint, saved, catalogued>>

SendBasic == Send("compile", "compiling", "basic")
SendCatalog == Send("catalog", "cataloging", "catalog")

BasicReads ==
    /\ task = "basic"
    /\ task' = "compiling" /\ read' = source
    /\ UNCHANGED <<chosen, program, output, lint, saved, catalogued, pc, told>>

\* Mutant: only printed errors count as failed, in both.
CleanUnlessErrors == output' # "errors"

\* The tool wants "[241] ... Successful compile"; the check wants no error it knows.
Clean == IF kind = "build" THEN output' = "success" ELSE output' # "errors"

\* BASIC ends; a caller that still waits judges what it printed.
BasicEnds ==
    /\ task = "compiling"
    /\ task' = "none"
    /\ output' \in IF read \in good THEN {"success"} ELSE {"errors", "other"}
    /\ IF pc # "compiling" THEN UNCHANGED <<pc, told>>
       ELSE IF Clean
       THEN Proceed("compile", IF kind = "build" THEN "built"
                               ELSE IF lint THEN "ready" ELSE "not ready")
       ELSE Tell(IF kind = "build" THEN "warning" ELSE "not ready")
    /\ UNCHANGED <<chosen, program, read, lint, saved, catalogued>>

\* CATALOG ends; nobody looks at what it printed.
CatalogEnds ==
    /\ task = "catalog"
    /\ task' = "none" /\ catalogued' = TRUE
    /\ IF pc # "cataloging" THEN UNCHANGED <<pc, told>>
       ELSE Tell(IF kind = "build" THEN "built" ELSE IF lint THEN "ready" ELSE "not ready")
    /\ UNCHANGED <<chosen, program, read, output, lint, saved>>

\* A timeout, an interrupt or a lost session.
GiveUp ==
    /\ pc \in {"compiling", "cataloging"}
    /\ Stop
    /\ UNCHANGED <<chosen, program, task, read, output, lint, saved, catalogued>>

OtherWrites ==
    /\ written < MaxSource
    /\ written' = written + 1 /\ source' = written'
    /\ UNCHANGED <<chosen, task, read, output, lint, saved, catalogued, pc, told>>

Next ==
    \/ BuildBegins \/ SaveServed \/ SaveUnknown \/ CheckBegins
    \/ SendBasic \/ SendCatalog \/ BasicReads \/ BasicEnds \/ CatalogEnds \/ GiveUp
    \/ OtherWrites

Spec == Init /\ [][Next]_vars

-----------------------------------------------------------------------------
(* Properties *)

\* What the tool says of the program is so, and stays so while D3 works on after
\* it gave up.  A refusal of any step, or a conflict, left source and
\* catalog alone.  A warning means saved, and that the compiler failed on a source
\* that was there after the save; built means saved and, if asked for, compiled
\* from such a source without error and catalogued.  CATALOG never follows a
\* failed compile of the tool.  The check is ready only if it found no error it
\* knows, and catalogs only then.
ToldIsTrue ==
    /\ told \in {"refused", "conflict"} => ~saved /\ task = "none" /\ read = None
    /\ saved => refused \cap wants = {}
    /\ told = "warning" => saved /\ read \notin good \cup {0, None} /\ ~catalogued
    /\ told = "built" =>
          /\ saved
          /\ "compile" \in wants => read \in good \ {0}
          /\ "catalog" \in wants => catalogued
    /\ kind = "build" /\ (catalogued \/ task = "catalog") => read \in good \ {0}
    /\ told = "ready" => lint /\ output # "errors" /\ refused \cap wants = {}
    /\ catalogued => output # "errors"
=============================================================================

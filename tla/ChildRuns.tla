----------------------------- MODULE ChildRuns ------------------------------
(***************************************************************************)
(* One program started by d3code and awaited with a timer and, for a D3    *)
(* command and a shell line, an abort signal.  Four functions do it, each  *)
(* in its own way: runProcess (kind "process"), runLocalShellCommand       *)
(* ("shell"), sidecarHealth ("health") and ensureSidecarStarted ("serve"). *)
(* What ends the wait first decides the result: the end of the program, a  *)
(* failed start, the timer, the abort or the first line of the sidecar.    *)
(*                                                                         *)
(* The program is a leader and, for a command, the workers it starts, which *)
(* may outlive it and keep its output open.  Output is not modelled but    *)
(* for that first line.                                                    *)
(***************************************************************************)
CONSTANTS
    Leader,     \* the process that is spawned
    Workers     \* processes that a command may start

VARIABLES
    kind,     \* which of the four functions runs the program
    timed,    \* it was given a timeout (a D3 command need not be)
    obeys,    \* the processes that end when they get SIGTERM
    started,  \* "no", "yes", or "failed": the program cannot be executed
    running,  \* the processes that run
    told,     \* the processes SIGTERM was sent to
    closed,   \* "close" or "error" has been handled
    timer,    \* the timer is armed
    aborted,  \* the caller's signal is aborted
    early,    \* it was when the function was called
    line,     \* the first line of the sidecar: "none", "ready" or "other"
    result    \* what the caller was told

vars == <<kind, timed, obeys, started, running, told, closed, timer, aborted, early,
          line, result>>

Kinds == {"process", "shell", "health", "serve"}
Processes == {Leader} \cup Workers
Abortable == kind \in {"process", "shell"}

TypeOK ==
    /\ kind \in Kinds /\ timed \in BOOLEAN /\ obeys \subseteq Processes
    /\ started \in {"no", "yes", "failed"}
    /\ running \subseteq Processes /\ told \subseteq Processes
    /\ closed \in BOOLEAN /\ timer \in BOOLEAN /\ aborted \in BOOLEAN /\ early \in BOOLEAN
    /\ line \in {"none", "ready", "other"}
    /\ result \in {"none", "exit", "error", "timeout", "interrupted", "ready", "failed", "crash"}

Init ==
    /\ kind \in Kinds /\ timed \in BOOLEAN /\ (kind # "process" => timed)
    /\ obeys \in SUBSET Processes
    /\ started = "no" /\ running = {} /\ told = {}
    /\ closed = FALSE /\ timer = FALSE
    /\ aborted = FALSE /\ early = FALSE
    /\ line = "none" /\ result = "none"

-----------------------------------------------------------------------------
\* Mutant: only the shell itself is killed.
KillsLeader == {Leader} \cap running

\* Who gets the SIGTERM: the process group of a shell line, else the program.
Kills == IF kind = "shell" THEN running ELSE {Leader} \cap running

\* Mutant: the timer stays armed.
FinishArmed(what) ==
    /\ result' = IF result = "none" THEN what ELSE result
    /\ UNCHANGED timer

\* finishResolve, finishReject, finish, resolve: the first one counts.
Finish(what) ==
    /\ result' = IF result = "none" THEN what ELSE result
    /\ timer' = FALSE

\* spawn.  runProcess looks at the signal before it listens for anything.
Start ==
    /\ started = "no"
    /\ started' \in {"yes", "failed"}
    /\ early' = aborted
    /\ IF kind = "process" /\ aborted
       THEN /\ told' = {Leader}
            /\ Finish("interrupted")
       ELSE /\ timer' = timed
            /\ UNCHANGED <<told, result>>
    /\ running' = IF started' = "yes" THEN {Leader} ELSE {}
    /\ UNCHANGED <<kind, timed, obeys, closed, aborted, line>>

\* "error": the program could not be executed.  Nobody listens if the call was
\* aborted before it began, and an event without listener ends d3code.
StartFails ==
    /\ started = "failed" /\ ~closed
    /\ closed' = TRUE
    /\ IF kind = "process" /\ early
       THEN result' = "crash" /\ UNCHANGED timer
       ELSE Finish("error")
    /\ UNCHANGED <<kind, timed, obeys, started, running, told, aborted, early, line>>

\* A process of a command that is not about to obey starts another one, which
\* holds the command's output open.
Fork(x) ==
    /\ Abortable /\ running \ (told \cap obeys) # {}
    /\ x \notin running \cup told
    /\ running' = running \cup {x}
    /\ UNCHANGED <<kind, timed, obeys, started, told, closed, timer, aborted, early, line, result>>

Exit(x) ==
    /\ x \in running
    /\ running' = running \ {x}
    /\ UNCHANGED <<kind, timed, obeys, started, told, closed, timer, aborted, early, line, result>>

Obeys(x) == x \in told \cap obeys /\ Exit(x)

\* "close": the program has ended and nobody holds its output.  The health check
\* looks at the first line and the exit code.
Close ==
    /\ started = "yes" /\ running = {} /\ ~closed
    /\ closed' = TRUE
    /\ CASE kind = "serve" -> Finish("failed")
         [] kind = "health" -> \E what \in {"failed"} \cup (IF line = "ready" THEN {"ready"} ELSE {}) :
                                  Finish(what)
         [] kind = "process" /\ early -> UNCHANGED <<timer, result>>
         [] OTHER -> Finish("exit")
    /\ UNCHANGED <<kind, timed, obeys, started, running, told, aborted, early, line>>

\* The timer fires; the wait for a shell line goes on.
Expire ==
    /\ timer
    /\ told' = told \cup Kills
    /\ IF kind = "shell" THEN timer' = FALSE /\ UNCHANGED result ELSE Finish("timeout")
    /\ UNCHANGED <<kind, timed, obeys, started, running, closed, aborted, early, line>>

\* The caller interrupts: before the call, during it or after it.
Abort ==
    /\ Abortable /\ ~aborted
    /\ aborted' = TRUE
    /\ IF started # "no" /\ ~closed /\ result = "none"
       THEN /\ told' = told \cup Kills
            /\ IF kind = "process" THEN Finish("interrupted") ELSE UNCHANGED <<timer, result>>
       ELSE UNCHANGED <<told, timer, result>>
    /\ UNCHANGED <<kind, timed, obeys, started, running, closed, early, line>>

\* The sidecar's first line arrives.
FirstLine(l) ==
    /\ kind \in {"health", "serve"} /\ started = "yes" /\ ~closed /\ line = "none"
    /\ line' = l
    /\ IF kind = "health" THEN UNCHANGED <<told, timer, result>>
       ELSE IF l = "ready" THEN Finish("ready") /\ UNCHANGED told
       ELSE Finish("failed") /\ told' = told \cup Kills
    /\ UNCHANGED <<kind, timed, obeys, started, running, closed, aborted, early>>

Next ==
    \/ Start \/ StartFails \/ Close \/ Expire \/ Abort
    \/ \E x \in Workers : Fork(x)
    \/ \E x \in Processes : Exit(x) \/ Obeys(x)
    \/ \E l \in {"ready", "other"} : FirstLine(l)

\* Events are handled, timers fire, and what obeys SIGTERM ends.  No program has
\* to end by itself, and nobody has to interrupt it.
Fairness ==
    /\ WF_vars(Start) /\ WF_vars(StartFails) /\ WF_vars(Close) /\ WF_vars(Expire)
    /\ \A x \in Processes : WF_vars(Obeys(x))

Spec == Init /\ [][Next]_vars /\ Fairness

-----------------------------------------------------------------------------
(* Properties *)

\* The caller is told what happened, whichever of timer, interrupt, end, failed
\* start and first line came first.  A sidecar reported as ready was never told to
\* stop, and is not afterwards by a timer that was left armed.  A D3 command that
\* ended was not told to stop.  A program that was given up was told to stop or
\* has ended, but for what a D3 command left working, which only a shell line
\* reaches; and d3code survives all of it unless a program that cannot be executed
\* was called with an aborted signal.
OneTrueOutcome ==
    /\ kind = "serve" /\ result = "ready" => told = {}
    /\ result = "exit" => running = {} /\ (kind = "process" => told = {})
    /\ result \in {"timeout", "interrupted", "failed", "error"} => Leader \notin running \ told
    /\ kind = "shell" /\ aborted /\ ~early /\ result = "none" => Leader \notin running \ told
    /\ result = "crash" => early /\ started = "failed"

\* A wait with a timer ends, however the program behaves; for a shell line, which
\* waits for the end of what it started, if all of that obeys SIGTERM.
Settles == (timed /\ (kind = "shell" => obeys = Processes)) ~> (result # "none")
=============================================================================

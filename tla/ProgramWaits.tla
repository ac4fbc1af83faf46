---------------------------- MODULE ProgramWaits ----------------------------
(***************************************************************************)
(* Two ways to wait for a program, side by side: a behaviour is one of a   *)
(* session (PersistentSession) or one of a program that is run once        *)
(* (ChildRuns), while the variables of the other stand still.  They share  *)
(* no state: a session's child is not run by one of the four functions.    *)
(***************************************************************************)
EXTENDS PersistentSession

CONSTANTS Leader, Workers    \* see ChildRuns

ASSUME WaitsAssumption == Leader \notin Workers

VARIABLES
    once,
    kind, timed, obeys, started, running, told, over, timer, aborted, early, line, result

Run == INSTANCE ChildRuns WITH closed <- over

runVars == <<kind, timed, obeys, started, running, told, over, timer, aborted, early, line,
             result>>
waitVars == <<once, vars, runVars>>

WaitInit ==
    /\ once \in BOOLEAN
    /\ Init /\ Run!Init
    /\ IF once THEN patterned ELSE kind = "process" /\ ~timed /\ obeys = {}

InSession(A) == ~once /\ A /\ UNCHANGED <<once, runVars>>
InRun(A) == once /\ A /\ UNCHANGED <<once, vars>>

WaitNext == InSession(Next) \/ InRun(Run!Next)

\* The fairness of both.
WaitFairness ==
    /\ WF_waitVars(InSession(Emit)) /\ WF_waitVars(InSession(closed /\ Exit))
    /\ \A c \in Calls :
          /\ WF_waitVars(InSession(PromptSeen(c))) /\ WF_waitVars(InSession(ReadyWrites(c)))
          /\ WF_waitVars(InSession(Answer(c))) /\ WF_waitVars(InSession(Forced(c)))
    /\ WF_waitVars(InRun(Run!Start)) /\ WF_waitVars(InRun(Run!StartFails))
    /\ WF_waitVars(InRun(Run!Close)) /\ WF_waitVars(InRun(Run!Expire))
    /\ \A x \in Run!Processes : WF_waitVars(InRun(Run!Obeys(x)))

WaitSpec == WaitInit /\ [][WaitNext]_waitVars /\ WaitFairness

-----------------------------------------------------------------------------
\* ChildRuns: the caller of a program is told what happened, whichever of timer,
\* interrupt, end, failed start and first line came first, and what was given up
\* has been told to stop.
OneTrueOutcome == Run!OneTrueOutcome

\* ChildRuns: a wait with a timer ends, however the program behaves.
Settles == Run!Settles
=============================================================================

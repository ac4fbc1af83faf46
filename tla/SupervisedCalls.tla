-------------------------- MODULE SupervisedCalls --------------------------
(***************************************************************************)
(* What a turn of the agent promises the operator, whatever it does to     *)
(* keep it: a call the policy wants approved runs only after the operator  *)
(* said yes to that very call, and on the profile the operator was shown;  *)
(* nothing starts once the turn is halted; and in a batch that changes     *)
(* something, calls go one by one, and a refusal is the end of the batch   *)
(* and of the turn.  Timers, the approval that is current, the settings of *)
(* the page and the loop's own counters are not visible here.              *)
(***************************************************************************)
EXTENDS Permissions

CONSTANTS
    Batches,    \* the responses of the model, sequences of calls
    Conns, ShellConns, None

VARIABLES
    mode,       \* the safety mode the turn was started with
    conn,       \* what the job's profile is now, None if there is none
    halted,     \* the turn was stopped
    over,       \* the turn has ended
    rounds,     \* responses gone by
    batch,      \* the calls of the current response
    stage,      \* stage[i]: "new", "asked", "running", "over" or "refused"
    seen,       \* seen[i]: the profile the operator was shown for call i, or None
    asked,      \* proposals shown so far, by round and place
    granted     \* those of this round the operator said yes to

vars == <<mode, conn, halted, over, rounds, batch, stage, seen, asked, granted>>

Init ==
    /\ mode \in Modes /\ conn \in Conns
    /\ halted = FALSE /\ over = FALSE
    /\ rounds = 0 /\ batch = <<>> /\ stage = <<>> /\ seen = <<>>
    /\ asked = {} /\ granted = {}

Changes == \E i \in DOMAIN batch : batch[i].mutates

\* In a batch that changes something, call i has its turn: those in front of it
\* have been dealt with, and none was refused.
InOrder(i) == Changes => \A j \in DOMAIN batch : j < i => stage[j] = "over"

Policy(i, confirmed) ==
    Verdict(mode, CommandRisk(batch[i].lines, conn \in ShellConns), confirmed)

Move(i, s) == stage' = [stage EXCEPT ![i] = s]

Request(b) ==
    /\ ~over /\ batch = <<>>
    /\ batch' = b
    /\ stage' = [i \in DOMAIN b |-> "new"] /\ seen' = [i \in DOMAIN b |-> None]
    /\ UNCHANGED <<mode, conn, halted, over, rounds, asked, granted>>

\* A call the policy lets pass.
StartFree(i) ==
    /\ stage[i] = "new" /\ ~halted /\ InOrder(i)
    /\ conn # None /\ Policy(i, FALSE) = "allowed"
    /\ Move(i, "running")
    /\ UNCHANGED <<mode, conn, halted, over, rounds, batch, seen, asked, granted>>

\* The operator is shown a call and the profile it would run on.
Propose(i) ==
    /\ stage[i] = "new" /\ InOrder(i) /\ mode # "plan"
    /\ Move(i, "asked")
    /\ \E c \in Conns : seen' = [seen EXCEPT ![i] = c]
    /\ asked' = asked \cup {<<rounds, i>>}
    /\ UNCHANGED <<mode, conn, halted, over, rounds, batch, granted>>

\* The operator says yes, in time or not.
Grant(id) ==
    /\ ~over
    /\ id \in asked /\ id[1] = rounds
    /\ granted' = granted \cup {id}
    /\ UNCHANGED <<mode, conn, halted, over, rounds, batch, stage, seen, asked>>

StartGranted(i) ==
    /\ stage[i] = "asked" /\ ~halted /\ InOrder(i)
    /\ <<rounds, i>> \in granted /\ conn = seen[i]
    /\ Policy(i, batch[i].accepts) = "allowed"
    /\ Move(i, "running")
    /\ UNCHANGED <<mode, conn, halted, over, rounds, batch, seen, asked, granted>>

Refuse(i) ==
    /\ stage[i] = "asked"
    /\ Move(i, "refused")
    /\ UNCHANGED <<mode, conn, halted, over, rounds, batch, seen, asked, granted>>

\* A call has run, or fails without.
Finish(i) ==
    /\ stage[i] \in {"new", "asked", "running"} /\ InOrder(i)
    /\ Move(i, "over")
    /\ UNCHANGED <<mode, conn, halted, over, rounds, batch, seen, asked, granted>>

\* The turn is stopped, or the profile changes, which may stop it.
Halt ==
    /\ ~over
    /\ halted' = TRUE
    /\ UNCHANGED <<mode, conn, over, rounds, batch, stage, seen, asked, granted>>

Edit(c) ==
    /\ ~over
    /\ conn' = c /\ halted' \in {halted, TRUE}
    /\ UNCHANGED <<mode, over, rounds, batch, stage, seen, asked, granted>>

\* Nothing of the batch goes on.  A refusal of a batch that changes something,
\* and a halt, end the turn.
EndRound ==
    /\ batch # <<>>
    /\ \A i \in DOMAIN batch : stage[i] \notin {"asked", "running"}
    /\ over' \in BOOLEAN
    /\ halted \/ (Changes /\ \E i \in DOMAIN batch : stage[i] = "refused") => over'
    /\ rounds' = rounds + 1
    /\ batch' = <<>> /\ stage' = <<>> /\ seen' = <<>> /\ granted' = {}
    /\ UNCHANGED <<mode, conn, halted, asked>>

EndTurn ==
    /\ ~over /\ batch = <<>>
    /\ over' = TRUE
    /\ UNCHANGED <<mode, conn, halted, rounds, batch, stage, seen, asked, granted>>

Next ==
    \/ \E b \in Batches : Request(b)
    \/ \E i \in DOMAIN batch :
          StartFree(i) \/ Propose(i) \/ StartGranted(i) \/ Refuse(i) \/ Finish(i)
    \/ \E id \in asked : Grant(id)
    \/ \E c \in Conns \cup {None} : Edit(c)
    \/ Halt \/ EndRound \/ EndTurn

Spec == Init /\ [][Next]_vars
=============================================================================

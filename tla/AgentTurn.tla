----------------------------- MODULE AgentTurn -----------------------------
(***************************************************************************)
(* One agent job of the workspace server: the turn loop of                 *)
(* runD3AgentTurn, the D3 tool calls of one model response, and the        *)
(* operator's approvals (awaitAgentApproval, POST /api/agent/approval),    *)
(* while the operator cancels, changes the safety mode, selects another    *)
(* profile, or somebody edits the profile.                                 *)
(*                                                                         *)
(* A tool call is what the policy sees of it.  An approval id (a UUID) is  *)
(* the round and the place of its call in the batch.  Steps are the code   *)
(* between two awaits, or less: some run to completion in one turn of the  *)
(* event loop, so the model has all interleavings of the code and more.    *)
(***************************************************************************)
EXTENDS Permissions, FiniteSets

CONSTANTS
    Tools,      \* the calls the model may request
    Conns,      \* fingerprints the job's profile can have (recordConnection)
    ShellConns, \* those that enter D3 through a host shell, or name no entry
    MaxRounds,  \* maxToolIterations
    MaxBatch,   \* calls in one response
    None

\* mutates: the tool's flag; lines: the risks of the lines it sends to D3;
\* accepts: it passes "confirmed" on to the policy.
ToolTypes == [mutates : BOOLEAN, lines : SUBSET Risks, accepts : BOOLEAN]

ASSUME TurnAssumption ==
    /\ Tools \subseteq ToolTypes
    /\ ShellConns \subseteq Conns
    /\ MaxRounds \in Nat /\ MaxBatch \in Nat \ {0}
    /\ None \notin Conns /\ None \notin Nat \X Nat

Batches == UNION {[1..n -> Tools] : n \in 1..MaxBatch}
Ids == (0..MaxRounds) \X (1..MaxBatch)

VARIABLES
    safety,     \* state.safety, as the operator sets it
    selected,   \* the operator's selected profile is the job's
    conn,       \* fingerprint of the job's profile, None if it is gone
    mode,       \* the job's own copy of the safety mode
    aborted,    \* turnSignal.aborted
    phase,      \* "model": awaiting chatFn; "batch"; "ended"
    rounds,     \* iteration
    repeated,   \* repeatedRequests
    failed,     \* failedRequests: failures of a call with the same cause
    batch,      \* toolRequests
    call,       \* where executeOne is, for each of them
    stopped,    \* approvalStopped
    proposed,   \* proposed[i]: the fingerprint shown to the operator
    verdict,    \* verdict[i]: how the approval of call i was settled
    current,    \* job.approval: the id the server accepts a decision for
    shown,      \* ids published to the operator (history)
    granted     \* ids of this batch the operator asked to approve (history)

envVars == <<safety, selected, conn>>
loopVars == <<phase, rounds, repeated, failed, batch>>
approvalVars == <<proposed, verdict, current, shown>>
vars == <<safety, selected, conn, mode, aborted, phase, rounds, repeated, failed,
          batch, call, stopped, proposed, verdict, current, shown, granted>>

CallStates == {"queued", "gated", "waiting", "running", "done", "failed"}
Verdicts == {"none", "pending", "approved", "declined", "expired", "invalidated",
             "cancelled"}

TypeOK ==
    /\ safety \in Modes /\ mode \in Modes /\ selected \in BOOLEAN
    /\ conn \in Conns \cup {None}
    /\ aborted \in BOOLEAN
    /\ phase \in {"model", "batch", "ended"}
    /\ rounds \in 0..MaxRounds
    /\ repeated \in [Tools -> 0..2] /\ failed \in [Tools -> 0..2]
    /\ batch \in Batches \cup {<<>>}
    /\ call \in [DOMAIN batch -> CallStates]
    /\ stopped \in {"", "incomplete", "declined", "changed"}
    /\ proposed \in [DOMAIN batch -> Conns \cup {None}]
    /\ verdict \in [DOMAIN batch -> Verdicts]
    /\ current \in Ids \cup {None}
    /\ granted \subseteq shown /\ shown \subseteq Ids

Init ==
    /\ safety \in Modes /\ mode = safety /\ selected = TRUE /\ conn \in Conns
    /\ aborted = FALSE
    /\ phase = "model" /\ rounds = 0
    /\ repeated = [t \in Tools |-> 0] /\ failed = [t \in Tools |-> 0]
    /\ batch = <<>> /\ call = <<>> /\ proposed = <<>> /\ verdict = <<>>
    /\ stopped = "" /\ current = None /\ shown = {} /\ granted = {}

Id(i) == <<rounds, i>>
Serial == \E i \in DOMAIN batch : batch[i].mutates
Settled(i) == call[i] \in {"done", "failed"}

\* The policy's answer to call i on the profile as it is now.
Policy(i, confirmed) ==
    Verdict(mode, CommandRisk(batch[i].lines, conn \in ShellConns), confirmed)

-----------------------------------------------------------------------------
(* The loop around the model.                                              *)

\* The turn is over: the final answer, a failed or aborted model request, an
\* unusable or blocked tool request.  executeAgentJob then resolves what is
\* left of job.approval.
EndTurn ==
    /\ phase = "model"
    /\ phase' = "ended"
    /\ current' = None
    /\ UNCHANGED <<envVars, mode, aborted, rounds, repeated, failed, batch, call, stopped,
                   proposed, verdict, shown, granted>>

Occurrences(b, t) == Cardinality({i \in DOMAIN b : b[i] = t})

\* The model requests calls, and every guard that precedes them holds.  An
\* abort during the request does not keep its answer from coming in.
Respond(b) ==
    /\ phase = "model"
    /\ rounds < MaxRounds
    /\ \A t \in Tools : Occurrences(b, t) > 0 => repeated[t] + Occurrences(b, t) < 3
    /\ repeated' = [t \in Tools |-> repeated[t] + Occurrences(b, t)]
    /\ phase' = "batch"
    /\ batch' = b
    /\ call' = [i \in DOMAIN b |-> "queued"]
    /\ proposed' = [i \in DOMAIN b |-> None]
    /\ verdict' = [i \in DOMAIN b |-> "none"]
    /\ UNCHANGED <<envVars, mode, aborted, rounds, failed, stopped, current, shown, granted>>

\* Mutant: a refusal does not keep the next call from starting.
MayBeginRegardless(i) ==
    Serial => /\ \A j \in DOMAIN batch : j < i => Settled(j)
              /\ i > 1 => ~aborted

\* What a serial batch checks before its next call; all calls of a batch
\* without mutations start at once.
MayBegin(i) == Serial => /\ \A j \in DOMAIN batch : j < i => Settled(j)
                         /\ i > 1 => stopped = "" /\ ~aborted

\* A call failed; the same cause again makes the count grow.
Fail(i) ==
    /\ call' = [call EXCEPT ![i] = "failed"]
    /\ \/ failed' = [failed EXCEPT ![batch[i]] = IF @ < 2 THEN @ + 1 ELSE 2]
       \/ UNCHANGED failed

\* Mutant: without turnSignal.throwIfAborted().
BeginAborted(i) ==
    /\ phase = "batch"
    /\ call[i] = "queued"
    /\ MayBegin(i)
    /\ LET v == Policy(i, FALSE) IN
       \/ (v = "denied" \/ conn = None) /\ Fail(i)
       \/ /\ v = "needs approval" /\ conn # None
          /\ call' = [call EXCEPT ![i] = "gated"] /\ UNCHANGED failed
       \/ /\ v = "allowed" /\ conn # None
          /\ call' = [call EXCEPT ![i] = "running"] /\ UNCHANGED failed
    /\ proposed' = IF call'[i] = "gated" THEN [proposed EXCEPT ![i] = conn] ELSE proposed
    /\ UNCHANGED <<envVars, mode, aborted, phase, rounds, repeated, batch, stopped,
                   verdict, current, shown, granted>>

\* executeOne up to the permission check in the tool; without a profile there
\* is no session for it.
Begin(i) ==
    /\ phase = "batch"
    /\ call[i] = "queued"
    /\ MayBegin(i)
    /\ \/ (aborted \/ conn = None) /\ Fail(i)
       \/ /\ ~aborted /\ conn # None
          /\ LET v == Policy(i, FALSE) IN
             \/ v = "denied" /\ Fail(i)
             \/ v = "needs approval" /\ call' = [call EXCEPT ![i] = "gated"] /\ UNCHANGED failed
             \/ v = "allowed" /\ call' = [call EXCEPT ![i] = "running"] /\ UNCHANGED failed
    /\ proposed' = IF call'[i] = "gated" THEN [proposed EXCEPT ![i] = conn] ELSE proposed
    /\ UNCHANGED <<envVars, mode, aborted, phase, rounds, repeated, batch, stopped,
                   verdict, current, shown, granted>>

\* D3 answers, refuses, times out or is interrupted.
Complete(i) ==
    /\ phase = "batch"
    /\ call[i] = "running"
    /\ \/ call' = [call EXCEPT ![i] = "done"] /\ UNCHANGED failed
       \/ Fail(i)
    /\ UNCHANGED <<envVars, mode, aborted, phase, rounds, repeated, batch, stopped,
                   approvalVars, granted>>

\* All results are in, or a serial batch was cut short.  The next round
\* starts unless an approval stopped the turn, a call keeps failing, or the
\* turn has been aborted (the first thing the loop looks at).
EndBatch ==
    /\ phase = "batch"
    /\ \A i \in DOMAIN batch :
          Settled(i) \/ (call[i] = "queued" /\ Serial /\ i > 1 /\ (stopped # "" \/ aborted))
    /\ rounds' = rounds + 1
    /\ phase' = IF \/ stopped # "" \/ aborted
                   \/ \E i \in DOMAIN batch : call[i] = "failed" /\ failed[batch[i]] = 2
                THEN "ended" ELSE "model"
    /\ current' = IF phase' = "ended" THEN None ELSE current
    /\ batch' = <<>> /\ call' = <<>> /\ proposed' = <<>> /\ verdict' = <<>>
    /\ granted' = {}
    /\ UNCHANGED <<envVars, mode, aborted, repeated, failed, stopped, shown>>

-----------------------------------------------------------------------------
(* Approvals.                                                              *)

\* D3ConfirmationRequiredError: the proposal is published and replaces the
\* one the server accepts decisions for.
Ask(i) ==
    /\ phase = "batch"
    /\ call[i] = "gated"
    /\ call' = [call EXCEPT ![i] = "waiting"]
    /\ stopped' = "incomplete"
    /\ shown' = shown \cup {Id(i)}
    /\ IF aborted
       THEN verdict' = [verdict EXCEPT ![i] = "cancelled"] /\ UNCHANGED current
       ELSE verdict' = [verdict EXCEPT ![i] = "pending"] /\ current' = Id(i)
    /\ UNCHANGED <<envVars, mode, aborted, loopVars, proposed, granted>>

\* Mutant: job.approval is not cleared.
SettleStillShown(i, v) ==
    /\ verdict' = [verdict EXCEPT ![i] = v]
    /\ UNCHANGED current

\* finish() of awaitAgentApproval.
Settle(i, v) ==
    /\ verdict' = [verdict EXCEPT ![i] = v]
    /\ current' = IF current = Id(i) THEN None ELSE current

\* POST /api/agent/approval is answered 409 for every id but the current one,
\* and settles that one according to the settings of this moment.
Decide(id, approved) ==
    /\ phase # "ended"
    /\ id \in shown
    /\ granted' = IF approved /\ id[1] = rounds THEN granted \cup {id} ELSE granted
    /\ \/ current # id /\ UNCHANGED <<verdict, current>>
       \/ /\ current = id
          /\ Settle(id[2], IF safety = "plan" \/ ~selected \/ conn # proposed[id[2]]
                           THEN "invalidated"
                           ELSE IF approved THEN "approved" ELSE "declined")
    /\ UNCHANGED <<envVars, mode, aborted, loopVars, call, stopped, proposed, shown>>

\* Mutant: the timer takes the approval from the operator but settles nothing.
ExpireUnsettled(i) ==
    /\ phase = "batch"
    /\ verdict[i] = "pending"
    /\ current' = IF current = Id(i) THEN None ELSE current
    /\ UNCHANGED <<envVars, mode, aborted, loopVars, call, stopped, proposed, verdict,
                   shown, granted>>

\* The 120-second timer of an approval.
Expire(i) ==
    /\ phase = "batch"
    /\ verdict[i] = "pending"
    /\ Settle(i, "expired")
    /\ UNCHANGED <<envVars, mode, aborted, loopVars, call, stopped, proposed, shown, granted>>

\* Mutant: the connection is not compared with the one proposed.
ResumeUnchecked(i) ==
    /\ phase = "batch"
    /\ call[i] = "waiting"
    /\ verdict[i] # "pending"
    /\ IF aborted \/ verdict[i] \in {"expired", "invalidated"}
       THEN Fail(i) /\ UNCHANGED stopped
       ELSE IF verdict[i] # "approved"
       THEN Fail(i) /\ stopped' = "declined"
       ELSE /\ stopped' = ""
            /\ IF Policy(i, batch[i].accepts) = "allowed"
               THEN call' = [call EXCEPT ![i] = "running"] /\ UNCHANGED failed
               ELSE Fail(i)
    /\ UNCHANGED <<envVars, mode, aborted, phase, rounds, repeated, batch, approvalVars, granted>>

\* The approval is settled, or the turn aborted: executeOne goes on.
Resume(i) ==
    /\ phase = "batch"
    /\ call[i] = "waiting"
    /\ verdict[i] # "pending"
    /\ IF aborted \/ verdict[i] \in {"expired", "invalidated"}
       THEN Fail(i) /\ UNCHANGED stopped
       ELSE IF verdict[i] # "approved"
       THEN Fail(i) /\ stopped' = "declined"
       ELSE IF conn # proposed[i]
       THEN Fail(i) /\ stopped' = "changed"
       ELSE /\ stopped' = ""
            /\ IF Policy(i, batch[i].accepts) = "allowed"
               THEN call' = [call EXCEPT ![i] = "running"] /\ UNCHANGED failed
               ELSE Fail(i)
    /\ UNCHANGED <<envVars, mode, aborted, phase, rounds, repeated, batch, approvalVars, granted>>

-----------------------------------------------------------------------------
(* Everybody else, as long as the turn runs.                               *)

\* Cancel, reset, or the turn's 180 seconds: onAbort settles every approval.
Abort ==
    /\ ~aborted
    /\ phase # "ended"
    /\ aborted' = TRUE
    /\ verdict' = [i \in DOMAIN verdict |->
                      IF verdict[i] = "pending" THEN "cancelled" ELSE verdict[i]]
    /\ current' = None
    /\ UNCHANGED <<envVars, mode, loopVars, call, stopped, proposed, shown, granted>>

\* POST /api/config/safety changes the operator's mode, not the job's.
SetSafety(m) ==
    /\ phase # "ended"
    /\ safety' = m
    /\ UNCHANGED <<selected, conn, mode, aborted, loopVars, call, stopped, approvalVars, granted>>

\* POST /api/profile: away from the job's profile or, while it exists, back to
\* it.  The safety default of the profile is taken over.
SelectProfile(m) ==
    /\ phase # "ended"
    /\ selected \/ conn # None
    /\ selected' = ~selected
    /\ safety' = m
    /\ UNCHANGED <<conn, mode, aborted, loopVars, call, stopped, approvalVars, granted>>

\* PUT or DELETE /api/profile/manage: the profile of the job is edited, renamed
\* or removed (None), or there again.  The jobs of the users who have it
\* selected are aborted, and a rename or a removal changes their selection.
EditProfile(c) ==
    /\ phase # "ended"
    /\ conn' = c
    /\ selected' = (selected /\ c # None)
    /\ IF selected /\ ~aborted
       THEN /\ aborted' = TRUE
            /\ verdict' = [i \in DOMAIN verdict |->
                              IF verdict[i] = "pending" THEN "cancelled" ELSE verdict[i]]
            /\ current' = None
       ELSE UNCHANGED <<aborted, verdict, current>>
    /\ UNCHANGED <<safety, mode, loopVars, call, stopped, proposed, shown, granted>>

-----------------------------------------------------------------------------
TurnStep ==
    \/ EndTurn \/ EndBatch
    \/ \E b \in Batches : Respond(b)
    \/ \E i \in DOMAIN batch : Begin(i) \/ Complete(i) \/ Ask(i) \/ Resume(i)

Timer == \E i \in DOMAIN batch : Expire(i)

Operator ==
    \/ \E id \in shown, approved \in BOOLEAN : Decide(id, approved)
    \/ Abort
    \/ \E m \in Modes : SetSafety(m) \/ SelectProfile(m)
    \/ \E c \in Conns \cup {None} : EditProfile(c)

Next == TurnStep \/ Timer \/ Operator

Spec == Init /\ [][Next]_vars

\* chatFn and D3 commands end (at the latest when the turn's timer aborts
\* them) and timers fire; the operator need not do anything.
Fairness == WF_vars(TurnStep) /\ WF_vars(Timer)

FairSpec == Spec /\ Fairness
-----------------------------------------------------------------------------
(* Properties.                                                             *)

\* A call that needed an approval runs only by its own: the operator said
\* yes to this id, the profile is still what the proposal showed, and the
\* turn has not been stopped in the meantime.
RunsAsApproved ==
    [][\A i \in DOMAIN call \cap DOMAIN call' :
          call[i] = "waiting" /\ call'[i] = "running" =>
             Id(i) \in granted /\ conn = proposed[i] /\ ~aborted]_vars

\* After a cancel, a reset, a profile edit or the turn timer no D3 command
\* is started, neither by the batch under way nor by a late response.
NothingStartsAfterAbort ==
    [][aborted => \A i \in DOMAIN call \cap DOMAIN call' :
                     call'[i] = "running" => call[i] = "running"]_vars

\* The call was not run because its approval failed.
Refused(i) ==
    call[i] = "failed" /\ verdict[i] \in {"declined", "expired", "invalidated", "cancelled"}

\* "Decline or failed approval stops the rest of the mutation batch"
\* (docs/production-verification-2026-10-25.md), and the turn with it; so
\* does an approval given for a profile that has changed since.
RefusalStopsBatch ==
    /\ Serial => \A i, j \in DOMAIN batch : i < j /\ Refused(i) => call[j] = "queued"
    /\ Serial /\ stopped = "changed" =>
          \A i \in DOMAIN batch : Settled(i) \/ call[i] = "queued"
    /\ phase = "model" => stopped = ""

\* In a batch with a mutation the pending approval is the one the server
\* shows and accepts, and the server never shows one that is not pending.
ShownIsPending ==
    /\ current # None => \E i \in DOMAIN batch : current = Id(i) /\ verdict[i] = "pending"
    /\ Serial => \A i \in DOMAIN batch : verdict[i] = "pending" => current = Id(i)

\* A turn started in plan mode neither runs nor proposes anything but reads,
\* whatever the mode becomes while it runs.
PlanReads ==
    mode = "plan" =>
        /\ shown = {}
        /\ \A i \in DOMAIN batch : call[i] = "running" => batch[i].lines \subseteq {"read"}

\* Every turn ends, even if the operator never answers.
TurnEnds == <>(phase = "ended")

-----------------------------------------------------------------------------
(* The abstract specification.                                             *)

\* How far the operator sees a call: a call that was proposed and not run,
\* because nobody said yes to it in time, was refused.
Stage ==
    [i \in DOMAIN batch |->
        CASE call[i] \in {"queued", "gated"} -> "new"
          [] call[i] = "waiting" -> "asked"
          [] call[i] = "running" -> "running"
          [] OTHER -> IF Refused(i) THEN "refused" ELSE "over"]

Seen == [i \in DOMAIN batch |-> IF call[i] \in {"queued", "gated"} THEN None ELSE proposed[i]]

Supervised == INSTANCE SupervisedCalls WITH
    halted <- aborted, over <- (phase = "ended"), stage <- Stage, seen <- Seen, asked <- shown

\* A turn is what the operator was promised of it: a call runs once, if at all,
\* and only if the policy lets it pass or the operator said yes to it for this
\* profile; nothing starts after a halt; a refusal in a batch that changes
\* something ends the batch and the turn.
ImplementsSupervision == Supervised!Spec
=============================================================================

--------------------------- MODULE RecordProtocol ---------------------------
(***************************************************************************)
(* The D3 record protocol as it runs: for each call the client side        *)
(* (writeEditorRecord / readEditorRecord over runRecordOperation), its own *)
(* D3 session, and the BASIC helper that reads the frames, locks the item, *)
(* compares, writes, reads back and releases.  Other D3 users work on the  *)
(* same item with READU, WRITE, DELETE and RELEASE; a plain WRITE waits    *)
(* for an item lock, as the live checks of the repository record.          *)
(*                                                                         *)
(* output[o] is what the client received since it sent its last line: it   *)
(* matches the whole of it, so two messages in one window are as unusable  *)
(* as a mangled one.  The content of the helper's response is status[o]    *)
(* and resp[o], which do not change once it has been printed.              *)
(* A line that reaches TCL after the program stopped is answered by TCL,   *)
(* which is one more reason for the client to give up and needs no action. *)
(***************************************************************************)
EXTENDS RecordTypes, Naturals

CONSTANTS
    Others,    \* other D3 users of the item
    Frames,    \* hex frames of an upload, before the "." that ends it
    Rewrites,  \* values a file trigger may store instead of a replacement
    Free       \* the item lock is free

ASSUME ProtocolAssumption ==
    /\ Frames \in Nat \ {0}
    /\ Rewrites \subseteq Values
    /\ Ops \cap Others = {}
    /\ Free \notin Ops \cup Others

VARIABLES
    record,    \* the item on D3
    lock,      \* holder of the item lock
    request,   \* request[o]: the call's parameters, None before it
    client,    \* client[o]: where runRecordOperation is
    sent,      \* sent[o]: number of the last line the client sent, 0 for RUN
    line,      \* line[o]: a line on its way to the D3 port
    output,    \* output[o]: received since the last line was sent
    helper,    \* helper[o]: where the BASIC program is
    frames,    \* frames[o]: FRAMES, the frames the helper has read
    view,      \* view[o]: CURRENT, what READ or READU found
    status,    \* status[o]: STATUS
    resp,      \* resp[o]: RESP, the bytes of the response
    stored,    \* stored[o]: what WRITEU put into the item (history)
    outcome,   \* outcome[o]: what the editor was answered
    original   \* original[o]: the bytes it got with the answer

d3Vars     == <<record, lock>>
clientVars == <<client, sent>>
helperVars == <<helper, frames, view, status, resp, stored>>
answerVars == <<outcome, original>>
vars == <<record, lock, request, client, sent, line, output, helper,
          frames, view, status, resp, stored, outcome, original>>

Statuses == {"READ", "OK", "ALREADY_EXISTS", "NOT_FOUND", "BUSY", "CONFLICT",
             "WRITE_DENIED", "WRITE_ERROR", "VERIFY_FAILED", "OPEN_FAILED",
             "UNSUPPORTED_BINARY", "BAD_REQUEST", "INPUT_TIMEOUT"}

TypeOK ==
    /\ record \in Contents
    /\ lock \in Ops \cup Others \cup {Free}
    /\ request \in [Ops -> Requests \cup {None}]
    /\ client \in [Ops -> {"idle", "waiting", "done"}]
    /\ sent \in [Ops -> 0..(Frames + 1)]
    /\ line \in [Ops -> {"none", "frame", "."}]
    /\ output \in [Ops -> {"nothing", "READY", "NEXT", "END", "garbled"}]
    /\ helper \in [Ops -> {"off", "boot", "input", "open", "locked", "written",
                           "finish", "ended"}]
    /\ frames \in [Ops -> 0..Frames]
    /\ view \in [Ops -> Contents \cup {None}]
    /\ status \in [Ops -> Statuses]
    /\ resp \in [Ops -> Values \cup {None}]
    /\ stored \in [Ops -> Values \cup {None}]
    /\ outcome \in [Ops -> Outcomes]
    /\ original \in [Ops -> Values \cup {None}]

Init ==
    /\ record \in Contents
    /\ lock = Free
    /\ request = [o \in Ops |-> None]
    /\ client = [o \in Ops |-> "idle"]
    /\ sent = [o \in Ops |-> 0]
    /\ line = [o \in Ops |-> "none"]
    /\ output = [o \in Ops |-> "nothing"]
    /\ helper = [o \in Ops |-> "off"]
    /\ frames = [o \in Ops |-> 0]
    /\ view = [o \in Ops |-> None]
    /\ status = [o \in Ops |-> "BAD_REQUEST"]
    /\ resp = [o \in Ops |-> None]
    /\ stored = [o \in Ops |-> None]
    /\ outcome = [o \in Ops |-> "none"]
    /\ original = [o \in Ops |-> None]

-----------------------------------------------------------------------------
(* The client: readEditorRecord, writeEditorRecord, runRecordOperation.    *)

\* The checks before the native operation throw: no session is opened.
Refuse(o) ==
    /\ client[o] = "idle"
    /\ \E r \in Requests :
          /\ RefusedAtOnce(r)
          /\ request' = [request EXCEPT ![o] = r]
    /\ client' = [client EXCEPT ![o] = "done"]
    /\ outcome' = [outcome EXCEPT ![o] = "refused"]
    /\ UNCHANGED <<d3Vars, sent, line, output, helperVars, original>>

\* A session is created and RUN bp D3CODE.RECORD... is typed into it.
Start(o) ==
    /\ client[o] = "idle"
    /\ \E r \in Requests :
          /\ ~RefusedAtOnce(r)
          /\ request' = [request EXCEPT ![o] = r]
    /\ client' = [client EXCEPT ![o] = "waiting"]
    /\ helper' = [helper EXCEPT ![o] = "boot"]
    /\ UNCHANGED <<d3Vars, sent, line, output, frames, view, status, resp,
                   stored, answerVars>>

\* assertRecordReady and assertRecordNext: the acknowledgement of the line
\* sent last, and nothing else.
Acknowledged(o) ==
    \/ sent[o] = 0 /\ output[o] = "READY"
    \/ sent[o] \in 1..Frames /\ output[o] = "NEXT" /\ frames[o] = sent[o]

\* One frame per acknowledgement, and "." after the last one.
SendLine(o) ==
    /\ client[o] = "waiting"
    /\ Acknowledged(o)
    /\ sent' = [sent EXCEPT ![o] = @ + 1]
    /\ line' = [line EXCEPT ![o] = IF sent[o] < Frames THEN "frame" ELSE "."]
    /\ output' = [output EXCEPT ![o] = "nothing"]
    /\ UNCHANGED <<d3Vars, request, client, helperVars, answerVars>>

\* responseError, and the comparison of the readback with the draft.
OutcomeOf(r, s, bytes) ==
    IF s = "READ" /\ r.kind = "READ" THEN "read"
    ELSE IF s = "OK" /\ IsWrite(r) /\ bytes = r.replacement THEN "saved"
    ELSE IF s = "ALREADY_EXISTS" THEN "exists"
    ELSE IF s = "CONFLICT" THEN "conflict"
    ELSE IF s = "BUSY" THEN "busy"
    ELSE IF s \in {"NOT_FOUND", "OPEN_FAILED"} THEN "missing"
    ELSE IF s = "WRITE_DENIED" THEN "refused"
    ELSE IF s = "UNSUPPORTED_BINARY" THEN "unsupported"
    ELSE "unknown"

\* parseRecordResponse accepts the whole response; the session is closed
\* (finally) before the editor gets its answer.
Answer(o) ==
    /\ client[o] = "waiting"
    /\ sent[o] = Frames + 1
    /\ output[o] = "END"
    /\ client' = [client EXCEPT ![o] = "done"]
    /\ output' = [output EXCEPT ![o] = "nothing"]
    /\ LET answer == OutcomeOf(request[o], status[o], resp[o])
       IN  /\ outcome' = [outcome EXCEPT ![o] = answer]
           /\ original' = [original EXCEPT ![o] =
                              IF answer \in {"read", "saved"} THEN resp[o] ELSE None]
    /\ UNCHANGED <<d3Vars, request, sent, line, helperVars>>

\* A timeout, an abort, a lost connection, or output that is not the message
\* expected.  The session is closed and the answer is the 503 that leaves the
\* result open.  A line already on its way may still arrive.  The OFF that
\* close() types is, to a helper still reading, one more bad frame that no
\* terminator can follow.
GiveUp(o) ==
    /\ client[o] = "waiting"
    /\ client' = [client EXCEPT ![o] = "done"]
    /\ output' = [output EXCEPT ![o] = "nothing"]
    /\ outcome' = [outcome EXCEPT ![o] = "unknown"]
    /\ UNCHANGED <<d3Vars, request, sent, line, helperVars, original>>

-----------------------------------------------------------------------------
(* The helper program.                                                     *)

\* What the session prints reaches the client while it waits.
Emit(o, message) ==
    output' = IF client[o] # "waiting" THEN output
              ELSE [output EXCEPT ![o] = IF @ = "nothing" THEN message ELSE "garbled"]

\* STATUS = s; GOTO FINISH
Stop(o, s) ==
    /\ status' = [status EXCEPT ![o] = s]
    /\ helper' = [helper EXCEPT ![o] = "finish"]

\* Mutant: the item is opened, and then locked, before the upload.
HelperReadyOpens(o) ==
    /\ helper[o] = "boot"
    /\ helper' = [helper EXCEPT ![o] = "open"]
    /\ Emit(o, "READY")
    /\ UNCHANGED <<d3Vars, request, clientVars, line, frames, view, status,
                   resp, stored, answerVars>>

\* The program starts and asks for the first frame.
HelperReady(o) ==
    /\ helper[o] = "boot"
    /\ helper' = [helper EXCEPT ![o] = "input"]
    /\ Emit(o, "READY")
    /\ UNCHANGED <<d3Vars, request, clientVars, line, frames, view, status,
                   resp, stored, answerVars>>

\* No such program, or another build: TCL answers, not the helper.
HelperMissing(o) ==
    /\ helper[o] = "boot"
    /\ helper' = [helper EXCEPT ![o] = "ended"]
    /\ Emit(o, "garbled")
    /\ UNCHANGED <<d3Vars, request, clientVars, line, frames, view, status,
                   resp, stored, answerVars>>

\* INPUT LINE reads a hex frame and acknowledges it with its number.  The
\* client never exceeds MAX.FRAMES, so the helper's own cap is not reached.
ReadFrame(o) ==
    /\ helper[o] = "input"
    /\ line[o] = "frame"
    /\ frames[o] < Frames
    /\ frames' = [frames EXCEPT ![o] = @ + 1]
    /\ line' = [line EXCEPT ![o] = "none"]
    /\ Emit(o, "NEXT")
    /\ UNCHANGED <<d3Vars, request, clientVars, helper, view, status, resp,
                   stored, answerVars>>

\* "." ends the upload: its length must be the one the header declares, and
\* the helper checks the write scope for itself.
ReadTerminator(o) ==
    /\ helper[o] = "input"
    /\ line[o] = "."
    /\ line' = [line EXCEPT ![o] = "none"]
    /\ IF frames[o] # Frames THEN Stop(o, "BAD_REQUEST")
       ELSE IF IsWrite(request[o]) /\ ~request[o].writable THEN Stop(o, "WRITE_DENIED")
       ELSE helper' = [helper EXCEPT ![o] = "open"] /\ UNCHANGED status
    /\ UNCHANGED <<d3Vars, request, clientVars, output, frames, view, resp,
                   stored, answerVars>>

\* Mutant: the timer runs only while input is arriving.
InputTimeoutOnLine(o) ==
    /\ helper[o] = "input"
    /\ line[o] # "none"
    /\ Stop(o, "INPUT_TIMEOUT")
    /\ UNCHANGED <<d3Vars, request, clientVars, line, output, frames, view,
                   resp, stored, answerVars>>

\* INPUT ... FOR 100 ELSE: ten seconds without a line.
InputTimeout(o) ==
    /\ helper[o] = "input"
    /\ Stop(o, "INPUT_TIMEOUT")
    /\ UNCHANGED <<d3Vars, request, clientVars, line, output, frames, view,
                   resp, stored, answerVars>>

OpenFails(o) ==
    /\ helper[o] = "open"
    /\ Stop(o, "OPEN_FAILED")
    /\ UNCHANGED <<d3Vars, request, clientVars, line, output, frames, view,
                   resp, stored, answerVars>>

\* MODE 1: READ takes no lock.
ReadItem(o) ==
    /\ helper[o] = "open"
    /\ ~IsWrite(request[o])
    /\ view' = [view EXCEPT ![o] = record]
    /\ IF record = Absent THEN Stop(o, "NOT_FOUND")
       ELSE IF record \in Unsupported THEN Stop(o, "UNSUPPORTED_BINARY")
       ELSE Stop(o, "READ")
    /\ resp' = [resp EXCEPT ![o] = IF record \in Payloads THEN record ELSE None]
    /\ UNCHANGED <<d3Vars, request, clientVars, line, output, frames, stored,
                   answerVars>>

\* READU ... LOCKED: the helper does not wait for another holder.
ItemBusy(o) ==
    /\ helper[o] = "open"
    /\ IsWrite(request[o])
    /\ lock # Free
    /\ Stop(o, "BUSY")
    /\ UNCHANGED <<d3Vars, request, clientVars, line, output, frames, view,
                   resp, stored, answerVars>>

\* Mutant: the lock is taken whoever holds it.
LockItemTakenOver(o) ==
    /\ helper[o] = "open"
    /\ IsWrite(request[o])
    /\ lock' = o
    /\ view' = [view EXCEPT ![o] = record]
    /\ helper' = [helper EXCEPT ![o] = "locked"]
    /\ UNCHANGED <<record, request, clientVars, line, output, frames, status,
                   resp, stored, answerVars>>

\* READU: the item is locked, whether it exists or not, and read.
LockItem(o) ==
    /\ helper[o] = "open"
    /\ IsWrite(request[o])
    /\ lock = Free
    /\ lock' = o
    /\ view' = [view EXCEPT ![o] = record]
    /\ helper' = [helper EXCEPT ![o] = "locked"]
    /\ UNCHANGED <<record, request, clientVars, line, output, frames, status,
                   resp, stored, answerVars>>

\* One of the checks under the lock fails; a conflict returns the bytes.
RefuseWrite(o) ==
    /\ helper[o] = "locked"
    /\ RefusalOf(request[o], view[o]) # ""
    /\ Stop(o, RefusalOf(request[o], view[o]))
    /\ resp' = [resp EXCEPT ![o] =
                   IF RefusalOf(request[o], view[o]) = "CONFLICT" THEN view[o] ELSE None]
    /\ UNCHANGED <<d3Vars, request, clientVars, line, output, frames, view,
                   stored, answerVars>>

\* Mutant: WRITE instead of WRITEU releases the lock with the write.
WriteItemReleasing(o) ==
    /\ helper[o] = "locked"
    /\ RefusalOf(request[o], view[o]) = ""
    /\ record' = request[o].replacement
    /\ stored' = [stored EXCEPT ![o] = request[o].replacement]
    /\ lock' = Free
    /\ helper' = [helper EXCEPT ![o] = "written"]
    /\ UNCHANGED <<request, clientVars, line, output, frames, view, status,
                   resp, answerVars>>

\* WRITEU keeps the lock; a trigger of the file may store something else.
WriteItem(o) ==
    /\ helper[o] = "locked"
    /\ RefusalOf(request[o], view[o]) = ""
    /\ \E v \in {request[o].replacement} \cup Rewrites :
          /\ record' = v
          /\ stored' = [stored EXCEPT ![o] = v]
    /\ helper' = [helper EXCEPT ![o] = "written"]
    /\ UNCHANGED <<lock, request, clientVars, line, output, frames, view,
                   status, resp, answerVars>>

\* WRITEU ... ON ERROR
WriteFails(o) ==
    /\ helper[o] = "locked"
    /\ RefusalOf(request[o], view[o]) = ""
    /\ Stop(o, "WRITE_ERROR")
    /\ UNCHANGED <<d3Vars, request, clientVars, line, output, frames, view,
                   resp, stored, answerVars>>

\* READ RESP, still under the lock, and the comparison with REPLACEMENT.
ReadBack(o) ==
    /\ helper[o] = "written"
    /\ IF record = request[o].replacement THEN Stop(o, "OK") ELSE Stop(o, "VERIFY_FAILED")
    /\ resp' = [resp EXCEPT ![o] = IF record \in Payloads THEN record ELSE None]
    /\ UNCHANGED <<d3Vars, request, clientVars, line, output, frames, view,
                   stored, answerVars>>

\* Mutant: the response is printed without RELEASE.
FinishLocked(o) ==
    /\ helper[o] = "finish"
    /\ helper' = [helper EXCEPT ![o] = "ended"]
    /\ Emit(o, "END")
    /\ UNCHANGED <<record, lock, request, clientVars, line, frames, view, status,
                   resp, stored, answerVars>>

\* FINISH: RELEASE if the lock is held, then print the response.
Finish(o) ==
    /\ helper[o] = "finish"
    /\ helper' = [helper EXCEPT ![o] = "ended"]
    /\ lock' = IF lock = o THEN Free ELSE lock
    /\ Emit(o, "END")
    /\ UNCHANGED <<record, request, clientVars, line, frames, view, status,
                   resp, stored, answerVars>>

-----------------------------------------------------------------------------
(* The connection and the other users of the item.                         *)

\* The connection drops or the client closes it: D3 logs the port off,
\* wherever its program is, and frees its locks.
HangUp(o) ==
    /\ helper[o] \notin {"off", "ended"}
    /\ helper' = [helper EXCEPT ![o] = "ended"]
    /\ lock' = IF lock = o THEN Free ELSE lock
    /\ UNCHANGED <<record, request, clientVars, line, output, frames, view,
                   status, resp, stored, answerVars>>

OtherLock(t) ==
    /\ lock = Free
    /\ lock' = t
    /\ UNCHANGED <<record, request, clientVars, line, output, helperVars, answerVars>>

OtherRelease(t) ==
    /\ lock = t
    /\ lock' = Free
    /\ UNCHANGED <<record, request, clientVars, line, output, helperVars, answerVars>>

\* WRITE and DELETE wait for a lock held by anybody else.
OtherWrite(t) ==
    /\ lock \in {Free, t}
    /\ record' \in Contents
    /\ UNCHANGED <<lock, request, clientVars, line, output, helperVars, answerVars>>

-----------------------------------------------------------------------------
ClientStep(o) == SendLine(o) \/ Answer(o) \/ GiveUp(o)

HelperStep(o) ==
    \/ HelperReady(o) \/ HelperMissing(o) \/ ReadFrame(o) \/ ReadTerminator(o)
    \/ InputTimeout(o) \/ OpenFails(o) \/ ReadItem(o)
    \/ ItemBusy(o) \/ LockItem(o) \/ RefuseWrite(o) \/ WriteItem(o)
    \/ WriteFails(o) \/ ReadBack(o) \/ Finish(o)

OtherStep(t) == OtherLock(t) \/ OtherRelease(t) \/ OtherWrite(t)

Next ==
    \/ \E o \in Ops : Refuse(o) \/ Start(o) \/ ClientStep(o) \/ HelperStep(o) \/ HangUp(o)
    \/ \E t \in Others : OtherStep(t)

Spec == Init /\ [][Next]_vars

\* Timers fire and programs run; nobody has to call, unlock or hang up.
Fairness == \A o \in Ops : WF_vars(ClientStep(o)) /\ WF_vars(HelperStep(o))

FairSpec == Spec /\ Fairness
-----------------------------------------------------------------------------
(* Properties.                                                             *)

Register == INSTANCE RecordRegister
    WITH record <- record, request <- request, view <- view, stored <- stored,
         outcome <- outcome, original <- original

\* The protocol implements the register: every change of the item by a call
\* is one atomic compare-and-replace or create, at most one per call, and
\* every answer of records.ts is justified, "saved" by the bytes stored and
\* a refusal by what the call saw.
ImplementsRegister == Register!Spec

\* "All request frames arrive before the helper takes an item lock"
\* (docs/production-verification-2026-10-25.md): a slow or broken upload
\* never holds the item.
LockAfterUpload == \A o \in Ops : lock = o => sent[o] = Frames + 1 /\ frames[o] = Frames

\* Readback happens before anyone else can touch the item (WRITEU keeps the
\* lock until RELEASE), so VERIFY_FAILED is never a false alarm caused by a
\* later writer: D3 really stored something else.
VerifyFailureIsReal ==
    \A o \in Ops : status[o] = "VERIFY_FAILED" => stored[o] # request[o].replacement

\* What status[o] says happened did happen: the inductive reason for which
\* every answer is justified.
StatusTrue(o) ==
    LET r == request[o]  s == status[o] IN
    /\ s = "READ" => r.kind = "READ" /\ view[o] \in Payloads /\ resp[o] = view[o]
    /\ s = "OK" => IsWrite(r) /\ stored[o] = r.replacement
    /\ s = "ALREADY_EXISTS" => r.kind = "CREATE_ONLY" /\ view[o] \in Values
    /\ s = "CONFLICT" => r.kind = "CAS_EXISTING" /\ view[o] \in Values \ {r.expected}
    /\ s = "BUSY" => IsWrite(r)
    /\ s = "NOT_FOUND" => view[o] = Absent
    /\ s = "UNSUPPORTED_BINARY" => view[o] \in Unsupported
    /\ s \in {"BUSY", "OPEN_FAILED"} => view[o] = None
    /\ s \in Statuses \ {"OK", "VERIFY_FAILED", "BAD_REQUEST"} => stored[o] = None
    /\ s = "VERIFY_FAILED" => stored[o] # r.replacement
    /\ s # "WRITE_DENIED"

\* The client and the helper of one call agree on how far it has come.
StageTrue(o) ==
    /\ client[o] = "idle" <=> request[o] = None
    /\ client[o] = "idle" => helper[o] = "off"
    /\ client[o] # "done" => outcome[o] = "none" /\ original[o] = None
    /\ helper[o] # "off" => request[o] # None /\ ~RefusedAtOnce(request[o])
    /\ helper[o] \notin {"off", "ended"} => outcome[o] \in {"none", "unknown"}
    /\ helper[o] \notin {"finish", "ended"} => status[o] = "BAD_REQUEST"
    /\ helper[o] \in {"off", "boot", "input", "open"} => view[o] = None /\ stored[o] = None
    /\ helper[o] = "open" \/ lock = o => sent[o] = Frames + 1 /\ frames[o] = Frames
    /\ output[o] = "END" => helper[o] = "ended"
    /\ line[o] = "." => sent[o] = Frames + 1

\* The lock protects what the helper read until it has read it back.
LockProtects(o) ==
    /\ lock = o => helper[o] \in {"locked", "written", "finish"}
    /\ helper[o] \in {"locked", "written"} => lock = o /\ IsWrite(request[o])
    /\ helper[o] = "locked" => view[o] = record /\ stored[o] = None
    /\ helper[o] = "written" => stored[o] = record

\* The inductive invariant behind the theorems of RecordProtocolProofs.
CallInv(o) == StatusTrue(o) /\ StageTrue(o) /\ LockProtects(o)
Inv == TypeOK /\ \A o \in Ops : CallInv(o)

\* Among editors alone: of several creators one succeeds, and of several
\* replacements of one baseline one succeeds unless the baseline came back.
Creator(o) == stored[o] # None /\ request[o].kind = "CREATE_ONLY"
Replacer(o) == stored[o] # None /\ request[o].kind = "CAS_EXISTING"
OneWinner ==
    Others = {} =>
        \A o, p \in Ops : o # p =>
            /\ ~(Creator(o) /\ Creator(p))
            /\ Replacer(o) /\ Replacer(p) /\ request[o].expected = request[p].expected
                  => \E q \in Ops : stored[q] = request[o].expected

\* No call keeps the item locked: not when it is refused, fails, or is
\* abandoned by its client while the helper works.
LockReleased == \A o \in Ops : lock = o ~> lock # o

\* Every call settles: the editor gets its answer and no D3 port is left
\* occupied, even when the upload is abandoned halfway (the INPUT timeout)
\* and D3 never notices that the client has gone.
CallSettles ==
    \A o \in Ops : client[o] = "waiting" ~> client[o] = "done" /\ helper[o] = "ended"
=============================================================================

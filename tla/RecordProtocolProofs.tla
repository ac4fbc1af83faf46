------------------------ MODULE RecordProtocolProofs ------------------------
(***************************************************************************)
(* Proofs about RecordProtocol, for any number of calls, other users,      *)
(* values, frames and triggers: the types, the inductive invariant Inv,    *)
(* the safety properties it implies, and that the protocol implements      *)
(* RecordRegister.                                                         *)
(***************************************************************************)
EXTENDS RecordProtocol, TLAPS

\* A refusal under the lock is one of the statuses, never one of those that
\* an upload, an open or a readback ends with.
LEMMA RefusalStatus ==
    ASSUME NEW r, NEW c
    PROVE  RefusalOf(r, c) \in {"", "ALREADY_EXISTS", "UNSUPPORTED_BINARY",
                                "NOT_FOUND", "CONFLICT"}
BY DEF RefusalOf

\* A request that passed the client's checks: its fields have their types,
\* and the payloads of a write are bytes the item can hold.
LEMMA RequestFields ==
    ASSUME NEW r \in Requests
    PROVE  /\ r # None
           /\ r.kind \in {"READ", "CREATE_ONLY", "CAS_EXISTING"}
           /\ r.writable \in BOOLEAN /\ r.permitted \in BOOLEAN
           /\ IsWrite(r) => r.replacement \in Payloads
           /\ r.kind = "CAS_EXISTING" => r.expected \in Payloads
BY TypesAssumption DEF AllRequests, IsWrite

-----------------------------------------------------------------------------
(* The inductive invariant.                                                *)

\* Nothing that belongs to call p changes.
Same(p) ==
    /\ request'[p] = request[p] /\ client'[p] = client[p] /\ sent'[p] = sent[p]
    /\ line'[p] = line[p] /\ output'[p] = output[p] /\ helper'[p] = helper[p]
    /\ frames'[p] = frames[p] /\ view'[p] = view[p] /\ status'[p] = status[p]
    /\ resp'[p] = resp[p] /\ stored'[p] = stored[p]
    /\ outcome'[p] = outcome[p] /\ original'[p] = original[p]

\* A step of somebody else disturbs a call's invariant only by taking its
\* lock away or by writing the item it holds locked.
LEMMA Frame ==
    ASSUME NEW p \in Ops, CallInv(p), Same(p),
           lock' = p <=> lock = p,
           record' = record \/ lock # p
    PROVE  CallInv(p)'
BY DEF CallInv, StatusTrue, StageTrue, LockProtects, Same

\* A call refused before any session is opened keeps Inv.
LEMMA RefuseInv ==
    ASSUME Inv, NEW o \in Ops, Refuse(o) PROVE Inv'
<1> USE TypesAssumption, ProtocolAssumption
<1>1. TypeOK'
  BY DEF Inv, TypeOK, d3Vars, clientVars, helperVars, answerVars, Refuse, Outcomes
<1>2. CallInv(o)'
  BY DEF Inv, TypeOK, Refuse, CallInv, StatusTrue, StageTrue, LockProtects,
         d3Vars, clientVars, helperVars, answerVars
<1>3. ASSUME NEW p \in Ops, p # o PROVE CallInv(p)'
  <2>1. Same(p) /\ (lock' = p <=> lock = p) /\ (record' = record \/ lock # p)
    BY <1>3 DEF Inv, CallInv, LockProtects, TypeOK, Refuse, Same,
                d3Vars, clientVars, helperVars, answerVars
  <2> QED
    BY <1>3, <2>1, Frame DEF Inv
<1> QED
  BY <1>1, <1>2, <1>3 DEF Inv

\* Opening the session and typing RUN keeps Inv.
LEMMA StartInv ==
    ASSUME Inv, NEW o \in Ops, Start(o) PROVE Inv'
<1> USE TypesAssumption, ProtocolAssumption
<1>1. TypeOK'
  BY DEF Inv, TypeOK, d3Vars, clientVars, helperVars, answerVars, Start
<1>2. CallInv(o)'
  BY DEF Inv, TypeOK, Start, CallInv, StatusTrue, StageTrue, LockProtects,
         d3Vars, clientVars, helperVars, answerVars
<1>3. ASSUME NEW p \in Ops, p # o PROVE CallInv(p)'
  <2>1. Same(p) /\ (lock' = p <=> lock = p) /\ (record' = record \/ lock # p)
    BY <1>3 DEF Inv, CallInv, LockProtects, TypeOK, Start, Same,
                d3Vars, clientVars, helperVars, answerVars
  <2> QED
    BY <1>3, <2>1, Frame DEF Inv
<1> QED
  BY <1>1, <1>2, <1>3 DEF Inv

\* Sending the next frame, or the terminator, keeps Inv.
LEMMA SendLineInv ==
    ASSUME Inv, NEW o \in Ops, SendLine(o) PROVE Inv'
<1> USE TypesAssumption, ProtocolAssumption
<1>1. TypeOK'
  BY DEF Inv, TypeOK, d3Vars, clientVars, helperVars, answerVars, SendLine, Acknowledged
<1>2. CallInv(o)'
  BY DEF Inv, TypeOK, SendLine, Acknowledged, CallInv, StatusTrue, StageTrue, LockProtects,
         d3Vars, clientVars, helperVars, answerVars
<1>3. ASSUME NEW p \in Ops, p # o PROVE CallInv(p)'
  <2>1. Same(p) /\ (lock' = p <=> lock = p) /\ (record' = record \/ lock # p)
    BY <1>3 DEF Inv, CallInv, LockProtects, TypeOK, SendLine, Acknowledged, Same,
                d3Vars, clientVars, helperVars, answerVars
  <2> QED
    BY <1>3, <2>1, Frame DEF Inv
<1> QED
  BY <1>1, <1>2, <1>3 DEF Inv

\* Accepting the response and answering the editor keeps Inv.
LEMMA AnswerInv ==
    ASSUME Inv, NEW o \in Ops, Answer(o) PROVE Inv'
<1> USE TypesAssumption, ProtocolAssumption
<1>1. TypeOK'
  BY DEF Inv, TypeOK, d3Vars, clientVars, helperVars, answerVars, Answer, OutcomeOf, Outcomes
<1>2. CallInv(o)'
  BY DEF Inv, TypeOK, Answer, OutcomeOf, CallInv, StatusTrue, StageTrue, LockProtects,
         d3Vars, clientVars, helperVars, answerVars
<1>3. ASSUME NEW p \in Ops, p # o PROVE CallInv(p)'
  <2>1. Same(p) /\ (lock' = p <=> lock = p) /\ (record' = record \/ lock # p)
    BY <1>3 DEF Inv, CallInv, LockProtects, TypeOK, Answer, OutcomeOf, Same,
                d3Vars, clientVars, helperVars, answerVars
  <2> QED
    BY <1>3, <2>1, Frame DEF Inv
<1> QED
  BY <1>1, <1>2, <1>3 DEF Inv

\* Abandoning the operation (timeout, abort, unusable output) keeps Inv.
LEMMA GiveUpInv ==
    ASSUME Inv, NEW o \in Ops, GiveUp(o) PROVE Inv'
<1> USE TypesAssumption, ProtocolAssumption
<1>1. TypeOK'
  BY DEF Inv, TypeOK, d3Vars, clientVars, helperVars, answerVars, GiveUp, Outcomes
<1>2. CallInv(o)'
  BY DEF Inv, TypeOK, GiveUp, CallInv, StatusTrue, StageTrue, LockProtects,
         d3Vars, clientVars, helperVars, answerVars
<1>3. ASSUME NEW p \in Ops, p # o PROVE CallInv(p)'
  <2>1. Same(p) /\ (lock' = p <=> lock = p) /\ (record' = record \/ lock # p)
    BY <1>3 DEF Inv, CallInv, LockProtects, TypeOK, GiveUp, Same,
                d3Vars, clientVars, helperVars, answerVars
  <2> QED
    BY <1>3, <2>1, Frame DEF Inv
<1> QED
  BY <1>1, <1>2, <1>3 DEF Inv

\* Printing READY keeps Inv.
LEMMA HelperReadyInv ==
    ASSUME Inv, NEW o \in Ops, HelperReady(o) PROVE Inv'
<1> USE TypesAssumption, ProtocolAssumption
<1>1. TypeOK'
  BY DEF Inv, TypeOK, d3Vars, clientVars, helperVars, answerVars, HelperReady, Emit
<1>2. CallInv(o)'
  BY DEF Inv, TypeOK, HelperReady, Emit, CallInv, StatusTrue, StageTrue, LockProtects,
         d3Vars, clientVars, helperVars, answerVars
<1>3. ASSUME NEW p \in Ops, p # o PROVE CallInv(p)'
  <2>1. Same(p) /\ (lock' = p <=> lock = p) /\ (record' = record \/ lock # p)
    BY <1>3 DEF Inv, CallInv, LockProtects, TypeOK, HelperReady, Emit, Same,
                d3Vars, clientVars, helperVars, answerVars
  <2> QED
    BY <1>3, <2>1, Frame DEF Inv
<1> QED
  BY <1>1, <1>2, <1>3 DEF Inv

\* A helper that is not there keeps Inv.
LEMMA HelperMissingInv ==
    ASSUME Inv, NEW o \in Ops, HelperMissing(o) PROVE Inv'
<1> USE TypesAssumption, ProtocolAssumption
<1>1. TypeOK'
  BY DEF Inv, TypeOK, d3Vars, clientVars, helperVars, answerVars, HelperMissing, Emit
<1>2. CallInv(o)'
  BY DEF Inv, TypeOK, HelperMissing, Emit, CallInv, StatusTrue, StageTrue, LockProtects,
         d3Vars, clientVars, helperVars, answerVars
<1>3. ASSUME NEW p \in Ops, p # o PROVE CallInv(p)'
  <2>1. Same(p) /\ (lock' = p <=> lock = p) /\ (record' = record \/ lock # p)
    BY <1>3 DEF Inv, CallInv, LockProtects, TypeOK, HelperMissing, Emit, Same,
                d3Vars, clientVars, helperVars, answerVars
  <2> QED
    BY <1>3, <2>1, Frame DEF Inv
<1> QED
  BY <1>1, <1>2, <1>3 DEF Inv

\* Reading and acknowledging a frame keeps Inv.
LEMMA ReadFrameInv ==
    ASSUME Inv, NEW o \in Ops, ReadFrame(o) PROVE Inv'
<1> USE TypesAssumption, ProtocolAssumption
<1>1. TypeOK'
  BY DEF Inv, TypeOK, d3Vars, clientVars, helperVars, answerVars, ReadFrame, Emit
<1>2. CallInv(o)'
  BY DEF Inv, TypeOK, ReadFrame, Emit, CallInv, StatusTrue, StageTrue, LockProtects,
         d3Vars, clientVars, helperVars, answerVars
<1>3. ASSUME NEW p \in Ops, p # o PROVE CallInv(p)'
  <2>1. Same(p) /\ (lock' = p <=> lock = p) /\ (record' = record \/ lock # p)
    BY <1>3 DEF Inv, CallInv, LockProtects, TypeOK, ReadFrame, Emit, Same,
                d3Vars, clientVars, helperVars, answerVars
  <2> QED
    BY <1>3, <2>1, Frame DEF Inv
<1> QED
  BY <1>1, <1>2, <1>3 DEF Inv

\* The end of the upload keeps Inv: only a complete one goes on to OPEN.
LEMMA ReadTerminatorInv ==
    ASSUME Inv, NEW o \in Ops, ReadTerminator(o) PROVE Inv'
<1> USE TypesAssumption, ProtocolAssumption
<1>1. TypeOK'
  BY DEF Inv, TypeOK, d3Vars, clientVars, helperVars, answerVars, ReadTerminator, Stop, Statuses
<1>2. CallInv(o)'
  <2>1. request[o] \in Requests
    BY DEF Inv, TypeOK, ReadTerminator, CallInv, StageTrue
  <2>2. ~(IsWrite(request[o]) /\ ~request[o].writable)
    BY DEF Inv, ReadTerminator, CallInv, StageTrue, RefusedAtOnce
  <2>3. sent[o] = Frames + 1
    BY DEF Inv, ReadTerminator, CallInv, StageTrue
  <2>4. CASE frames[o] # Frames
    BY <2>1, <2>4 DEF Inv, TypeOK, ReadTerminator, Stop, CallInv, StatusTrue, StageTrue, LockProtects,
             d3Vars, clientVars, helperVars, answerVars
  <2>5. CASE frames[o] = Frames
    BY <2>1, <2>2, <2>3, <2>5 DEF Inv, TypeOK, ReadTerminator, CallInv, StatusTrue, StageTrue, LockProtects,
             d3Vars, clientVars, helperVars, answerVars
  <2> QED
    BY <2>4, <2>5
<1>3. ASSUME NEW p \in Ops, p # o PROVE CallInv(p)'
  <2>1. Same(p) /\ (lock' = p <=> lock = p) /\ (record' = record \/ lock # p)
    BY <1>3 DEF Inv, CallInv, LockProtects, TypeOK, ReadTerminator, Stop, Same,
                d3Vars, clientVars, helperVars, answerVars
  <2> QED
    BY <1>3, <2>1, Frame DEF Inv
<1> QED
  BY <1>1, <1>2, <1>3 DEF Inv

\* The INPUT timeout keeps Inv.
LEMMA InputTimeoutInv ==
    ASSUME Inv, NEW o \in Ops, InputTimeout(o) PROVE Inv'
<1> USE TypesAssumption, ProtocolAssumption
<1>1. TypeOK'
  BY DEF Inv, TypeOK, d3Vars, clientVars, helperVars, answerVars, InputTimeout, Stop, Statuses
<1>2. CallInv(o)'
  BY DEF Inv, TypeOK, InputTimeout, Stop, CallInv, StatusTrue, StageTrue, LockProtects,
         d3Vars, clientVars, helperVars, answerVars
<1>3. ASSUME NEW p \in Ops, p # o PROVE CallInv(p)'
  <2>1. Same(p) /\ (lock' = p <=> lock = p) /\ (record' = record \/ lock # p)
    BY <1>3 DEF Inv, CallInv, LockProtects, TypeOK, InputTimeout, Stop, Same,
                d3Vars, clientVars, helperVars, answerVars
  <2> QED
    BY <1>3, <2>1, Frame DEF Inv
<1> QED
  BY <1>1, <1>2, <1>3 DEF Inv

\* A failing OPEN keeps Inv.
LEMMA OpenFailsInv ==
    ASSUME Inv, NEW o \in Ops, OpenFails(o) PROVE Inv'
<1> USE TypesAssumption, ProtocolAssumption
<1>1. TypeOK'
  BY DEF Inv, TypeOK, d3Vars, clientVars, helperVars, answerVars, OpenFails, Stop, Statuses
<1>2. CallInv(o)'
  BY DEF Inv, TypeOK, OpenFails, Stop, CallInv, StatusTrue, StageTrue, LockProtects,
         d3Vars, clientVars, helperVars, answerVars
<1>3. ASSUME NEW p \in Ops, p # o PROVE CallInv(p)'
  <2>1. Same(p) /\ (lock' = p <=> lock = p) /\ (record' = record \/ lock # p)
    BY <1>3 DEF Inv, CallInv, LockProtects, TypeOK, OpenFails, Stop, Same,
                d3Vars, clientVars, helperVars, answerVars
  <2> QED
    BY <1>3, <2>1, Frame DEF Inv
<1> QED
  BY <1>1, <1>2, <1>3 DEF Inv

\* READ without a lock keeps Inv: its status says what was read.
LEMMA ReadItemInv ==
    ASSUME Inv, NEW o \in Ops, ReadItem(o) PROVE Inv'
<1> USE TypesAssumption, ProtocolAssumption
<1>1. TypeOK'
  BY DEF Inv, TypeOK, d3Vars, clientVars, helperVars, answerVars, ReadItem, Stop, Statuses, Contents, Payloads
<1>2. CallInv(o)'
  <2>1. request[o] \in Requests /\ request[o].kind = "READ"
    BY DEF Inv, TypeOK, ReadItem, CallInv, StageTrue, IsWrite
  <2>2. record \in Values \cup {Absent}
    BY DEF Inv, TypeOK, Contents
  <2>3. CASE record = Absent
    BY <2>1, <2>3 DEF Inv, TypeOK, ReadItem, Stop, Statuses, CallInv, StatusTrue, StageTrue, LockProtects,
             d3Vars, clientVars, helperVars, answerVars
  <2>4. CASE record \in Unsupported
    BY <2>1, <2>4 DEF Inv, TypeOK, ReadItem, Stop, Statuses, CallInv, StatusTrue, StageTrue, LockProtects,
             d3Vars, clientVars, helperVars, answerVars
  <2>5. CASE record \in Payloads
    BY <2>1, <2>5 DEF Inv, TypeOK, ReadItem, Stop, Statuses, Payloads, CallInv, StatusTrue, StageTrue, LockProtects,
             d3Vars, clientVars, helperVars, answerVars
  <2> QED
    BY <2>2, <2>3, <2>4, <2>5 DEF Payloads
<1>3. ASSUME NEW p \in Ops, p # o PROVE CallInv(p)'
  <2>1. Same(p) /\ (lock' = p <=> lock = p) /\ (record' = record \/ lock # p)
    BY <1>3 DEF Inv, CallInv, LockProtects, TypeOK, ReadItem, Stop, Same,
                d3Vars, clientVars, helperVars, answerVars
  <2> QED
    BY <1>3, <2>1, Frame DEF Inv
<1> QED
  BY <1>1, <1>2, <1>3 DEF Inv

\* READU ... LOCKED keeps Inv: nothing was read or written.
LEMMA ItemBusyInv ==
    ASSUME Inv, NEW o \in Ops, ItemBusy(o) PROVE Inv'
<1> USE TypesAssumption, ProtocolAssumption
<1>1. TypeOK'
  BY DEF Inv, TypeOK, d3Vars, clientVars, helperVars, answerVars, ItemBusy, Stop, Statuses
<1>2. CallInv(o)'
  BY DEF Inv, TypeOK, ItemBusy, Stop, CallInv, StatusTrue, StageTrue, LockProtects,
         d3Vars, clientVars, helperVars, answerVars
<1>3. ASSUME NEW p \in Ops, p # o PROVE CallInv(p)'
  <2>1. Same(p) /\ (lock' = p <=> lock = p) /\ (record' = record \/ lock # p)
    BY <1>3 DEF Inv, CallInv, LockProtects, TypeOK, ItemBusy, Stop, Same,
                d3Vars, clientVars, helperVars, answerVars
  <2> QED
    BY <1>3, <2>1, Frame DEF Inv
<1> QED
  BY <1>1, <1>2, <1>3 DEF Inv

\* READU keeps Inv: from here on the view is what the item holds.
LEMMA LockItemInv ==
    ASSUME Inv, NEW o \in Ops, LockItem(o) PROVE Inv'
<1> USE TypesAssumption, ProtocolAssumption
<1>1. TypeOK'
  BY DEF Inv, TypeOK, d3Vars, clientVars, helperVars, answerVars, LockItem
<1>2. CallInv(o)'
  BY DEF Inv, TypeOK, LockItem, CallInv, StatusTrue, StageTrue, LockProtects,
         d3Vars, clientVars, helperVars, answerVars
<1>3. ASSUME NEW p \in Ops, p # o PROVE CallInv(p)'
  <2>1. Same(p) /\ (lock' = p <=> lock = p) /\ (record' = record \/ lock # p)
    BY <1>3 DEF Inv, CallInv, LockProtects, TypeOK, LockItem, Same,
                d3Vars, clientVars, helperVars, answerVars
  <2> QED
    BY <1>3, <2>1, Frame DEF Inv
<1> QED
  BY <1>1, <1>2, <1>3 DEF Inv

\* A check that fails under the lock keeps Inv: the status names it.
LEMMA RefuseWriteInv ==
    ASSUME Inv, NEW o \in Ops, RefuseWrite(o) PROVE Inv'
<1> USE TypesAssumption, ProtocolAssumption
<1>1. TypeOK'
  <2>1. RefusalOf(request[o], view[o]) \in Statuses
    BY RefusalStatus DEF RefuseWrite, Statuses
  <2>2. view[o] \in Values \/ RefusalOf(request[o], view[o]) # "CONFLICT"
    BY DEF Inv, TypeOK, RefuseWrite, CallInv, LockProtects, Contents, RefusalOf
  <2> QED
    BY <2>1, <2>2 DEF Inv, TypeOK, RefuseWrite, Stop, d3Vars, clientVars, helperVars, answerVars
<1>2. CallInv(o)'
  <2> DEFINE s == RefusalOf(request[o], view[o])
  <2>1. view[o] \in Values \cup {Absent} /\ stored[o] = None
    BY DEF Inv, TypeOK, RefuseWrite, CallInv, LockProtects, Contents
  <2>2. /\ s \in {"ALREADY_EXISTS", "UNSUPPORTED_BINARY", "NOT_FOUND", "CONFLICT"}
        /\ s = "ALREADY_EXISTS" => request[o].kind = "CREATE_ONLY" /\ view[o] \in Values
        /\ s = "UNSUPPORTED_BINARY" => view[o] \in Unsupported
        /\ s = "NOT_FOUND" => view[o] = Absent
        /\ s = "CONFLICT" => /\ request[o].kind = "CAS_EXISTING"
                            /\ view[o] \in Values \ {request[o].expected}
    BY <2>1, RefusalStatus DEF RefuseWrite, RefusalOf
  <2>3. /\ status'[o] = s /\ helper'[o] = "finish" /\ view'[o] = view[o]
        /\ stored'[o] = None /\ request'[o] = request[o]
    BY <2>1 DEF Inv, TypeOK, RefuseWrite, Stop, helperVars
  <2>4. StatusTrue(o)'
    <3> HIDE DEF s
    <3> QED
    BY <2>2, <2>3 DEF StatusTrue
  <2>5. StageTrue(o)' /\ LockProtects(o)'
    BY DEF Inv, TypeOK, RefuseWrite, Stop, CallInv, StatusTrue, StageTrue, LockProtects,
             d3Vars, clientVars, helperVars, answerVars
  <2> QED
    BY <2>4, <2>5 DEF CallInv
<1>3. ASSUME NEW p \in Ops, p # o PROVE CallInv(p)'
  <2>1. Same(p) /\ (lock' = p <=> lock = p) /\ (record' = record \/ lock # p)
    BY <1>3 DEF Inv, CallInv, LockProtects, TypeOK, RefuseWrite, Stop, Same,
                d3Vars, clientVars, helperVars, answerVars
  <2> QED
    BY <1>3, <2>1, Frame DEF Inv
<1> QED
  BY <1>1, <1>2, <1>3 DEF Inv

\* WRITEU keeps Inv: the item holds what this call stored.
LEMMA WriteItemInv ==
    ASSUME Inv, NEW o \in Ops, WriteItem(o) PROVE Inv'
<1> USE TypesAssumption, ProtocolAssumption
<1>1. TypeOK'
  <2>0. helper[o] = "locked"
    BY DEF WriteItem
  <2>1. request[o] \in Requests /\ IsWrite(request[o])
    BY <2>0 DEF Inv, TypeOK, CallInv, StageTrue, LockProtects
  <2>2. {request[o].replacement} \cup Rewrites \subseteq Values
    BY <2>1, RequestFields DEF Payloads
  <2> QED
    <3>1. PICK v \in Values : record' = v /\ stored' = [stored EXCEPT ![o] = v]
      BY <2>2 DEF WriteItem
    <3> QED
      BY <3>1 DEF Inv, TypeOK, WriteItem, Contents, clientVars, answerVars
<1>2. CallInv(o)'
  <2>1. /\ helper'[o] = "written" /\ stored'[o] = record' /\ status'[o] = "BAD_REQUEST"
        /\ lock = o /\ IsWrite(request[o])
    BY DEF Inv, TypeOK, WriteItem, CallInv, StageTrue, LockProtects
  <2>2. StatusTrue(o)'
    BY <2>1 DEF StatusTrue, Statuses
  <2>3. StageTrue(o)' /\ LockProtects(o)'
    BY <2>1 DEF Inv, TypeOK, WriteItem, CallInv, StatusTrue, StageTrue, LockProtects,
             d3Vars, clientVars, helperVars, answerVars
  <2> QED
    BY <2>2, <2>3 DEF CallInv
<1>3. ASSUME NEW p \in Ops, p # o PROVE CallInv(p)'
  <2>1. Same(p) /\ (lock' = p <=> lock = p) /\ (record' = record \/ lock # p)
    BY <1>3 DEF Inv, CallInv, LockProtects, TypeOK, WriteItem, Same,
                d3Vars, clientVars, helperVars, answerVars
  <2> QED
    BY <1>3, <2>1, Frame DEF Inv
<1> QED
  BY <1>1, <1>2, <1>3 DEF Inv

\* A failing WRITEU keeps Inv.
LEMMA WriteFailsInv ==
    ASSUME Inv, NEW o \in Ops, WriteFails(o) PROVE Inv'
<1> USE TypesAssumption, ProtocolAssumption
<1>1. TypeOK'
  BY DEF Inv, TypeOK, d3Vars, clientVars, helperVars, answerVars, WriteFails, Stop, Statuses
<1>2. CallInv(o)'
  <2>1. /\ helper'[o] = "finish" /\ status'[o] = "WRITE_ERROR" /\ stored[o] = None
        /\ lock = o
    BY DEF Inv, TypeOK, WriteFails, Stop, CallInv, LockProtects
  <2>2. StatusTrue(o)'
    BY <2>1 DEF Inv, TypeOK, WriteFails, CallInv, StatusTrue,
                d3Vars, clientVars, helperVars, answerVars
  <2>3. StageTrue(o)'
    BY <2>1 DEF Inv, TypeOK, WriteFails, CallInv, StageTrue,
                d3Vars, clientVars, helperVars, answerVars
  <2>4. LockProtects(o)'
    BY <2>1 DEF Inv, TypeOK, WriteFails, CallInv, LockProtects,
                d3Vars, clientVars, helperVars, answerVars
  <2> QED
    BY <2>2, <2>3, <2>4 DEF CallInv
<1>3. ASSUME NEW p \in Ops, p # o PROVE CallInv(p)'
  <2>1. Same(p) /\ (lock' = p <=> lock = p) /\ (record' = record \/ lock # p)
    BY <1>3 DEF Inv, CallInv, LockProtects, TypeOK, WriteFails, Stop, Same,
                d3Vars, clientVars, helperVars, answerVars
  <2> QED
    BY <1>3, <2>1, Frame DEF Inv
<1> QED
  BY <1>1, <1>2, <1>3 DEF Inv

\* The readback keeps Inv: it sees this call's own write.
LEMMA ReadBackInv ==
    ASSUME Inv, NEW o \in Ops, ReadBack(o) PROVE Inv'
<1> USE TypesAssumption, ProtocolAssumption
<1>1. TypeOK'
  BY DEF Inv, TypeOK, d3Vars, clientVars, helperVars, answerVars, ReadBack, Stop, Statuses, Contents, Payloads
<1>2. CallInv(o)'
  BY DEF Inv, TypeOK, ReadBack, Stop, CallInv, StatusTrue, StageTrue, LockProtects,
         d3Vars, clientVars, helperVars, answerVars
<1>3. ASSUME NEW p \in Ops, p # o PROVE CallInv(p)'
  <2>1. Same(p) /\ (lock' = p <=> lock = p) /\ (record' = record \/ lock # p)
    BY <1>3 DEF Inv, CallInv, LockProtects, TypeOK, ReadBack, Stop, Same,
                d3Vars, clientVars, helperVars, answerVars
  <2> QED
    BY <1>3, <2>1, Frame DEF Inv
<1> QED
  BY <1>1, <1>2, <1>3 DEF Inv

\* RELEASE and the response keep Inv.
LEMMA FinishInv ==
    ASSUME Inv, NEW o \in Ops, Finish(o) PROVE Inv'
<1> USE TypesAssumption, ProtocolAssumption
<1>1. TypeOK'
  BY DEF Inv, TypeOK, d3Vars, clientVars, helperVars, answerVars, Finish, Emit
<1>2. CallInv(o)'
  BY DEF Inv, TypeOK, Finish, Emit, CallInv, StatusTrue, StageTrue, LockProtects,
         d3Vars, clientVars, helperVars, answerVars
<1>3. ASSUME NEW p \in Ops, p # o PROVE CallInv(p)'
  <2>1. Same(p) /\ (lock' = p <=> lock = p) /\ (record' = record \/ lock # p)
    BY <1>3 DEF Inv, CallInv, LockProtects, TypeOK, Finish, Emit, Same,
                d3Vars, clientVars, helperVars, answerVars
  <2> QED
    BY <1>3, <2>1, Frame DEF Inv
<1> QED
  BY <1>1, <1>2, <1>3 DEF Inv

\* Logging the port off keeps Inv, at whatever point it happens.
LEMMA HangUpInv ==
    ASSUME Inv, NEW o \in Ops, HangUp(o) PROVE Inv'
<1> USE TypesAssumption, ProtocolAssumption
<1>1. TypeOK'
  BY DEF Inv, TypeOK, d3Vars, clientVars, helperVars, answerVars, HangUp
<1>2. CallInv(o)'
  BY DEF Inv, TypeOK, HangUp, CallInv, StatusTrue, StageTrue, LockProtects,
         d3Vars, clientVars, helperVars, answerVars
<1>3. ASSUME NEW p \in Ops, p # o PROVE CallInv(p)'
  <2>1. Same(p) /\ (lock' = p <=> lock = p) /\ (record' = record \/ lock # p)
    BY <1>3 DEF Inv, CallInv, LockProtects, TypeOK, HangUp, Same,
                d3Vars, clientVars, helperVars, answerVars
  <2> QED
    BY <1>3, <2>1, Frame DEF Inv
<1> QED
  BY <1>1, <1>2, <1>3 DEF Inv

\* Another D3 user's READU, RELEASE, WRITE or DELETE keeps Inv: WRITE and
\* DELETE wait for the lock a call holds.
LEMMA OtherInv ==
    ASSUME Inv, NEW t \in Others, OtherStep(t) PROVE Inv'
<1> USE TypesAssumption, ProtocolAssumption
<1>1. TypeOK'
  BY DEF Inv, TypeOK, OtherStep, OtherLock, OtherRelease, OtherWrite, clientVars, helperVars, answerVars
<1>2. ASSUME NEW p \in Ops PROVE CallInv(p)'
  <2>1. Same(p) /\ (lock' = p <=> lock = p) /\ (record' = record \/ lock # p)
    BY DEF Same, OtherStep, OtherLock, OtherRelease, OtherWrite, clientVars, helperVars, answerVars
  <2> QED
    BY <2>1, Frame DEF Inv
<1> QED
  BY <1>1, <1>2 DEF Inv

\* Inv holds initially and every step preserves it.
THEOREM InductiveInvariant == (Init => Inv) /\ (Inv /\ [Next]_vars => Inv')
<1>1. Init => Inv
  BY TypesAssumption, ProtocolAssumption
  DEF Init, Inv, TypeOK, CallInv, StatusTrue, StageTrue, LockProtects, Statuses, Outcomes
<1>2. Inv /\ [Next]_vars => Inv'
  <2> SUFFICES ASSUME Inv, [Next]_vars PROVE Inv'
    OBVIOUS
  <2>1. ASSUME NEW o \in Ops, Refuse(o) \/ Start(o) PROVE Inv'
    BY <2>1, RefuseInv, StartInv
  <2>2. ASSUME NEW o \in Ops, ClientStep(o) PROVE Inv'
    BY <2>2, SendLineInv, AnswerInv, GiveUpInv DEF ClientStep
  <2>3. ASSUME NEW o \in Ops, HelperStep(o) PROVE Inv'
    BY <2>3, HelperReadyInv, HelperMissingInv, ReadFrameInv, ReadTerminatorInv,
       InputTimeoutInv, OpenFailsInv, ReadItemInv, ItemBusyInv, LockItemInv,
       RefuseWriteInv, WriteItemInv, WriteFailsInv, ReadBackInv, FinishInv
       DEF HelperStep
  <2>4. ASSUME NEW o \in Ops, HangUp(o) PROVE Inv'
    BY <2>4, HangUpInv
  <2>5. ASSUME NEW t \in Others, OtherStep(t) PROVE Inv'
    BY <2>5, OtherInv
  <2>6. CASE UNCHANGED vars
    BY <2>6 DEF vars, Inv, TypeOK, CallInv, StatusTrue, StageTrue, LockProtects
  <2> QED
    BY <2>1, <2>2, <2>3, <2>4, <2>5, <2>6 DEF Next
<1> QED
  BY <1>1, <1>2

\* The inductive invariant holds in every state of every behaviour.
THEOREM Invariance == Spec => []Inv
BY InductiveInvariant, PTL DEF Spec

\* Type correctness, for every set of calls, users and values.
THEOREM TypeCorrect == Spec => []TypeOK
BY Invariance, PTL DEF Inv

\* No call holds the item before its whole upload has arrived
\* (the frames loop of the helper comes before READU).
THEOREM UploadBeforeLock == Spec => []LockAfterUpload
<1>1. Inv => LockAfterUpload
  BY DEF Inv, CallInv, StageTrue, LockAfterUpload
<1> QED
  BY <1>1, Invariance, PTL

\* VERIFY_FAILED is never caused by a later writer (WRITEU keeps the lock
\* until the readback is over).
THEOREM NoFalseVerifyFailure == Spec => []VerifyFailureIsReal
<1>1. Inv => VerifyFailureIsReal
  BY DEF Inv, CallInv, StatusTrue, VerifyFailureIsReal
<1> QED
  BY <1>1, Invariance, PTL
-----------------------------------------------------------------------------
(* Editors among themselves.                                               *)

\* Without other users the item never disappears once a call has written it,
\* and it holds a baseline that was replaced only if a call stored it again.
Wins ==
    Others = {} =>
        /\ (\E o \in Ops : stored[o] # None) => record # Absent
        /\ \A o \in Ops : Replacer(o) /\ record = request[o].expected =>
               \E q \in Ops : stored[q] = request[o].expected

\* Without other users only WriteItem changes the item and what was stored,
\* and a call that has written keeps its request.
LEMMA OnlyWriteItemWrites ==
    ASSUME Inv, [Next]_vars, Others = {}, \A o \in Ops : ~WriteItem(o)
    PROVE  /\ record' = record /\ stored' = stored
           /\ \A o \in Ops : stored[o] # None => request'[o] = request[o]
<1>1. ASSUME NEW o \in Ops, Refuse(o) \/ Start(o)
      PROVE  /\ record' = record /\ stored' = stored /\ stored[o] = None
             /\ \A p \in Ops : p # o => request'[p] = request[p]
  BY <1>1 DEF Refuse, Start, d3Vars, helperVars, Inv, TypeOK, CallInv, StageTrue
<1>2. ASSUME NEW o \in Ops, ClientStep(o) \/ HangUp(o)
      PROVE  record' = record /\ stored' = stored /\ request' = request
  BY <1>2 DEF ClientStep, SendLine, Answer, GiveUp, HangUp, d3Vars, helperVars
<1>3. ASSUME NEW o \in Ops, HelperStep(o)
      PROVE  record' = record /\ stored' = stored /\ request' = request
  BY <1>3 DEF HelperStep, HelperReady, HelperMissing, ReadFrame, ReadTerminator,
     InputTimeout, OpenFails, ReadItem, ItemBusy, LockItem, RefuseWrite, WriteFails,
     ReadBack, Finish, d3Vars
<1>4. UNCHANGED vars => record' = record /\ stored' = stored /\ request' = request
  BY DEF vars
<1> QED
  BY <1>1, <1>2, <1>3, <1>4 DEF Next

\* What a call writes is a value, once, and by its own request.
LEMMA WriteItemWrites ==
    ASSUME Inv, NEW o \in Ops, WriteItem(o)
    PROVE  /\ record' \in Values /\ stored'[o] = record' /\ stored[o] = None
           /\ \A p \in Ops : p # o => stored'[p] = stored[p]
           /\ request' = request
           /\ request[o].kind = "CREATE_ONLY" => record = Absent
           /\ request[o].kind = "CAS_EXISTING" => record = request[o].expected
<1>1. request[o] \in Requests /\ IsWrite(request[o]) /\ view[o] = record /\ stored[o] = None
  <2>1. helper[o] = "locked" /\ CallInv(o)
    BY DEF Inv, WriteItem
  <2>2. IsWrite(request[o]) /\ view[o] = record /\ stored[o] = None
    BY <2>1 DEF CallInv, LockProtects
  <2>3. request[o] \in Requests
    BY <2>1 DEF CallInv, StageTrue, Inv, TypeOK
  <2> QED
    BY <2>2, <2>3
<1>2. PICK v \in {request[o].replacement} \cup Rewrites :
        record' = v /\ stored' = [stored EXCEPT ![o] = v]
  BY DEF WriteItem
<1>3. v \in Values
  BY <1>1, RequestFields, ProtocolAssumption DEF Payloads
<1>4. /\ request[o].kind = "CREATE_ONLY" => record = Absent
      /\ request[o].kind = "CAS_EXISTING" => record = request[o].expected
  BY <1>1 DEF WriteItem, RefusalOf
<1>5. request' = request
  BY DEF WriteItem
<1> QED
  BY <1>1, <1>2, <1>3, <1>4, <1>5 DEF Inv, TypeOK

\* Every step keeps Wins and OneWinner.
LEMMA WinsStep == ASSUME Inv, Wins, OneWinner, [Next]_vars PROVE Wins' /\ OneWinner'
<1> SUFFICES ASSUME Others = {} PROVE Wins' /\ OneWinner'
  BY DEF Wins, OneWinner
<1>1. CASE \A o \in Ops : ~WriteItem(o)
  <2>1. /\ record' = record /\ stored' = stored
        /\ \A o \in Ops : stored[o] # None => request'[o] = request[o]
    BY <1>1, OnlyWriteItemWrites
  <2>2. \A o \in Ops : /\ Creator(o)' => Creator(o)
                       /\ Replacer(o)' => Replacer(o) /\ request'[o] = request[o]
    BY <2>1 DEF Creator, Replacer
  <2> QED
    BY <2>1, <2>2 DEF Wins, OneWinner
<1>2. ASSUME NEW o \in Ops, WriteItem(o) PROVE Wins' /\ OneWinner'
  <2>1. /\ record' \in Values /\ stored'[o] = record' /\ stored[o] = None
        /\ \A p \in Ops : p # o => stored'[p] = stored[p]
        /\ request' = request
        /\ request[o].kind = "CREATE_ONLY" => record = Absent
        /\ request[o].kind = "CAS_EXISTING" => record = request[o].expected
    BY <1>2, WriteItemWrites
  <2>2. record' # Absent /\ record' # None
    BY <2>1, TypesAssumption
  <2>3. Wins'
    BY <2>1, <2>2 DEF Wins
  <2>4. \A p \in Ops : p # o => (Creator(p)' => Creator(p)) /\ (Replacer(p)' => Replacer(p))
    BY <2>1 DEF Creator, Replacer
  <2>5. ASSUME NEW p \in Ops, p # o PROVE ~(Creator(o)' /\ Creator(p)')
    <3>1. Creator(o)' => record = Absent
      BY <2>1 DEF Creator
    <3>2. Creator(p)' => stored[p] # None
      BY <2>4, <2>5 DEF Creator
    <3> QED
      BY <3>1, <3>2 DEF Wins
  <2>6. ASSUME NEW p \in Ops, p # o, Replacer(o)', Replacer(p)',
               request[o].expected = request[p].expected
        PROVE  \E q \in Ops : stored'[q] = request[p].expected
    <3>1. Replacer(p) /\ record = request[p].expected
      BY <2>1, <2>4, <2>6 DEF Replacer
    <3>2. PICK q \in Ops : stored[q] = request[p].expected
      BY <3>1 DEF Wins
    <3>3. request[p].expected # None
      BY <3>1, TypesAssumption DEF Inv, TypeOK, Contents
    <3> QED
      BY <3>2, <3>3, <2>1
  <2>7. ASSUME NEW p \in Ops, NEW q \in Ops, p # o, q # o, p # q
        PROVE  /\ ~(Creator(p)' /\ Creator(q)')
               /\ Replacer(p)' /\ Replacer(q)' /\ request[p].expected = request[q].expected =>
                     \E r \in Ops : stored'[r] = request[p].expected
    <3>1. ~(Creator(p)' /\ Creator(q)')
      BY <2>4, <2>7 DEF OneWinner
    <3>2. ASSUME Replacer(p)', Replacer(q)', request[p].expected = request[q].expected
          PROVE  \E r \in Ops : stored'[r] = request[p].expected
      <4>1. PICK r \in Ops : stored[r] = request[p].expected
        BY <3>2, <2>4, <2>7 DEF OneWinner
      <4>2. r = o => request[p].expected = None
        BY <4>1, <2>1
      <4>3. request[p].expected # None
        <5>1. request[p] \in Requests /\ request[p].kind = "CAS_EXISTING"
          BY <3>2, <2>4, <2>7 DEF Replacer, Inv, TypeOK, CallInv, StageTrue
        <5> QED
          BY <5>1, RequestFields, TypesAssumption DEF Payloads
      <4> QED
        BY <4>1, <4>2, <4>3, <2>1
    <3> QED
      BY <3>1, <3>2
  <2>8. OneWinner'
    BY <2>1, <2>5, <2>6, <2>7 DEF OneWinner
  <2> QED
    BY <2>3, <2>8
<1> QED
  BY <1>1, <1>2

\* Among editors alone, one of several creators succeeds, and one of several
\* replacements of one baseline unless a call stored the baseline again.
THEOREM OneEditorWins == Spec => []OneWinner
<1>1. Init => Wins /\ OneWinner
  BY DEF Init, Wins, OneWinner, Creator, Replacer
<1>2. Inv /\ (Wins /\ OneWinner) /\ [Next]_vars => (Wins /\ OneWinner)'
  BY WinsStep
<1> QED
  BY <1>1, <1>2, Invariance, PTL DEF Spec

-----------------------------------------------------------------------------
(* The protocol implements the register.                                   *)

\* The initial states of the protocol are initial states of the register.
LEMMA RefinesInit == Init => Register!Init
BY DEF Init, Register!Init, Contents, Register!Contents

\* A step of the client is a call, an answer that is justified, or nothing
\* that the register can see.
LEMMA RefinesClient ==
    ASSUME Inv, NEW o \in Ops, Refuse(o) \/ Start(o) \/ ClientStep(o)
    PROVE  [Register!Next]_Register!vars
<1>1. CASE Refuse(o)
  <2>1. PICK r \in Requests : RefusedAtOnce(r) /\ request' = [request EXCEPT ![o] = r]
    BY <1>1 DEF Refuse
  <2>2. Register!Invoke(o, r)
    BY <1>1, <2>1 DEF Refuse, Register!Invoke, Register!RefusedAtOnce, RefusedAtOnce,
       Register!IsWrite, IsWrite, Inv, CallInv, StageTrue, d3Vars, helperVars
  <2> QED
    BY <2>2 DEF Register!Next
<1>2. CASE Start(o)
  <2>1. PICK r \in Requests : ~RefusedAtOnce(r) /\ request' = [request EXCEPT ![o] = r]
    BY <1>2 DEF Start
  <2>2. outcome' = [outcome EXCEPT ![o] = "none"]
    BY <1>2 DEF Start, Inv, TypeOK, CallInv, StageTrue, answerVars
  <2>3. Register!Invoke(o, r)
    BY <1>2, <2>1, <2>2 DEF Start, Register!Invoke, Register!RefusedAtOnce, RefusedAtOnce,
       Register!IsWrite, IsWrite, Inv, CallInv, StageTrue, d3Vars, answerVars
  <2> QED
    BY <2>3 DEF Register!Next
<1>3. CASE SendLine(o)
  BY <1>3 DEF SendLine, d3Vars, helperVars, answerVars, Register!vars
<1>4. CASE Answer(o)
  <2> DEFINE a == OutcomeOf(request[o], status[o], resp[o])
  <2>1. /\ request[o] \in Requests /\ client[o] = "waiting" /\ outcome[o] = "none"
        /\ view[o] \in Contents \cup {None} /\ stored[o] \in Values \cup {None}
        /\ status[o] \in Statuses /\ StatusTrue(o)
    BY <1>4 DEF Inv, TypeOK, Answer, CallInv, StageTrue
  <2>2. Register!Justified(o, a)
    <3> HIDE DEF a
    <3>1. CASE a = "read"
      BY <2>1, <3>1 DEF a, OutcomeOf, StatusTrue, Register!Justified, Register!Payloads, Payloads
    <3>2. CASE a = "saved"
      BY <2>1, <3>2 DEF a, OutcomeOf, StatusTrue, Register!Justified, Register!IsWrite, IsWrite
    <3>3. CASE a = "exists"
      BY <2>1, <3>3 DEF a, OutcomeOf, StatusTrue, Register!Justified, Statuses
    <3>4. CASE a = "conflict"
      BY <2>1, <3>4 DEF a, OutcomeOf, StatusTrue, Register!Justified, Statuses
    <3>5. CASE a = "busy"
      BY <2>1, <3>5 DEF a, OutcomeOf, StatusTrue, Register!Justified, Register!IsWrite,
         IsWrite, Statuses
    <3>6. CASE a = "missing"
      BY <2>1, <3>6 DEF a, OutcomeOf, StatusTrue, Register!Justified, Statuses
    <3>7. CASE a = "unsupported"
      BY <2>1, <3>7 DEF a, OutcomeOf, StatusTrue, Register!Justified, Statuses
    <3>8. CASE a = "unknown"
      BY <3>8 DEF Register!Justified
    <3>9. a \in {"read", "saved", "exists", "conflict", "busy", "missing", "unsupported", "unknown"}
      BY <2>1 DEF a, OutcomeOf, StatusTrue
    <3> QED
      BY <3>1, <3>2, <3>3, <3>4, <3>5, <3>6, <3>7, <3>8, <3>9
  <2>3. (a = "read" => resp[o] = view[o]) /\ (a = "saved" => resp[o] = stored[o])
    BY <2>1 DEF OutcomeOf, StatusTrue
  <2>4. a \in Register!Outcomes
    BY DEF OutcomeOf, Register!Outcomes
  <2>5. Register!Return(o)
    <3>1. /\ outcome' = [outcome EXCEPT ![o] = a]
          /\ original' = [original EXCEPT ![o] = IF a \in {"read", "saved"} THEN resp[o] ELSE None]
          /\ UNCHANGED <<record, request, view, stored>>
      BY <1>4 DEF Answer, d3Vars, helperVars
    <3>2. original' = [original EXCEPT ![o] = CASE a = "read" -> view[o]
                                                [] a = "saved" -> stored[o]
                                                [] OTHER -> None]
      <4> HIDE DEF a
      <4> QED
      BY <3>1, <2>3
    <3> HIDE DEF a
    <3> QED
      BY <2>1, <2>2, <2>4, <3>1, <3>2, TypesAssumption DEF Register!Return
  <2> QED
    BY <2>5 DEF Register!Next
<1>5. CASE GiveUp(o)
  <2>1. Register!Justified(o, "unknown")
    BY DEF Register!Justified
  <2>2. original' = [original EXCEPT ![o] = None]
    BY <1>5 DEF GiveUp, Inv, TypeOK, CallInv, StageTrue
  <2>3. Register!Return(o)
    BY <1>5, <2>1, <2>2 DEF GiveUp, Register!Return, Register!Outcomes, Inv, CallInv, StageTrue,
       d3Vars, helperVars
  <2> QED
    BY <2>3 DEF Register!Next
<1> QED
  BY <1>1, <1>2, <1>3, <1>4, <1>5 DEF ClientStep

\* A step of the helper, or the end of its session, is an observation, one
\* atomic replacement, or nothing that the register can see.
LEMMA RefinesHelper ==
    ASSUME Inv, NEW o \in Ops, HelperStep(o) \/ HangUp(o)
    PROVE  [Register!Next]_Register!vars
<1>1. request[o] # None /\ outcome[o] \in {"none", "unknown"}
  BY DEF Inv, TypeOK, CallInv, StageTrue, HelperStep, HangUp, HelperReady, HelperMissing,
     ReadFrame, ReadTerminator, InputTimeout, OpenFails, ReadItem, ItemBusy, LockItem,
     RefuseWrite, WriteItem, WriteFails, ReadBack, Finish
<1>2. CASE \/ HelperReady(o) \/ HelperMissing(o) \/ ReadFrame(o) \/ ReadTerminator(o)
           \/ InputTimeout(o) \/ OpenFails(o) \/ ItemBusy(o) \/ RefuseWrite(o)
           \/ WriteFails(o) \/ ReadBack(o) \/ Finish(o) \/ HangUp(o)
  BY <1>2 DEF HelperReady, HelperMissing, ReadFrame, ReadTerminator, InputTimeout,
     OpenFails, ItemBusy, RefuseWrite, WriteFails, ReadBack, Finish, HangUp,
     d3Vars, answerVars, Register!vars
<1>3. CASE ReadItem(o) \/ LockItem(o)
  <2>1. Register!Observe(o)
    BY <1>1, <1>3 DEF ReadItem, LockItem, Register!Observe, Inv, CallInv, StageTrue,
       d3Vars, answerVars
  <2> QED
    BY <2>1 DEF Register!Next
<1>4. CASE WriteItem(o)
  <2>1. helper[o] = "locked"
    BY <1>4 DEF WriteItem
  <2>2. /\ IsWrite(request[o]) /\ request[o].writable /\ request[o].permitted
        /\ stored[o] = None /\ view[o] = record
    BY <2>1 DEF Inv, CallInv, StageTrue, LockProtects, RefusedAtOnce
  <2>3. Register!RefusalOf(request[o], record) = ""
    BY <1>4, <2>2 DEF WriteItem, Register!RefusalOf, RefusalOf
  <2>4. Register!Replace(o)
    BY <1>1, <1>4, <2>2, <2>3 DEF WriteItem, Register!Replace, Register!IsWrite, IsWrite,
       answerVars
  <2> QED
    BY <2>4 DEF Register!Next
<1> QED
  BY <1>2, <1>3, <1>4 DEF HelperStep

\* A step of another user writes the item or is invisible to the register.
LEMMA RefinesOther ==
    ASSUME NEW t \in Others, OtherStep(t)
    PROVE  [Register!Next]_Register!vars
<1>1. CASE OtherLock(t) \/ OtherRelease(t)
  BY <1>1 DEF OtherLock, OtherRelease, helperVars, answerVars, Register!vars
<1>2. CASE OtherWrite(t)
  BY <1>2 DEF OtherWrite, Register!OtherWrite, Register!Contents, Contents, Register!Next,
     helperVars, answerVars
<1> QED
  BY <1>1, <1>2 DEF OtherStep

\* The record protocol implements the register: for any number of editors
\* and other users, every change a call makes is one atomic compare-and-
\* replace or creation, and every answer is true of what happened.
THEOREM Implementation == Spec => ImplementsRegister
<1>1. Inv /\ [Next]_vars => [Register!Next]_Register!vars
  <2> SUFFICES ASSUME Inv, [Next]_vars PROVE [Register!Next]_Register!vars
    OBVIOUS
  <2>1. CASE UNCHANGED vars
    BY <2>1 DEF vars, Register!vars
  <2>2. CASE Next
    BY <2>2, RefinesClient, RefinesHelper, RefinesOther DEF Next
  <2> QED
    BY <2>1, <2>2
<1> QED
  BY <1>1, RefinesInit, Invariance, PTL DEF Spec, ImplementsRegister, Register!Spec
-----------------------------------------------------------------------------
(* What there is to LockReleased and CallSettles besides fairness.         *)

\* How far the helper of a call is; a frame it has read counts.
HelperRank(o) ==
    CASE helper[o] = "off" -> 0
      [] helper[o] = "boot" -> 1
      [] helper[o] = "input" -> 2 + frames[o]
      [] helper[o] = "open" -> Frames + 3
      [] helper[o] = "locked" -> Frames + 4
      [] helper[o] = "written" -> Frames + 5
      [] helper[o] = "finish" -> Frames + 6
      [] helper[o] = "ended" -> Frames + 7

\* Each step of a helper brings it nearer to its end, and whatever the client, the
\* connection, other calls and other users do, nothing takes it back; a call has
\* the lock only between READU and its RELEASE.  So a helper is at its end, and an
\* item free again, after a bounded number of the helper's own steps: it waits
\* for nobody while it has the lock.
HelpersAdvance ==
    /\ []\A o \in Ops :
           /\ HelperRank(o) \in 0 .. Frames + 7
           /\ lock = o => HelperRank(o) \in Frames + 4 .. Frames + 6
    /\ [][\A o \in Ops :
           /\ HelperRank(o) <= HelperRank(o)'
           /\ HelperStep(o) => HelperRank(o) < HelperRank(o)']_vars

\* A step of a helper brings it on, and leaves the other helpers where they are.
LEMMA HelperGoesOn ==
    ASSUME TypeOK, NEW o \in Ops, HelperStep(o)
    PROVE  /\ HelperRank(o) < HelperRank(o)' /\ HelperRank(o) <= HelperRank(o)'
           /\ \A p \in Ops \ {o} : helper'[p] = helper[p] /\ frames'[p] = frames[p]
<1>1. Frames \in Nat \ {0} /\ frames[o] \in 0 .. Frames
  BY ProtocolAssumption DEF TypeOK
<1>2. CASE HelperReady(o) \/ HelperMissing(o)
  <2>1. helper[o] = "boot" /\ helper'[o] \in {"input", "ended"} /\ frames' = frames
    BY <1>2 DEF HelperReady, HelperMissing, TypeOK
  <2>2. \A p \in Ops \ {o} : helper'[p] = helper[p]
    BY <1>2 DEF HelperReady, HelperMissing, TypeOK
  <2> QED
    BY <1>1, <2>1, <2>2 DEF HelperRank
<1>3. CASE ReadFrame(o)
  <2>1. /\ helper[o] = "input" /\ helper' = helper /\ frames'[o] = frames[o] + 1
        /\ \A p \in Ops \ {o} : frames'[p] = frames[p]
    BY <1>3 DEF ReadFrame, TypeOK
  <2> QED
    BY <1>1, <2>1 DEF HelperRank
<1>4. CASE ReadTerminator(o) \/ InputTimeout(o)
  <2>1. /\ helper[o] = "input" /\ helper'[o] \in {"open", "finish"} /\ frames' = frames
        /\ \A p \in Ops \ {o} : helper'[p] = helper[p]
    BY <1>4 DEF ReadTerminator, InputTimeout, Stop, TypeOK
  <2> QED
    BY <1>1, <2>1 DEF HelperRank
<1>5. CASE OpenFails(o) \/ ReadItem(o) \/ ItemBusy(o) \/ LockItem(o)
  <2>1. /\ helper[o] = "open" /\ helper'[o] \in {"locked", "finish"} /\ frames' = frames
        /\ \A p \in Ops \ {o} : helper'[p] = helper[p]
    BY <1>5 DEF OpenFails, ReadItem, ItemBusy, LockItem, Stop, TypeOK
  <2> QED
    BY <1>1, <2>1 DEF HelperRank
<1>6. CASE RefuseWrite(o) \/ WriteItem(o) \/ WriteFails(o)
  <2>1. /\ helper[o] = "locked" /\ helper'[o] \in {"written", "finish"} /\ frames' = frames
        /\ \A p \in Ops \ {o} : helper'[p] = helper[p]
    BY <1>6 DEF RefuseWrite, WriteItem, WriteFails, Stop, TypeOK
  <2> QED
    BY <1>1, <2>1 DEF HelperRank
<1>7. CASE ReadBack(o) \/ Finish(o)
  <2>1. /\ \/ helper[o] = "written" /\ helper'[o] = "finish"
           \/ helper[o] = "finish" /\ helper'[o] = "ended"
        /\ frames' = frames
        /\ \A p \in Ops \ {o} : helper'[p] = helper[p]
    BY <1>7 DEF ReadBack, Finish, Stop, TypeOK
  <2> QED
    BY <1>1, <2>1 DEF HelperRank
<1> QED
  BY <1>2, <1>3, <1>4, <1>5, <1>6, <1>7 DEF HelperStep

\* The safety half of LockReleased and CallSettles, for any number of calls, other
\* users and frames.
THEOREM HelpersReachTheEnd == Spec => HelpersAdvance
<1>1. ASSUME Inv, NEW o \in Ops
      PROVE  /\ HelperRank(o) \in 0 .. Frames + 7
             /\ lock = o => HelperRank(o) \in Frames + 4 .. Frames + 6
  <2>1. Frames \in Nat \ {0} /\ frames[o] \in 0 .. Frames
    BY <1>1, ProtocolAssumption DEF Inv, TypeOK
  <2>2. helper[o] \in {"off", "boot", "input", "open", "locked", "written", "finish", "ended"}
    BY <1>1 DEF Inv, TypeOK
  <2>3. lock = o => helper[o] \in {"locked", "written", "finish"}
    BY <1>1 DEF Inv, CallInv, LockProtects
  <2>4. HelperRank(o) \in 0 .. Frames + 7
    BY <2>1, <2>2 DEF HelperRank
  <2>5. lock = o => HelperRank(o) \in Frames + 4 .. Frames + 6
    BY <2>1, <2>3 DEF HelperRank
  <2> QED
    BY <2>4, <2>5
<1>2. ASSUME Inv, [Next]_vars
      PROVE  \A o \in Ops : /\ HelperRank(o) <= HelperRank(o)'
                            /\ HelperStep(o) => HelperRank(o) < HelperRank(o)'
  <2>1. TypeOK /\ \A o \in Ops : HelperRank(o) \in Nat
    BY <1>1, <1>2, ProtocolAssumption DEF Inv
  <2>2. ASSUME NEW o \in Ops, HelperStep(o)
        PROVE  \A p \in Ops : HelperRank(p) <= HelperRank(p)'
    <3>1. \A p \in Ops \ {o} : HelperRank(p)' = HelperRank(p)
      BY <2>1, <2>2, HelperGoesOn DEF HelperRank
    <3> QED
      BY <2>1, <2>2, <3>1, HelperGoesOn
  <2>3. ASSUME helper' = helper, frames' = frames
        PROVE  \A p \in Ops : HelperRank(p) <= HelperRank(p)'
    <3>1. \A p \in Ops : HelperRank(p)' = HelperRank(p)
      BY <2>3 DEF HelperRank
    <3> QED
      BY <2>1, <3>1
  <2>4. ASSUME NEW o \in Ops, Start(o) \/ HangUp(o)
        PROVE  \A p \in Ops : HelperRank(p) <= HelperRank(p)'
    <3>1. /\ \/ helper[o] = "off" /\ helper'[o] = "boot"
             \/ helper'[o] = "ended"
          /\ frames' = frames
          /\ \A p \in Ops \ {o} : helper'[p] = helper[p]
      BY <1>2, <2>4 DEF Start, HangUp, Inv, CallInv, StageTrue, TypeOK, helperVars
    <3>2. \A p \in Ops \ {o} : HelperRank(p)' = HelperRank(p)
      BY <3>1 DEF HelperRank
    <3>3. HelperRank(o) <= HelperRank(o)'
      <4>1. HelperRank(o) \in 0 .. Frames + 7 /\ Frames \in Nat
        BY <1>1, <1>2, ProtocolAssumption
      <4>2. CASE helper[o] = "off" /\ helper'[o] = "boot"
        BY <4>2 DEF HelperRank
      <4>3. CASE helper'[o] = "ended"
        <5>1. HelperRank(o)' = Frames + 7
          BY <4>3 DEF HelperRank
        <5> QED
          BY <4>1, <5>1
      <4> QED
        BY <3>1, <4>2, <4>3
    <3> QED
      BY <2>1, <3>2, <3>3
  <2>5. ASSUME NEW o \in Ops, Refuse(o) \/ ClientStep(o)
        PROVE  helper' = helper /\ frames' = frames
    BY <2>5 DEF Refuse, ClientStep, SendLine, Answer, GiveUp, helperVars
  <2>6. ASSUME NEW t \in Others, OtherStep(t)
        PROVE  helper' = helper /\ frames' = frames
    BY <2>6 DEF OtherStep, OtherLock, OtherRelease, OtherWrite, helperVars
  <2>7. UNCHANGED vars => helper' = helper /\ frames' = frames
    BY DEF vars
  <2>8. \A p \in Ops : HelperRank(p) <= HelperRank(p)'
    BY <1>2, <2>2, <2>3, <2>4, <2>5, <2>6, <2>7 DEF Next
  <2>9. \A o \in Ops : HelperStep(o) => HelperRank(o) < HelperRank(o)'
    BY <2>1, HelperGoesOn
  <2> QED
    BY <2>8, <2>9
<1>3. Inv => \A o \in Ops :
               /\ HelperRank(o) \in 0 .. Frames + 7
               /\ lock = o => HelperRank(o) \in Frames + 4 .. Frames + 6
  BY <1>1
<1>4. Inv /\ [Next]_vars =>
         [\A o \in Ops : /\ HelperRank(o) <= HelperRank(o)'
                         /\ HelperStep(o) => HelperRank(o) < HelperRank(o)']_vars
  BY <1>2
<1> QED
  BY <1>3, <1>4, Invariance, PTL DEF Spec, HelpersAdvance
=============================================================================

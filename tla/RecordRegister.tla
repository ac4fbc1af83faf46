--------------------------- MODULE RecordRegister ---------------------------
(***************************************************************************)
(* What the record editor promises about one D3 item, whatever happens to  *)
(* sessions, locks and frames: the item is a register with compare-and-    *)
(* replace and create-if-absent.  A call changes the register at most once *)
(* and only while it holds exactly what the call was told to expect; an    *)
(* answer that names a reason is true and final; only the answer "unknown" *)
(* leaves open whether the replacement was, or still will be, written.     *)
(***************************************************************************)
EXTENDS RecordTypes

CONSTANTS Rewrites  \* values a file trigger may store instead of a replacement

VARIABLES
    record,    \* what the item holds
    request,   \* request[o]: what call o asked for, None before the call
    view,      \* view[o]: what o saw in the item, None before it looked
    stored,    \* stored[o]: what o put into the item, None if it has not
    outcome,   \* outcome[o]: what the caller of o was told
    original   \* original[o]: the bytes returned with that answer

vars == <<record, request, view, stored, outcome, original>>

Init ==
    /\ record \in Contents
    /\ request = [o \in Ops |-> None]
    /\ view = [o \in Ops |-> None]
    /\ stored = [o \in Ops |-> None]
    /\ outcome = [o \in Ops |-> "none"]
    /\ original = [o \in Ops |-> None]

Invoke(o, r) ==
    /\ request[o] = None
    /\ request' = [request EXCEPT ![o] = r]
    /\ outcome' = [outcome EXCEPT ![o] = IF RefusedAtOnce(r) THEN "refused" ELSE "none"]
    /\ UNCHANGED <<record, view, stored, original>>

\* A call looks at the item once; it may do so after its caller gave up.
Observe(o) ==
    /\ request[o] # None
    /\ view[o] = None
    /\ outcome[o] \in {"none", "unknown"}
    /\ view' = [view EXCEPT ![o] = record]
    /\ UNCHANGED <<record, request, stored, outcome, original>>

\* The only way a call changes the item.
Replace(o) ==
    /\ request[o] # None
    /\ IsWrite(request[o])
    /\ request[o].writable /\ request[o].permitted
    /\ stored[o] = None
    /\ outcome[o] \in {"none", "unknown"}
    /\ view[o] = record
    /\ RefusalOf(request[o], record) = ""
    /\ \E v \in {request[o].replacement} \cup Rewrites :
          /\ record' = v
          /\ stored' = [stored EXCEPT ![o] = v]
    /\ UNCHANGED <<request, view, outcome, original>>

\* What must be true of call o for its caller to be told a.
Justified(o, a) ==
    LET r == request[o] IN
    CASE a = "read"        -> r.kind = "READ" /\ view[o] \in Payloads
      [] a = "saved"       -> IsWrite(r) /\ stored[o] = r.replacement
      [] a = "exists"      -> r.kind = "CREATE_ONLY" /\ view[o] \in Values /\ stored[o] = None
      [] a = "conflict"    -> r.kind = "CAS_EXISTING" /\ view[o] \in Values \ {r.expected} /\ stored[o] = None
      [] a = "missing"     -> view[o] \in {None, Absent} /\ stored[o] = None
      [] a = "unsupported" -> view[o] \in Unsupported /\ stored[o] = None
      [] a = "busy"        -> IsWrite(r) /\ view[o] = None /\ stored[o] = None
      [] a = "unknown"     -> TRUE
      [] OTHER             -> FALSE

Return(o) ==
    /\ request[o] # None
    /\ outcome[o] = "none"
    /\ \E a \in Outcomes :
          /\ Justified(o, a)
          /\ outcome' = [outcome EXCEPT ![o] = a]
          /\ original' = [original EXCEPT ![o] =
                             CASE a = "read" -> view[o]
                               [] a = "saved" -> stored[o]
                               [] OTHER -> None]
    /\ UNCHANGED <<record, request, view, stored>>

\* Another D3 user writes or deletes the item.
OtherWrite ==
    /\ record' \in Contents
    /\ UNCHANGED <<request, view, stored, outcome, original>>

Next ==
    \/ \E o \in Ops :
          \/ \E r \in Requests : Invoke(o, r)
          \/ Observe(o)
          \/ Replace(o)
          \/ Return(o)
    \/ OtherWrite

Spec == Init /\ [][Next]_vars
=============================================================================

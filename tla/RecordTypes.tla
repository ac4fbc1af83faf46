---------------------------- MODULE RecordTypes ----------------------------
(***************************************************************************)
(* The vocabulary of the D3 record protocol: one D3 item, the requests the *)
(* editor makes about it, and the condition under which a request may      *)
(* replace it.                                                             *)
(***************************************************************************)
CONSTANTS
    Ops,          \* calls of runRecordOperation, each in a D3 session of its own
    Values,       \* byte strings the item can hold
    Unsupported,  \* the values that are binary items or exceed 8 KiB
    Absent,       \* what the item "holds" when it does not exist
    None,         \* no value
    Requests      \* the calls the editor may make

\* What READ or READU can find.
Contents == Values \cup {Absent}

\* A payload the client accepts: bytes, at most 8 KiB.
Payloads == Values \ Unsupported

(***************************************************************************)
(* "writable" is recordWriteAllowed (sandbox files and programs only);     *)
(* "permitted" says that the connection fingerprint is the current one and *)
(* that assertD3Allowed lets this safety mode and confirmation write.      *)
(* A READ carries no payload and neither check applies to it.              *)
(***************************************************************************)
AllRequests ==
    [kind : {"READ"}, expected : {None}, replacement : {None},
     writable : {TRUE}, permitted : {TRUE}]
    \cup
    [kind : {"CREATE_ONLY"}, expected : {None}, replacement : Payloads,
     writable : BOOLEAN, permitted : BOOLEAN]
    \cup
    [kind : {"CAS_EXISTING"}, expected : Payloads, replacement : Payloads,
     writable : BOOLEAN, permitted : BOOLEAN]

ASSUME TypesAssumption ==
    /\ Unsupported \subseteq Values
    /\ Absent \notin Values
    /\ None \notin Values \cup {Absent} \cup AllRequests
    /\ Requests \subseteq AllRequests

IsWrite(r) == r.kind # "READ"

\* writeEditorRecord throws before it opens a D3 session.
RefusedAtOnce(r) == IsWrite(r) /\ ~(r.writable /\ r.permitted)

\* Mutant: without the check IF CURRENT.FOUND THEN ALREADY_EXISTS.
RefusalOfBlindCreate(r, current) ==
    IF current \in Unsupported THEN "UNSUPPORTED_BINARY"
    ELSE IF r.kind = "CAS_EXISTING" /\ current = Absent THEN "NOT_FOUND"
    ELSE IF r.kind = "CAS_EXISTING" /\ current # r.expected THEN "CONFLICT"
    ELSE ""

(***************************************************************************)
(* The checks the helper makes under the item lock, in its order: the      *)
(* status it stops with, or "" when the replacement may be written.        *)
(***************************************************************************)
RefusalOf(r, current) ==
    IF r.kind = "CREATE_ONLY" /\ current # Absent THEN "ALREADY_EXISTS"
    ELSE IF current \in Unsupported THEN "UNSUPPORTED_BINARY"
    ELSE IF r.kind = "CAS_EXISTING" /\ current = Absent THEN "NOT_FOUND"
    ELSE IF r.kind = "CAS_EXISTING" /\ current # r.expected THEN "CONFLICT"
    ELSE ""

\* The answers the editor can get, "none" while the call is under way.
Outcomes == {"none", "read", "saved", "exists", "conflict", "busy", "missing",
             "unsupported", "refused", "unknown"}
=============================================================================

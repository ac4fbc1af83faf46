-------------------------- MODULE MCRecordProtocol --------------------------
(* Small instances of RecordProtocol for TLC. *)
EXTENDS RecordProtocol, TLC

CONSTANTS o1, o2, t1, a, b, x

Read == [kind |-> "READ", expected |-> None, replacement |-> None,
         writable |-> TRUE, permitted |-> TRUE]
Create(v) == [Read EXCEPT !.kind = "CREATE_ONLY", !.replacement = v]
Replace(e, v) == [Create(v) EXCEPT !.kind = "CAS_EXISTING", !.expected = e]

\* Reads, creations, replacements in both directions, and one call of each
\* kind of refusal.
MixedRequests ==
    {Read, Create(a), Replace(a, b), Replace(b, a),
     [Replace(a, b) EXCEPT !.permitted = FALSE]}

\* A reader, creators and editors that compete for one item.
RaceRequests == {Read, Create(a), Replace(a, b)}

\* Calls are interchangeable where only invariants are checked.
CallSymmetry == Permutations(Ops)
=============================================================================

---------------------------- MODULE MCAgentTurn ----------------------------
(* Small instances of AgentTurn for TLC. *)
EXTENDS AgentTurn

CONSTANTS c1, c2

Write == [mutates |-> TRUE, lines |-> {"write"}, accepts |-> TRUE]
Drop == [mutates |-> TRUE, lines |-> {"read", "destructive"}, accepts |-> TRUE]
Look == [mutates |-> FALSE, lines |-> {"read"}, accepts |-> FALSE]

WriteAndLook == {Write, Look}
DropAndLook == {Drop, Look}
=============================================================================

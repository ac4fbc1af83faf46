------------------------- MODULE MCTerminalSessions -------------------------
(* Small instances of TerminalSessions for TLC. *)
EXTENDS TerminalSessions

CONSTANTS r1, r2, r3, t1, t2, p1, p2
=============================================================================

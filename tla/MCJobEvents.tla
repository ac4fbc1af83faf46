---------------------------- MODULE MCJobEvents ----------------------------
(* Two jobs that push more events than the server keeps. *)
EXTENDS JobEvents

CONSTANTS r1, r2
=============================================================================

------------------------ MODULE MCPersistentSession ------------------------
(***************************************************************************)
(* Three commands of a session, one of them of two lines; and a program    *)
(* that may start two others.                                              *)
(***************************************************************************)
EXTENDS ProgramWaits, TLC

CONSTANTS c1, c2, c3, w1, w2

OneOfTwoLines == c1 :> 1 @@ c2 :> 2 @@ c3 :> 1
=============================================================================

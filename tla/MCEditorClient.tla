--------------------------- MODULE MCEditorClient ---------------------------
(* A small instance of EditorClient for TLC. *)
EXTENDS EditorClient, TLC

CONSTANTS home, work, near, far, third, i1, i2, v1, v2

TwoSettings == home :> near @@ work :> far

\* The two installations differ; an edit of a profile leads to a third that
\* stores what the first does.
Differing ==
    {[slot \in Connections \X Items |-> IF slot[1] = far THEN v ELSE w] :
        <<v, w>> \in {<<v1, v2>>, <<v2, v1>>}}

\* Items and values are alike.
Symmetric == Permutations(Items) \cup Permutations(Values)
=============================================================================

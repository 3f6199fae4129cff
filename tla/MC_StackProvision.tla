------------------------- MODULE MC_StackProvision -------------------------
(* Two stacks of the file, s1 and s2, with slots 1 and 2; 3 and 4 leave    *)
(* room for duplicates.                                                    *)
EXTENDS StackProvision

CONSTANTS s1, s2, p1, p2

MC_StackNames == {s1, s2}
MC_Ids == 1..4
MC_InitialId == [s \in MC_StackNames |-> IF s = s1 THEN 1 ELSE 2]
=============================================================================

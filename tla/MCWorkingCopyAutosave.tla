----------------------- MODULE MCWorkingCopyAutosave -----------------------
(***************************************************************************)
(* Two branches of a work and two placements, each showing one of them.    *)
(***************************************************************************)
EXTENDS WorkingCopyAutosave

CONSTANTS b1, b2, o1, o2

MCBranches == {b1, b2}
MCTwoOccs == {o1, o2}
MCTwoShown == [o \in MCTwoOccs |-> IF o = o1 THEN b1 ELSE b2]
=============================================================================

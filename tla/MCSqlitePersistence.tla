------------------------ MODULE MCSqlitePersistence ------------------------
(***************************************************************************)
(* Small instances of SqlitePersistence: two records of two values, which  *)
(* may not both be 1.  A request that sets one record may so be valid or   *)
(* not, depending on the calls that came before.                           *)
(***************************************************************************)
EXTENDS SqlitePersistence, TLC

CONSTANTS k1, k2

MCKeys == {k1, k2}
MCValues == {0, 1}
MCInit == [k \in MCKeys |-> 0]
MCValid == {s \in [MCKeys -> MCValues] : s[k1] = 0 \/ s[k2] = 0}

Symmetry == Permutations(Callers)
=============================================================================

------------------------------- MODULE TagNames -------------------------------
(***************************************************************************)
(* What renaming and merging tags promise.  No text is rewritten: a tag    *)
(* keeps the name it was written with, and has a canonical name under      *)
(* which it is shown and found.  A rename or a merge gives the target's    *)
(* name to the target, to the sources, and to every tag that had the       *)
(* canonical name of one of them.                                          *)
(***************************************************************************)
CONSTANT Tags

VARIABLE canonical  \* by tag as it is written

Init == canonical = [t \in Tags |-> t]

Canonicalize(sources, target) ==
  canonical' = [t \in Tags |->
                  IF \E s \in sources \cup {target} : canonical[t] = canonical[s]
                  THEN target ELSE canonical[t]]

Next == \E sources \in SUBSET Tags, target \in Tags : Canonicalize(sources, target)

Spec == Init /\ [][Next]_canonical
=============================================================================

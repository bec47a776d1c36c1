-------------------------- MODULE MCLongTermStore ---------------------------
(***************************************************************************)
(* LongTermStore for TLC: ids, facts and slots are interchangeable.        *)
(***************************************************************************)
EXTENDS LongTermStore, TLC

MCOverlaps == {{"create", "compact", "access", "deleteInvalid"},
               {"create", "repeat"}}
MCOverlapsAgain == {{"create", "overwrite"}}

Symmetry == Permutations(Ids) \cup Permutations(Facts) \cup Permutations(Ops)
=============================================================================

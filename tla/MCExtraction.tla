---------------------------- MODULE MCExtraction ----------------------------
(***************************************************************************)
(* Extraction for TLC: the messages are interchangeable.                   *)
(***************************************************************************)
EXTENDS Extraction, TLC

Symmetry == Permutations(Msgs)
=============================================================================

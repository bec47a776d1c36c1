-------------------------- MODULE MCSummaryRefresh --------------------------
(***************************************************************************)
(* SummaryRefresh for TLC: each partition has one of the memories.         *)
(***************************************************************************)
EXTENDS SummaryRefresh

CONSTANTS m1, m2, g1, g2

MCGroupOf == [m \in Memories |-> IF m = m1 THEN g1 ELSE g2]
=============================================================================

-------------------------- MODULE MCVillainControl --------------------------
(* A thread and the links it may be the villain of, for TLC.                *)
EXTENDS VillainControl

CONSTANT t1
=============================================================================

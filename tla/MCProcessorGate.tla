---------------------------- MODULE MCProcessorGate ----------------------------
(* ProcessorGate for TLC: the doors of the aggregate are interchangeable.   *)
EXTENDS ProcessorGate, TLC

DoorSymmetry == Permutations(Door)
=============================================================================

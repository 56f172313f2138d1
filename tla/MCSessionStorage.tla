---------------------------- MODULE MCSessionStorage ----------------------------
(* SessionStorage for TLC: the cameras are interchangeable.                 *)
EXTENDS SessionStorage, TLC

CameraSymmetry == Permutations(Cameras)
=============================================================================

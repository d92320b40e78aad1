------------------------------ MODULE MCSaveDialog ------------------------------
(* Instances of SaveDialog for TLC.  Nothing tells the directories the     *)
(* user can enter apart, and the runs with this symmetry check no liveness.*)
EXTENDS SaveDialog, TLC

PathSymmetry == Permutations(Paths)
===============================================================================

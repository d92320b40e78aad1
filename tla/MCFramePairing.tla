----------------------------- MODULE MCFramePairing -----------------------------
(* Instances of FramePairing for TLC: see the configurations. *)
EXTENDS FramePairing
===============================================================================

------------------------------- MODULE MCPreview -------------------------------
(* Instances of Preview for TLC: see the configurations. *)
EXTENDS Preview
===============================================================================

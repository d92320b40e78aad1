----------------------------- MODULE MCSaveSession -----------------------------
(* Small instances of SaveSession: see the .cfg files. *)
EXTENDS SaveSession
===============================================================================

------------------------------ MODULE MCShutdown ------------------------------
(* Shutdown on a small instance, see MCShutdown_shutdown.cfg.               *)
EXTENDS Shutdown
===============================================================================

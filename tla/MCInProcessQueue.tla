-------------------------- MODULE MCInProcessQueue --------------------------
(* Small instances of InProcessQueue for TLC. *)
EXTENDS InProcessQueue
=============================================================================

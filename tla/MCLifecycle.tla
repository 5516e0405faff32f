------------------------------ MODULE MCLifecycle ------------------------------
(* Instances of Lifecycle for TLC.  Every command is an initial state.      *)
EXTENDS Lifecycle
=============================================================================

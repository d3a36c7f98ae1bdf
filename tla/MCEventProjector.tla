-------------------------- MODULE MCEventProjector --------------------------
(***************************************************************************)
(* A small instance of EventProjector: one projector that may fail, one    *)
(* envelope and one threshold.                                             *)
(***************************************************************************)
EXTENDS EventProjector

=============================================================================

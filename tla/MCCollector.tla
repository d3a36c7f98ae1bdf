---------------------------- MODULE MCCollector ----------------------------
(***************************************************************************)
(* A small instance of Collector: nine messages, a feed of three of them.  *)
(***************************************************************************)
EXTENDS Collector

============================================================================

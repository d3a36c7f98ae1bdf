--------------------------- MODULE MCPlannerCycle ---------------------------
(***************************************************************************)
(* A small instance of PlannerCycle.  A tick is an hour: the lease (half   *)
(* an hour) is gone after one, the packets come every tick, and the        *)
(* intervals keep their order: lease < freshness < retry < refresh.        *)
(***************************************************************************)
EXTENDS PlannerCycle

============================================================================

-------------------------- MODULE MCCanaryBridge --------------------------
(***************************************************************************)
(* Small instances of CanaryBridge: an envelope with two artifacts and one *)
(* with a third, which may be unsound.                                     *)
(***************************************************************************)
EXTENDS CanaryBridge

CONSTANTS e1, e2, a1, a2, a3, c1, c2, c3, b1

MCArtifactsOf == [e \in {e1, e2} |-> IF e = e1 THEN <<a1, a2>> ELSE <<a3>>]

InOrder == [e \in {e1, e2} |-> IF e = e1 THEN 1 ELSE 2]

\* Two candidates can be made from a1 and one from a2.
MCOrigin == [c \in {c1, c2, c3} |-> IF c = c3 THEN a2 ELSE a1]

===========================================================================

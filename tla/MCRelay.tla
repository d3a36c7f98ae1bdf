------------------------------ MODULE MCRelay ------------------------------
(***************************************************************************)
(* A small instance of Relay: an approval that the operator answers in two *)
(* contradictory ways, another approval, and a notice without priority.    *)
(***************************************************************************)
EXTENDS Relay

CONSTANTS e1, e2, e3, w1, w2, w3

MCRank == [e \in Events |-> CASE e = e1 -> 1 [] e = e2 -> 2 [] e = e3 -> 3]

MCWorkload == [m \in Modes |-> IF m = "host" THEN {e1, e2} ELSE {e1, e3}]

MCExpiresAt == [e \in Approvals |-> IF e = e1 THEN MaxTime ELSE 1]

MCAnswerOf ==
    [w \in Webhooks |->
        [event |-> IF w = w3 THEN e2 ELSE e1,
         action |-> IF w = w2 THEN "deny" ELSE "approve"]]

============================================================================

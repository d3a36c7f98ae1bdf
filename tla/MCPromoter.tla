---------------------------- MODULE MCPromoter ----------------------------
(***************************************************************************)
(* Small instances of Promoter: two candidates that carry the same         *)
(* artifact, or two artifacts, for one destination.                        *)
(***************************************************************************)
EXTENDS Promoter, TLC

CONSTANTS c1, c2, n1, n2, n3, p1, i1, m1, m2, a1, a2, d1, t1, t2

TwoNonces == {n1, n2}

PairSymmetry == Permutations({m1, m2}) \union Permutations(TwoNonces)

\* c2 is a second candidate for the artifact of c1.
SameArtifact == [c \in Candidates |-> a1]
TwoArtifacts == [c \in Candidates |-> IF c = c1 THEN a1 ELSE a2]
OneDestination == [c \in Candidates |-> d1]
InOrder == [c \in Candidates |-> IF c = c1 THEN 1 ELSE 2]
CanariedOnT1 == [c \in Candidates |-> t1]

=============================================================================

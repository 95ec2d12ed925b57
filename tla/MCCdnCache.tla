---------------------------- MODULE MCCdnCache ------------------------------
(* CdnCache for TLC: where the nodes are, and the symmetry of the request  *)
(* slots, which no action and no safety property names.                    *)
EXTENDS CdnCache, TLC

OneRegion == [n \in Nodes |-> CHOOSE g \in Regions : TRUE]
OneNodeEach == [n \in Nodes |-> n]
RequestSymmetry == Permutations(Requests)
=============================================================================

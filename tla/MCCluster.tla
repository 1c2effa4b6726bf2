----------------------------- MODULE MCCluster -----------------------------
(* Instances of Cluster for TLC.                                            *)
EXTENDS Cluster, TLC

CONSTANTS c1, c2, c3, a1, a2

(* Two blocks at one height, round and step.                                *)
TwoBlocks ==
    {[HRS |-> [Height |-> 1, Round |-> 0, Step |-> 2], block |-> b] : b \in {"A", "B"}}

(* Cosigners differ only in name, and so do attempts.                       *)
ClusterSymmetry == Permutations(Cosigners) \cup Permutations(Attempts)
=============================================================================

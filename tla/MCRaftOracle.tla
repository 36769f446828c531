---------------------------- MODULE MCRaftOracle ----------------------------
(* Instances of RaftOracle for TLC: interchangeable servers and values. *)
EXTENDS RaftOracle, TLC

Symmetry == Permutations(Servers) \union Permutations(Values)
=============================================================================

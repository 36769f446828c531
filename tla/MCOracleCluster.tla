--------------------------- MODULE MCOracleCluster ---------------------------
(* Instances of OracleCluster for TLC.  The first node lives in box s1, any *)
(* other in box s2; further boxes have no compute nodes.                    *)
EXTENDS OracleCluster

CONSTANTS s1, s2, n1

MCHome == [n \in Nodes |-> IF n = n1 THEN s1 ELSE s2]
=============================================================================

------------------------------ MODULE MCReplica ------------------------------
(* A map, two players or a reset map, two servers.                         *)
EXTENDS Replica
=============================================================================

------------------------------ MODULE MCOctree ------------------------------
(* An octree of one level of nodes, for what a ray finds first.              *)
EXTENDS Octree

Cube(x, y, z) == Box(<<x[1], y[1], z[1]>>, <<x[2], y[2], z[2]>>)

\* A box across the middle, and a small one before it in another leaf.
MCCrossed == {Cube(<<3, 5>>, <<2, 7>>, <<4, 6>>), Cube(<<1, 2>>, <<5, 6>>, <<4, 6>>)}
MCUpwards == {[origin |-> <<0, 3, 5>>, direction |-> <<1, d, 0>>] : d \in {-1, 0, 1}}
=============================================================================

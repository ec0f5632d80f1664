--------------------------- MODULE MCLatticeGraph ---------------------------
(* LatticeGraph over the bootstrap plan of lattice_open, a root and its leaf, *)
(* and over a plan without nodes.                                            *)
EXTENDS LatticeGraph

BootstrapOrEmpty == {<<0, 1>>, <<>>}
=============================================================================

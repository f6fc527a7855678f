-------------------------- MODULE MCRootConnection --------------------------
(* RootConnection on a small instance: goroutines are interchangeable.     *)
EXTENDS RootConnection, TLC

Symmetry == Permutations(Goroutines)

=============================================================================

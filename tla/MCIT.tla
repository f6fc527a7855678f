-------------------------------- MODULE MCIT --------------------------------
(* IT on a small instance: the tests are interchangeable, and so are the    *)
(* instances.                                                               *)
EXTENDS IT

Symmetry == Permutations(Tests) \cup Permutations(Instances)

=============================================================================

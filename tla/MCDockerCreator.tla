--------------------------- MODULE MCDockerCreator ---------------------------
(* DockerCreator on a small instance: goroutines and instances are model   *)
(* values and interchangeable.                                             *)
EXTENDS DockerCreator, TLC

Symmetry == Permutations(Goroutines) \cup Permutations(Instances)

=============================================================================

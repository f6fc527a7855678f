-------------------------------- MODULE MCUtils --------------------------------
(* Utils on a small instance.                                              *)
EXTENDS Utils

CONSTANTS T, S  \* the name of a test and of a subtest

\* Subtests and hints that lead to the same prefix, and a hint that looks like
\* the number of a name.
SomeTestNames == {<<T>>, <<T, Slash, S>>, <<T, Dash, S>>}
SomeHints == {<<>>, <<S>>, <<S, Slash, T>>, <<[number |-> 1]>>}

=============================================================================

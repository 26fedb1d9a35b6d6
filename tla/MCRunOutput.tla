---------------------------- MODULE MCRunOutput ----------------------------
(* A small instance of RunOutput for TLC. *)
EXTENDS RunOutput, TLC

\* A short line, a line and a block that are longer than is kept.
SomePrints == {[bytes |-> 1, lines |-> 1], [bytes |-> Cap + 1, lines |-> 1],
               [bytes |-> Cap + 1, lines |-> 2]}

Symmetry == Permutations(Hosts)
=============================================================================

------------------------------- MODULE MCRun -------------------------------
(* Small instances of Run for TLC. *)
EXTENDS Run, TLC

\* Enough where only "ended well" and "did not" matter.
TwoEnds == {0, 1}
OneEnd == {0}

Symmetry == Permutations(Hosts)
=============================================================================

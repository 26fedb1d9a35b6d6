-------------------------- MODULE MCPrivilegedRun --------------------------
(* Small instances of PrivilegedRun for TLC. *)
EXTENDS PrivilegedRun, TLC

OneEnd == {0}
\* Every way an ssh may end: the three readings of an exit status, and none.
AllEnds == {0, 1, ConnectFailed, Unreadable}

\* Sound for safety when no Host is told apart by Unique or Stubborn.
Symmetry == Permutations(Hosts)
=============================================================================

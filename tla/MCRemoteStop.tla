---------------------------- MODULE MCRemoteStop ----------------------------
(* One Host of every kind, and a command of up to three processes besides  *)
(* its subshell.                                                           *)
EXTENDS RemoteStop

EveryKind == HostKinds

\* Those on which the wrapper is never overtaken.
Punctual == {k \in HostKinds : ~k.overtaken}
=============================================================================

-------------------------- MODULE RemoteStopProofs --------------------------
(* Theorems of RemoteStop, whatever the command and whatever the Host.     *)
EXTENDS RemoteStop, TLAPS

\* A stop that has read a pid found a wrapper past its first statement, so that
\* what the script has removed stays removed; only then may the shell be killed,
\* so the wrapper alone never leaves a marker behind.  Unless it is overtaken, a
\* wrapper that has not written its marker has not been looked for either.
Ordered ==
    /\ shell = "unforked" => marker = "none" /\ Shell \notin born
    /\ shell \in {"starting", "opened", "forking", "waiting", "removing"} =>
         Shell \in alive \/ list # {}
    /\ shell \in {"starting", "opened"} =>
         (host.overtaken \/ NotYetRead \/ stop = "over") /\ list = {}
    /\ shell = "opened" /\ NotYetRead => marker = "empty"
    /\ marker = "pid" \/ found = "pid" =>
         shell \notin {"unforked", "starting", "opened"}
    /\ stop = "unlinking" => found # "none"
    /\ stop \in {"listing", "terming", "sleeping"} \/ list # {} => found = "pid"
    /\ shell \in {"leaving", "gone"} => marker = "none"
    /\ NotYetRead \/ stop \in {"reading", "unlinking"} => list = {}
    /\ stop \in {"listing", "terming", "sleeping"} => marker = "none"
    /\ list # {} => marker = "none"

IInv == RemoteTypeOK /\ Ordered /\ MarkerNamesALiveShell

-----------------------------------------------------------------------------
LEMMA InitHolds == Init => IInv
  BY ShellAssumption, HostsAssumption, InitAssumption
     DEF Init, IInv, RemoteTypeOK, Ordered, MarkerNamesALiveShell, Listed, NotYetRead, Procs

LEMMA StepHolds == IInv /\ [Next]_vars => IInv'
<1> SUFFICES ASSUME IInv, [Next]_vars PROVE IInv'
  OBVIOUS
<1> USE ShellAssumption, DeafAssumption, InitAssumption
    DEF IInv, RemoteTypeOK, Ordered, MarkerNamesALiveShell, Listed, NotYetRead
<1>1. ASSUME SshdForks PROVE IInv'
  BY <1>1 DEF SshdForks, Fork, onStop, Procs
<1>2. ASSUME OpenMarker PROVE IInv'
  BY <1>2 DEF OpenMarker, onStop
<1>3. ASSUME WriteMarker PROVE IInv'
  BY <1>3 DEF WriteMarker, onStop
<1>4. ASSUME StartCommand PROVE IInv'
  BY <1>4 DEF StartCommand, Fork, onStop, Procs
<1>5. ASSUME CommandEnded PROVE IInv'
  BY <1>5 DEF CommandEnded, onStop
<1>6. ASSUME RemoveMarker PROVE IInv'
  BY <1>6 DEF RemoveMarker, onStop
<1>7. ASSUME ShellExits PROVE IInv'
  BY <1>7 DEF ShellExits, Die, onStop, Procs
<1>8. ASSUME NEW p \in Procs, NEW q \in Jobs, JobForks(p, q) PROVE IInv'
  BY <1>8 DEF JobForks, Fork, onStop, Procs
<1>9. ASSUME NEW p \in Procs, ProcessExits(p) PROVE IInv'
  BY <1>9 DEF ProcessExits, Die, onStop, Procs
<1>10. ASSUME CutShort PROVE IInv'
  BY <1>10 DEF CutShort, onHost
<1>17. ASSUME StopRefused PROVE IInv'
  BY <1>17 DEF StopRefused, onHost
<1>18. ASSUME StopLimit PROVE IInv'
  BY <1>18 DEF StopLimit, onHost
<1>19. ASSUME ScriptStarts PROVE IInv'
  BY <1>19 DEF ScriptStarts, onHost
<1>11. ASSUME ReadMarker PROVE IInv'
  BY <1>11 DEF ReadMarker, Finish, onHost
<1>12. ASSUME RemoveFirst PROVE IInv'
  BY <1>12 DEF RemoveFirst, Finish, onHost
<1>13. ASSUME ListTree PROVE IInv'
  <2>1. Tree \subseteq Procs /\ Shell \in Tree
    BY DEF Tree, Closed, Procs
  <2> QED
    BY <1>13, <2>1 DEF ListTree, onHost
<1>14. ASSUME Term PROVE IInv'
  BY <1>14 DEF Term, Die, Procs
<1>15. ASSUME Kill PROVE IInv'
  BY <1>15 DEF Kill, Die, Finish, Procs
<1>16. ASSUME UNCHANGED vars PROVE IInv'
  BY <1>16 DEF vars
<1> QED
  BY <1>1, <1>2, <1>3, <1>4, <1>5, <1>6, <1>7, <1>8, <1>9, <1>10, <1>11, <1>12,
     <1>13, <1>14, <1>15, <1>16, <1>17, <1>18, <1>19 DEF Next, Wrapper, Stop

THEOREM OrderHolds == Spec => []IInv
  BY InitHolds, StepHolds, PTL DEF Spec

\* Every reachable state is typed, and the recorded pid is always signalled.
THEOREM RemoteTypeCorrect == Spec => []RemoteTypeOK
  BY OrderHolds, PTL DEF IInv

\* A marker on the Host names a live shell, for every command: the two sides
\* remove it in an order neither can break (src/remote.rs:92-93).
THEOREM MarkerIsAlive == Spec => []MarkerNamesALiveShell
  BY OrderHolds, PTL DEF IInv

-----------------------------------------------------------------------------
(* A tame command *)

\* Everybody is below the shell: in every set that holds the shell and the
\* children of its members.  Said so, it needs no induction over the tree: a
\* child is in any such set as soon as its parent is.
Descended == \A S \in SUBSET Procs : Closed(S) => alive \subseteq S

\* The shell starts the subshell and nobody else, and once.
OneSubshell ==
    /\ \A q \in alive \ {Shell} : parent[q] = Shell => q = Sub
    /\ shell \in {"unforked", "starting", "opened", "forking"} => Sub \notin born
    /\ shell \in {"removing", "leaving", "gone"} => Sub \notin alive

\* A marker that can be written is there, with its pid, for as long as the
\* command runs and nobody has read it.
MarkerIsWritten ==
    /\ shell = "unforked" => alive = {}
    /\ marker = "empty" => shell = "opened"
    /\ shell \in {"forking", "waiting", "removing"}
           /\ (NotYetRead \/ stop \in {"reading", "unlinking"}) => marker = "pid"
    /\ found # "empty"

\* What may still run of a tame command, at every point of the stop.
TameInv ==
    /\ list = {} => Descended
    /\ shell \in {"leaving", "gone"} /\ list = {} => alive \subseteq {Shell}
    /\ OneSubshell
    /\ list # {} => alive \subseteq list
    /\ stop = "listing" => list = {}
    /\ answer = "stopped" =>
           /\ stop = "over"
           /\ alive \subseteq {Shell}
           /\ list # {} \/ shell \in {"unforked", "leaving", "gone"}

Tame ==
    host.tmp = "writable" /\ host.ps /\ host.tame /\ ~host.overtaken

TIInv == Tame => MarkerIsWritten /\ TameInv

-----------------------------------------------------------------------------
LEMMA TameInitHolds == Init => TIInv
  BY DEF Init, TIInv, MarkerIsWritten, TameInv, Descended, OneSubshell, NotYetRead

\* A process that is forked by one that is below the shell is below it.
LEMMA ForkDescends ==
    ASSUME RemoteTypeOK, NEW p \in alive, NEW q \in Procs \ (alive \cup {Shell}),
           Fork(p, q), Descended
    PROVE  Descended'
<1> SUFFICES ASSUME NEW S \in SUBSET Procs, Closed(S)'
             PROVE  alive' \subseteq S
  BY DEF Descended
<1>1. alive' = alive \cup {q} /\ parent' = [parent EXCEPT ![q] = p]
  BY DEF Fork
<1>2. \A r \in Procs : Children(r) \subseteq Children(r)'
  BY <1>1 DEF Children, RemoteTypeOK
<1>3. q \in Children(p)'
  BY <1>1 DEF Children, RemoteTypeOK
<1>4. Shell \in S /\ \A r \in S : Children(r)' \subseteq S
  BY DEF Closed
<1>5. Closed(S)
  BY <1>2, <1>4 DEF Closed
<1>6. alive \subseteq S
  BY <1>5 DEF Descended
<1> QED
  BY <1>1, <1>3, <1>4, <1>6

\* Nobody is orphaned by a process that leaves no children.
LEMMA ExitDescends ==
    ASSUME RemoteTypeOK, NEW p \in alive \ {Shell}, Children(p) = {}, Die({p}),
           Descended
    PROVE  Descended'
<1> SUFFICES ASSUME NEW S \in SUBSET Procs, Closed(S)'
             PROVE  alive' \subseteq S
  BY DEF Descended
<1>1. /\ alive' = alive \ {p}
      /\ \A q \in alive' \ {Shell} : parent'[q] = parent[q]
  BY DEF Die, Children, RemoteTypeOK
<1>2. Shell \in S /\ \A r \in S : Children(r)' \subseteq S
  BY DEF Closed
<1>3. \A r : Children(r) \subseteq Children(r)' \cup {p}
  BY <1>1 DEF Children
<1>4. Closed(S \cup {p})
  BY <1>2, <1>3 DEF Closed
<1>5. alive \subseteq S \cup {p}
  BY <1>4 DEF Descended, RemoteTypeOK
<1> QED
  BY <1>1, <1>5

\* With its subshell gone the shell has nobody below it.
LEMMA AloneWithoutSub ==
    ASSUME Descended, OneSubshell, Sub \notin alive
    PROVE  alive \subseteq {Shell}
<1>1. Closed({Shell})
  BY DEF Closed, Children, OneSubshell
<1> QED
  BY <1>1 DEF Descended, Procs

LEMMA TameStepHolds == IInv /\ TIInv /\ [Next]_vars => TIInv'
<1> SUFFICES ASSUME IInv, TIInv, [Next]_vars, Tame, host' = host
             PROVE  MarkerIsWritten' /\ TameInv'
  <2>1. [Next]_vars => host' = host
    BY DEF Next, Wrapper, Stop, vars, SshdForks, OpenMarker, WriteMarker,
       StartCommand, CommandEnded, RemoveMarker, ShellExits, JobForks,
       ProcessExits, CutShort, StopRefused, StopLimit, ScriptStarts, ReadMarker,
       RemoveFirst, ListTree, Term, Kill
  <2> QED BY <2>1 DEF TIInv, Tame
<1>0. MarkerIsWritten /\ TameInv
  BY DEF TIInv
<1> DEFINE Goal == MarkerIsWritten' /\ TameInv'
<1> USE <1>0, ShellAssumption, DeafAssumption, InitAssumption
    DEF IInv, Ordered, NotYetRead, MarkerIsWritten, TameInv, OneSubshell
<1>1. CASE SshdForks
  BY <1>1 DEF SshdForks, Fork, onStop, Procs, RemoteTypeOK, Descended, Closed
<1>2. CASE OpenMarker
  BY <1>2 DEF OpenMarker, onStop, Tame, Descended, Closed, Children
<1>3. CASE WriteMarker
  BY <1>3 DEF WriteMarker, onStop, Tame, Descended, Closed, Children
<1>4. CASE StartCommand
  <2>1. /\ list = {} /\ shell = "forking" /\ shell' = "waiting" /\ Shell \in alive
        /\ Fork(Shell, Sub) /\ Sub \notin born
        /\ UNCHANGED <<marker, stop, found, list, answer>>
    BY <1>4 DEF StartCommand, MayStart, Tame, onStop
  <2>2. Descended'
    BY <2>1, ForkDescends DEF RemoteTypeOK, Procs
  <2> QED
    BY <2>1, <2>2 DEF Fork, RemoteTypeOK, Procs
<1>5. CASE CommandEnded
  BY <1>5 DEF CommandEnded, onStop, Descended, Closed, Children
<1>6. CASE RemoveMarker
  <2>1. list = {} => alive \subseteq {Shell}
    BY <1>6, AloneWithoutSub DEF RemoveMarker
  <2> QED
    BY <1>6, <2>1 DEF RemoveMarker, onStop, Descended, Closed, Children
<1>7. CASE ShellExits
  BY <1>7 DEF ShellExits, Die, onStop, Descended, RemoteTypeOK
<1>8. ASSUME NEW p \in Procs, NEW q \in Jobs, JobForks(p, q)
      PROVE  Goal
  <2>1. /\ p \in alive \ {Shell} /\ q \notin born /\ list = {} /\ Fork(p, q)
        /\ UNCHANGED <<shell, marker, stop, found, list, answer>>
    BY <1>8 DEF JobForks, MayStart, Tame, onStop
  <2>2. Descended'
    BY <2>1, ForkDescends DEF RemoteTypeOK, Procs
  <2> QED
    BY <2>1, <2>2 DEF Fork, RemoteTypeOK, Procs
<1>9. ASSUME NEW p \in Procs, ProcessExits(p)
      PROVE  Goal
  <2>1. /\ p \in alive \ {Shell} /\ Children(p) = {} /\ Die({p})
        /\ UNCHANGED <<shell, born, marker, stop, found, list, answer>>
    BY <1>9 DEF ProcessExits, Tame, onStop
  <2>2. list = {} => Descended'
    BY <2>1, ExitDescends
  <2> QED
    BY <2>1, <2>2 DEF Die, RemoteTypeOK, Procs
<1>10. CASE CutShort
  BY <1>10 DEF CutShort, onHost, Descended, Closed, Children
<1>11. CASE StopRefused
  BY <1>11 DEF StopRefused, onHost, Descended, Closed, Children
<1>12. CASE StopLimit
  BY <1>12 DEF StopLimit, onHost, Descended, Closed, Children
<1>13. CASE ScriptStarts
  BY <1>13 DEF ScriptStarts, onHost, Descended, Closed, Children
<1>14. CASE ReadMarker
  <2>1. /\ stop = "reading" /\ list = {} /\ shell \notin {"starting", "opened"}
        /\ answer # "stopped"
    BY <1>14 DEF ReadMarker, Tame
  <2>2. marker = "none" => alive \subseteq {Shell} /\ shell \in {"unforked", "leaving", "gone"}
    BY <2>1 DEF RemoteTypeOK
  <2> QED
    BY <1>14, <2>1, <2>2 DEF ReadMarker, Finish, onHost, Descended, Closed, Children
<1>15. CASE RemoveFirst
  BY <1>15 DEF RemoveFirst, onHost, Descended, Closed, Children
<1>16. CASE ListTree
  <2>1. alive \subseteq Tree /\ Shell \in Tree
    <3>1. Tree = {q \in alive \cup {Shell} :
                      \A S \in SUBSET Procs : Closed(S) => q \in S}
      BY DEF Tree, Tame
    <3>2. Descended
      BY <1>16 DEF ListTree
    <3> QED BY <3>1, <3>2 DEF Descended, Closed
  <2> QED
    BY <1>16, <2>1 DEF ListTree, onHost
<1>17. CASE Term
  BY <1>17 DEF Term, Die, RemoteTypeOK, Listed
<1>18. CASE Kill
  BY <1>18 DEF Kill, Die, Finish, RemoteTypeOK, Listed
<1>19. CASE UNCHANGED vars
  BY <1>19 DEF vars, Descended, Closed, Children
<1> QED
  BY <1>1, <1>2, <1>3, <1>4, <1>5, <1>6, <1>7, <1>8, <1>9, <1>10, <1>11, <1>12,
     <1>13, <1>14, <1>15, <1>16, <1>17, <1>18, <1>19 DEF Next, Wrapper, Stop

THEOREM TameOrderHolds == Spec => []TIInv
<1>1. IInv /\ TIInv /\ [Next]_vars => TIInv'
  BY TameStepHolds
<1> QED
  BY TameInitHolds, OrderHolds, <1>1, PTL DEF Spec

\* A stop that is reported as done leaves nothing of a tame command running,
\* however deep its tree is and whichever of its processes ignore SIGTERM, where
\* no connection is faster than the wrapper's first statement.
THEOREM TameIsStopped == Spec => []TameCommandIsStopped
<1>1. TIInv => TameCommandIsStopped
  BY DEF TIInv, Tame, TameInv, TameCommandIsStopped
<1> QED
  BY TameOrderHolds, <1>1, PTL
=============================================================================

----------------------------- MODULE Interrupt -----------------------------
(***************************************************************************)
(* src/interrupt.rs: the Children record every Host's task and the        *)
(* interrupt task share under one lock, and the escalation that follows    *)
(* the first interrupt.  A module of operators: Run composes them with the *)
(* Hosts' own steps.                                                       *)
(*                                                                         *)
(* A pid is <<h, s>>, the ssh child of step s of Host h.  The code's pids  *)
(* are numbers the kernel may give again once a child is reaped; here no   *)
(* two children share one.                                                 *)
(***************************************************************************)
EXTENDS Integers, FiniteSets

CONSTANT Hosts

ASSUME HostsAssumption == IsFiniteSet(Hosts) /\ Hosts # {}

\* The ssh children a Host's run may start, one after the other: a script is
\* copied and then run, a command is only run.
Steps == {"copy", "run"}
NoPid == "none"

VARIABLES
    stopped,    \* Children.stopped
    running,    \* Children.running: the step whose ssh a Host has registered
    killed,     \* Children.killed
    esc,        \* where the task that owns the escalation is
    targets     \* the pids it holds to signal, taken under the lock

interruptVars == <<stopped, running, killed, esc, targets>>

EscStates == {"idle", "terming", "grace", "killing", "over"}

InterruptTypeOK ==
    /\ stopped \in BOOLEAN
    /\ running \in [Hosts -> Steps \cup {NoPid}]
    /\ killed \subseteq Hosts
    /\ esc \in EscStates
    /\ targets \subseteq Hosts \X Steps

InterruptInit ==
    /\ stopped = FALSE
    /\ running = [h \in Hosts |-> NoPid]
    /\ killed = {}
    /\ esc = "idle"
    /\ targets = {}

RunningHosts == {h \in Hosts : running[h] # NoPid}
Snapshot == {<<h, running[h]>> : h \in RunningHosts}

-----------------------------------------------------------------------------
\* A slip: a child that starts during the stop is registered and left alone.
RegisterUnmarked(h, s) ==
    /\ running' = [running EXCEPT ![h] = s]
    /\ UNCHANGED <<stopped, killed, esc, targets>>

\* `register`.  Its answer is ~stopped, read under the same lock.
Register(h, s) ==
    /\ running' = [running EXCEPT ![h] = s]
    /\ killed' = IF stopped THEN killed \cup {h} ELSE killed
    /\ UNCHANGED <<stopped, esc, targets>>

\* `deregister`.
Deregister(h) ==
    /\ running' = [running EXCEPT ![h] = NoPid]
    /\ UNCHANGED <<stopped, killed, esc, targets>>

\* A slip: the Hosts in flight are not marked as killed.
BeginUnmarked ==
    /\ ~stopped
    /\ stopped' = TRUE
    /\ targets' = Snapshot
    /\ esc' = "terming"
    /\ UNCHANGED <<running, killed>>

\* `begin`, of the Ctrl-C task (`stop`) or of `trigger`: one step under the
\* lock.  A run that is already stopping is left to its first interrupt.
Begin ==
    /\ ~stopped
    /\ stopped' = TRUE
    /\ killed' = killed \cup RunningHosts
    /\ targets' = Snapshot
    /\ esc' = "terming"
    /\ UNCHANGED running

\* The signal of one pid taken by `begin` or by `escalate` is out.
TargetSignalled(p) ==
    /\ p \in targets
    /\ targets' = targets \ {p}
    /\ UNCHANGED <<stopped, running, killed, esc>>

\* Every SIGTERM is out: `escalate` starts its grace period.
EscalateBegins ==
    /\ esc = "terming"
    /\ targets = {}
    /\ esc' = "grace"
    /\ UNCHANGED <<stopped, running, killed, targets>>

\* A slip: the survivors are not collected.
GraceEndsForNobody ==
    /\ esc = "grace"
    /\ targets' = {}
    /\ esc' = "killing"
    /\ UNCHANGED <<stopped, running, killed>>

\* The grace period is over, or a second Ctrl-C cuts it short: the survivors
\* are collected under the lock.
GraceEnds ==
    /\ esc = "grace"
    /\ targets' = Snapshot
    /\ esc' = "killing"
    /\ UNCHANGED <<stopped, running, killed>>

\* `all_gone`: nothing is in flight, so there is nothing to escalate.
AllGone ==
    /\ esc = "grace"
    /\ RunningHosts = {}
    /\ esc' = "over"
    /\ UNCHANGED <<stopped, running, killed, targets>>

\* Every SIGKILL is out.
EscalateReturns ==
    /\ esc = "killing"
    /\ targets = {}
    /\ esc' = "over"
    /\ UNCHANGED <<stopped, running, killed, targets>>
=============================================================================

----------------------------- MODULE RunReport -----------------------------
(***************************************************************************)
(* What a run promises its user, whatever its ssh children do: the         *)
(* contract of README.md ("Statuses and causes", "Exit codes", "Timeouts   *)
(* and interrupts") as far as the code keeps it.  Each Host is started at  *)
(* most once and reported at most once, a report is final, a Host is left  *)
(* out of the report only by an interrupt, `cancelled` is the interrupt's  *)
(* verdict, `timeout` a limit's and `running` a detached launch's, and the *)
(* exit code is made of what was reported once every Host is accounted for. *)
(***************************************************************************)
EXTENDS Outcome

CONSTANTS
    Hosts,
    Limited,        \* is there a --timeout?
    Detached,       \* run --detach
    ForeignSignal   \* may a signal that is not rshx's kill an ssh?

VARIABLES
    phase,          \* of each Host
    verdict,        \* its reported status
    interrupted,
    exitCode

vars == <<phase, verdict, interrupted, exitCode>>

NotExited == -1
NoVerdict == "none"

Init ==
    /\ phase = [h \in Hosts |-> "waiting"]
    /\ verdict = [h \in Hosts |-> NoVerdict]
    /\ interrupted = FALSE
    /\ exitCode = NotExited

\* A Host starts only while nobody has interrupted the run.
Start(h) ==
    /\ phase[h] = "waiting"
    /\ ~interrupted
    /\ phase' = [phase EXCEPT ![h] = "inflight"]
    /\ UNCHANGED <<verdict, interrupted, exitCode>>

LeaveOut(h) ==
    /\ phase[h] = "waiting"
    /\ interrupted
    /\ phase' = [phase EXCEPT ![h] = "leftOut"]
    /\ UNCHANGED <<verdict, interrupted, exitCode>>

\* The verdicts a Host may be given now.
Verdicts ==
    {"ok", "failed", "unreachable"}
    \cup (IF interrupted \/ ForeignSignal THEN {"cancelled"} ELSE {})
    \cup (IF Limited THEN {"timeout"} ELSE {})
    \cup (IF Detached THEN {"running"} ELSE {})

Report(h) ==
    /\ phase[h] = "inflight"
    /\ phase' = [phase EXCEPT ![h] = "reported"]
    /\ \E v \in Verdicts \ (IF Detached THEN {"ok"} ELSE {}) :
           verdict' = [verdict EXCEPT ![h] = v]
    /\ UNCHANGED <<interrupted, exitCode>>

Interrupt ==
    /\ ~interrupted
    /\ exitCode = NotExited
    /\ interrupted' = TRUE
    /\ UNCHANGED <<phase, verdict, exitCode>>

Finish ==
    /\ exitCode = NotExited
    /\ \A h \in Hosts : phase[h] \in {"reported", "leftOut"}
    /\ exitCode' =
           ExitCode({verdict[h] : h \in {g \in Hosts : phase[g] = "reported"}})
    /\ UNCHANGED <<phase, verdict, interrupted>>

Next ==
    \/ \E h \in Hosts : Start(h) \/ LeaveOut(h) \/ Report(h)
    \/ Interrupt
    \/ Finish

Spec == Init /\ [][Next]_vars
=============================================================================

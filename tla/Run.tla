-------------------------------- MODULE Run --------------------------------
(***************************************************************************)
(* One run over its Hosts: the fanout window of src/run.rs, one Host's ssh *)
(* from spawn to outcome (src/run/ssh.rs, and the two steps of a script in *)
(* src/run/script.rs), its limit (wait_bounded of src/interrupt.rs) and    *)
(* the interrupt that may stop all of it at any moment.                    *)
(*                                                                         *)
(* Who runs when.  Every Host's future is polled by the one main task, so  *)
(* Hosts interleave at their awaits only: `busy` names the Host the main   *)
(* task is in the middle of polling.  The interrupt task, the ssh children *)
(* and the stream readers run beside it and may step at any point.         *)
(***************************************************************************)
EXTENDS Outcome, Interrupt

CONSTANTS
    Nobody,         \* no Host is being polled
    Fanout,         \* --fanout
    Ends,           \* the ways an ssh left alone may end, but for signals
    Limited,        \* is there a --timeout?
    Scripted,       \* run --script: a copy, then the run
    Detached,       \* run --detach
    Stubborn,       \* the Hosts whose ssh outlives a SIGTERM
    Clinging,       \* the Hosts whose ssh leaves a helper holding its pipes
    ForeignSignal   \* may a signal that is not rshx's kill an ssh?

ASSUME RunAssumption ==
    /\ Nobody \notin Hosts
    /\ Fanout \in Nat \ {0}
    /\ Ends \subseteq (0..255) \cup {Unreadable}
    /\ {Limited, Scripted, Detached, ForeignSignal} \subseteq BOOLEAN
    /\ Stubborn \subseteq Hosts
    /\ Clinging \subseteq Hosts

\* The life of the ssh of a Host's current step.
NoChild == -4
Alive == -3
ChildStates == {NoChild, Alive, Unreadable, Signalled} \cup (0..255)

NotExited == -1

VARIABLES
    pc,             \* where each Host's future is
    busy,           \* the Host being polled, if the poll is not at an await
    step,           \* the ssh each Host is on
    child,          \* that ssh: not spawned, alive, or how it ended
    held,           \* does anything but the ssh itself hold its pipes open?
    sent,           \* the strongest signal rshx sent its group
    timedOut,       \* the limit of that step expired
    status,         \* what run_remote_command, then the Host, was given
    remoteStopped,  \* Outcome.remote_stopped
    exitCode

hostVars == <<pc, busy, step, child, held, sent, timedOut, status,
              remoteStopped, exitCode>>
vars == <<interruptVars, hostVars>>

PcStates ==
    {"pending",                 \* not taken from the stream yet
     "starting",                \* past is_stopped, about to spawn
     "spawned", "doomed",       \* before register; register answered false
     "waiting",                 \* wait_bounded, within the limit
     "terminating", "killing",  \* after the limit's SIGTERM, its SIGKILL
     "reaped", "draining",      \* before deregister; reading the streams out
     "stopping",                \* on the second connection, remote::stop
     "settled", "skipped"}      \* reported; not started

NoStatus == "none"

HostTypeOK ==
    /\ InterruptTypeOK
    /\ pc \in [Hosts -> PcStates]
    /\ step \in [Hosts -> Steps]
    /\ child \in [Hosts -> ChildStates]
    /\ held \in [Hosts -> BOOLEAN]
    /\ sent \in [Hosts -> {"none", "term", "kill"}]
    /\ timedOut \in [Hosts -> BOOLEAN]
    /\ status \in [Hosts -> Status \cup {NoStatus}]
    /\ remoteStopped \in [Hosts -> BOOLEAN]

ExitCodes ==
    {EXIT_OK, EXIT_FAILED, EXIT_UNREACHABLE, EXIT_FAILED + EXIT_UNREACHABLE,
     EXIT_INTERRUPTED}

TypeOK ==
    /\ HostTypeOK
    /\ busy \in Hosts \cup {Nobody}
    /\ exitCode \in {NotExited} \cup ExitCodes

FirstStep == IF Scripted THEN "copy" ELSE "run"

Init ==
    /\ InterruptInit
    /\ pc = [h \in Hosts |-> "pending"]
    /\ busy = Nobody
    /\ step = [h \in Hosts |-> FirstStep]
    /\ child = [h \in Hosts |-> NoChild]
    /\ held = [h \in Hosts |-> FALSE]
    /\ sent = [h \in Hosts |-> "none"]
    /\ timedOut = [h \in Hosts |-> FALSE]
    /\ status = [h \in Hosts |-> NoStatus]
    /\ remoteStopped = [h \in Hosts |-> FALSE]
    /\ exitCode = NotExited

-----------------------------------------------------------------------------
(* Helpers *)

Exited == exitCode # NotExited
InFlight == {h \in Hosts : pc[h] \notin {"pending", "settled", "skipped"}}

Goto(h, to) == pc' = [pc EXCEPT ![h] = to]

\* killpg on the group of the ssh <<h, s>>.  A group whose leader is reaped
\* still has its helper; one with neither is gone, and killpg fails harmlessly.
\* SIGKILL leaves no helper behind; the leader's death is a step of its own.
Signal(h, s, sig) ==
    LET reaches == step[h] = s /\ child[h] = Alive
    IN  /\ sent' = IF reaches /\ sent[h] # "kill"
                   THEN [sent EXCEPT ![h] = sig] ELSE sent
        /\ held' = IF step[h] = s /\ sig = "kill"
                   THEN [held EXCEPT ![h] = FALSE] ELSE held

\* The Host's outcome is yielded: reported at once, and its slot is free.
Settle(h, verdict) ==
    /\ Goto(h, "settled")
    /\ busy' = Nobody
    /\ status' = [status EXCEPT ![h] = verdict]

-----------------------------------------------------------------------------
(* A Host's future *)

\* A slip: a slot is taken before the one it replaces is free.
HasSlotOffByOne == Cardinality(InFlight) <= Fanout

HasSlot == Cardinality(InFlight) < Fanout

\* A slip: a Host waiting for a slot starts whatever happened meanwhile.
DispatchUnchecked(h) ==
    /\ busy = Nobody
    /\ pc[h] = "pending"
    /\ HasSlot
    /\ Goto(h, "starting")
    /\ busy' = h
    /\ UNCHANGED <<step, child, held, sent, timedOut, status, remoteStopped,
                   exitCode, interruptVars>>

\* A slot is free: the next Host is polled for the first time, and is_stopped
\* decides whether it starts at all.
Dispatch(h) ==
    /\ busy = Nobody
    /\ pc[h] = "pending"
    /\ HasSlot
    /\ \/ /\ stopped
          /\ Goto(h, "skipped")
          /\ UNCHANGED busy
       \/ /\ ~stopped
          /\ Goto(h, "starting")
          /\ busy' = h
    /\ UNCHANGED <<step, child, held, sent, timedOut, status, remoteStopped,
                   exitCode, interruptVars>>

\* The ssh is spawned.
Spawn(h) ==
    /\ busy = h
    /\ pc[h] = "starting"
    /\ Goto(h, "spawned")
    /\ child' = [child EXCEPT ![h] = Alive]
    /\ held' = [held EXCEPT ![h] = h \in Clinging]
    /\ UNCHANGED <<busy, step, sent, timedOut, status, remoteStopped,
                   exitCode, interruptVars>>

\* The script cannot be opened again, or ssh cannot be spawned: a failure of
\* rshx's own, reported as `unreachable` (Outcome::local_failure).
SpawnFails(h) ==
    /\ busy = h
    /\ pc[h] = "starting"
    /\ Settle(h, "unreachable")
    /\ UNCHANGED <<step, child, held, sent, timedOut, remoteStopped,
                   exitCode, interruptVars>>

\* Its answer decides whether the child is left alone, up to the next await.
RegisterChild(h) ==
    /\ busy = h
    /\ pc[h] = "spawned"
    /\ Register(h, step[h])
    /\ \/ /\ stopped
          /\ Goto(h, "doomed")
          /\ UNCHANGED busy
       \/ /\ ~stopped
          /\ Goto(h, "waiting")
          /\ busy' = Nobody
    /\ UNCHANGED <<step, child, held, sent, timedOut, status, remoteStopped,
                   exitCode>>

\* A slip: the answer of `register` is not acted on.
SpareDoomed(h) ==
    /\ busy = h
    /\ pc[h] = "doomed"
    /\ Goto(h, "waiting")
    /\ busy' = Nobody
    /\ UNCHANGED <<step, child, held, sent, timedOut, status, remoteStopped,
                   exitCode, interruptVars>>

\* The run was interrupted while this ssh was starting.
SignalDoomed(h) ==
    /\ busy = h
    /\ pc[h] = "doomed"
    /\ Signal(h, step[h], "term")
    /\ Goto(h, "waiting")
    /\ busy' = Nobody
    /\ UNCHANGED <<step, child, timedOut, status, remoteStopped, exitCode,
                   interruptVars>>

\* The wait for the child returns, in wait_bounded or past its limit.
WaitReturns(h) ==
    /\ busy = Nobody
    /\ pc[h] \in {"waiting", "terminating", "killing"}
    /\ child[h] # Alive
    /\ Goto(h, "reaped")
    /\ busy' = h
    /\ UNCHANGED <<step, child, held, sent, timedOut, status, remoteStopped,
                   exitCode, interruptVars>>

\* The limit passes first, or at once with a child that has just ended: a step
\* of a script whose copy used the limit up never looks at its child.
LimitExpires(h) ==
    /\ busy = Nobody
    /\ pc[h] = "waiting"
    /\ Limited
    /\ Signal(h, step[h], "term")
    /\ timedOut' = [timedOut EXCEPT ![h] = TRUE]
    /\ Goto(h, "terminating")
    /\ UNCHANGED <<busy, step, child, status, remoteStopped, exitCode,
                   interruptVars>>

\* A slip: the limit's SIGTERM is never followed by a SIGKILL.
GraceExpiresMildly(h) ==
    /\ busy = Nobody
    /\ pc[h] = "terminating"
    /\ child[h] = Alive
    /\ Signal(h, step[h], "term")
    /\ Goto(h, "killing")
    /\ UNCHANGED <<busy, step, child, timedOut, status, remoteStopped,
                   exitCode, interruptVars>>

\* The child outlives the limit's own grace period.
GraceExpires(h) ==
    /\ busy = Nobody
    /\ pc[h] = "terminating"
    /\ child[h] = Alive
    /\ Signal(h, step[h], "kill")
    /\ Goto(h, "killing")
    /\ UNCHANGED <<busy, step, child, timedOut, status, remoteStopped,
                   exitCode, interruptVars>>

DeregisterChild(h) ==
    /\ busy = h
    /\ pc[h] = "reaped"
    /\ Deregister(h)
    /\ Goto(h, "draining")
    /\ busy' = Nobody
    /\ UNCHANGED <<step, child, held, sent, timedOut, status, remoteStopped,
                   exitCode>>

\* What the copy's outcome leads to: with a path, the run of the script starts
\* in the same poll; without one the script never ran on this Host.
CopyConcluded(h, verdict) ==
    \/ /\ verdict = "ok"
       /\ Goto(h, "starting")
       /\ busy' = h
       /\ step' = [step EXCEPT ![h] = "run"]
       /\ UNCHANGED status
    \/ /\ Settle(h, IF verdict = "ok" THEN "unreachable" ELSE verdict)
       /\ UNCHANGED step

RunConcluded(h, verdict) ==
    /\ \E printedPid \in BOOLEAN :
           Settle(h, IF Detached THEN Launched(verdict, printedPid) ELSE verdict)
    /\ UNCHANGED step

\* Whether rshx cut this Host short: `killed || timed_out`.
CutShort(h) == h \in killed \/ timedOut[h]

\* A slip: a Host rshx signalled is judged by its ssh's own exit.
VerdictByExit(h) == StatusOf(FALSE, timedOut[h], child[h])

\* The status, decided once both streams are read out.
Verdict(h) == StatusOf(h \in killed, timedOut[h], child[h])

\* Nothing holds the pipes any more, so both reads finish.  A Host rshx cut
\* short keeps its verdict and is asked to stop its own command; any other
\* outcome is handed up as it is.  What was known of the child is used up.
Drained(h) ==
    /\ busy = Nobody
    /\ pc[h] = "draining"
    /\ ~held[h]
    /\ \/ /\ CutShort(h)
          /\ status' = [status EXCEPT ![h] = Verdict(h)]
          /\ Goto(h, "stopping")
          /\ UNCHANGED <<busy, step>>
       \/ /\ ~CutShort(h)
          /\ step[h] = "copy"
          /\ CopyConcluded(h, Verdict(h))
       \/ /\ ~CutShort(h)
          /\ step[h] = "run"
          /\ RunConcluded(h, Verdict(h))
    /\ child' = [child EXCEPT ![h] = NoChild]
    /\ timedOut' = [timedOut EXCEPT ![h] = FALSE]
    /\ UNCHANGED <<held, sent, remoteStopped, exitCode, interruptVars>>

\* The second connection answers, fails, or runs into its own limit.  Its
\* answer never changes the status.
StopReturns(h) ==
    /\ busy = Nobody
    /\ pc[h] = "stopping"
    /\ \E ok \in BOOLEAN :
           remoteStopped' = [remoteStopped EXCEPT ![h] = ok]
    /\ Settle(h, status[h])
    /\ UNCHANGED <<step, child, held, sent, timedOut, exitCode,
                   interruptVars>>

-----------------------------------------------------------------------------
(* The ssh children, which run beside rshx *)

\* An ssh ends on its own: the command ended, the connection failed, or it was
\* killed by somebody else.
ChildExits(h) ==
    /\ child[h] = Alive
    /\ \E end \in Ends \cup (IF ForeignSignal THEN {Signalled} ELSE {}) :
           child' = [child EXCEPT ![h] = end]
    /\ UNCHANGED <<pc, busy, step, held, sent, timedOut, status,
                   remoteStopped, exitCode, interruptVars>>

\* An ssh ends of rshx's signal: by ssh's own handler, which exits 255, or by
\* the signal itself.
ChildDies(h) ==
    /\ child[h] = Alive
    /\ sent[h] # "none"
    /\ \E end \in {Signalled} \cup (IF sent[h] = "term"
                                    THEN {ConnectFailed} ELSE {}) :
           child' = [child EXCEPT ![h] = end]
    /\ UNCHANGED <<pc, busy, step, held, sent, timedOut, status,
                   remoteStopped, exitCode, interruptVars>>

\* A helper that outlived its ssh lets go of the pipes.
HelperExits(h) ==
    /\ held[h]
    /\ held' = [held EXCEPT ![h] = FALSE]
    /\ UNCHANGED <<pc, busy, step, child, sent, timedOut, status,
                   remoteStopped, exitCode, interruptVars>>

-----------------------------------------------------------------------------
(* The interrupt task *)

\* The first Ctrl-C.
CtrlC ==
    /\ ~Exited
    /\ Begin
    /\ UNCHANGED hostVars

\* What the escalation is sending: SIGTERM first, SIGKILL to the survivors.
SignalOf == IF esc = "terming" THEN "term" ELSE "kill"

SignalTarget(h, s) ==
    /\ ~Exited
    /\ TargetSignalled(<<h, s>>)
    /\ Signal(h, s, SignalOf)
    /\ UNCHANGED <<pc, busy, step, child, timedOut, status, remoteStopped,
                   exitCode>>

Escalate ==
    /\ ~Exited
    /\ EscalateBegins \/ GraceEnds \/ AllGone \/ EscalateReturns
    /\ UNCHANGED hostVars

-----------------------------------------------------------------------------
(* The end of the run *)

Reported == {status[h] : h \in {g \in Hosts : pc[g] = "settled"}}

\* The stream has no Host left: execute_on_hosts returns the exit code, and
\* the process takes every task it still has with it.
Exit ==
    /\ ~Exited
    /\ busy = Nobody
    /\ \A h \in Hosts : pc[h] \in {"settled", "skipped"}
    /\ exitCode' = ExitCode(Reported)
    /\ UNCHANGED <<pc, busy, step, child, held, sent, timedOut, status,
                   remoteStopped, interruptVars>>

Done == Exited /\ UNCHANGED vars

-----------------------------------------------------------------------------
MidPoll(h) ==
    \/ Spawn(h) \/ SpawnFails(h)
    \/ RegisterChild(h)
    \/ SignalDoomed(h)
    \/ DeregisterChild(h)

AtAwait(h) ==
    \/ Dispatch(h)
    \/ WaitReturns(h)
    \/ LimitExpires(h)
    \/ GraceExpires(h)
    \/ Drained(h)
    \/ StopReturns(h)

Ssh(h) == ChildExits(h) \/ ChildDies(h) \/ HelperExits(h)

InterruptTask ==
    \/ CtrlC
    \/ \E h \in Hosts, s \in Steps : SignalTarget(h, s)
    \/ Escalate

Next ==
    \/ \E h \in Hosts : MidPoll(h) \/ AtAwait(h) \/ Ssh(h)
    \/ InterruptTask
    \/ Exit
    \/ Done

Spec == Init /\ [][Next]_vars

(***************************************************************************)
(* Fairness.  tokio polls a ready future again and its timers fire, so a   *)
(* Host's future that can step does, and so does the interrupt task; the   *)
(* stop connection is bounded by STOP_LIMIT and the grace periods by GRACE; *)
(* the kernel delivers a signal.  An ssh dies of SIGKILL, and of SIGTERM    *)
(* unless it is stubborn.  Nothing obliges an ssh to end on its own, a      *)
(* helper to let go, or the user to press Ctrl-C.                           *)
(***************************************************************************)
HostFairness(h) == WF_vars(MidPoll(h) \/ AtAwait(h))

SshFairness(h) ==
    WF_vars(ChildDies(h) /\ (sent[h] = "kill" \/ h \notin Stubborn))

EscalationFairness ==
    WF_vars(Escalate \/ \E h \in Hosts, s \in Steps : SignalTarget(h, s))

Fairness ==
    /\ \A h \in Hosts : HostFairness(h) /\ SshFairness(h)
    /\ EscalationFairness
    /\ WF_vars(Exit)

FairSpec == Spec /\ Fairness

-----------------------------------------------------------------------------
(* Safety *)

\* "So no Host can slip in between and be missed": once the run is stopping,
\* every ssh in flight is one rshx has recorded as killed, whichever side of
\* the interrupt it was registered on.
NoHostSlipsThrough == stopped => RunningHosts \subseteq killed

\* Once the escalation has sent its SIGTERMs, every ssh that is being waited
\* for has been signalled, by the escalation or by its own Host: one that was
\* starting meanwhile is not left to run.
NoneMissed ==
    esc \in {"grace", "killing", "over"} =>
        \A h \in Hosts :
            pc[h] \in {"waiting", "terminating", "killing"} /\ child[h] = Alive
                => sent[h] # "none"

\* A Host whose ssh rshx signalled is never reported as one whose command or
\* connection ended by itself, although ssh exits 255 on SIGTERM and may exit 0
\* just before it: only `cancelled` and `timeout` are left for it.
SignalledIsCutShort ==
    \A h \in Hosts :
        sent[h] # "none" => status[h] \in {NoStatus, "cancelled", "timeout"}

\* A run that killed any Host exits 99: the kill cannot be lost between the
\* interrupt task that recorded it and the outcome the main task makes.
KilledRunExits99 == Exited /\ killed # {} => exitCode = EXIT_INTERRUPTED

\* At most Fanout ssh connections are open: children not reaped yet and stop
\* connections alike, so a Host being stopped keeps its slot, and no ssh of a
\* Host that has been reported is left behind.
Connections ==
    {h \in Hosts : child[h] = Alive \/ pc[h] = "stopping"}
SshBound == Cardinality(Connections) <= Fanout

\* 99 is the exit code of a run somebody interrupted (src/README.md:562): not of
\* one whose ssh was killed by a signal from elsewhere, which says so only as
\* long as there is none.
NinetyNineMeansInterrupted == exitCode = EXIT_INTERRUPTED => stopped

(* An action property *)

\* The script is never run on a Host whose copy rshx has signalled.
NoRunAfterACutCopy ==
    [][\A h \in Hosts : step'[h] # step[h] =>
           sent[h] = "none" /\ h \notin killed]_vars

(* Liveness *)

\* An ssh that is in flight while the escalation is still to come is gone in
\* the end, however stubborn it is.
EscalationKills ==
    \A h \in Hosts :
        (esc \in {"terming", "grace"} /\ running[h] # NoPid) ~>
            running[h] = NoPid

\* With a limit, no ssh however wedged or stubborn holds the run open.
LimitedRunExits == <>Exited

\* Ctrl-C ends the run, limit or no limit, unless a stubborn ssh was still
\* starting when the escalation collected the ones it kills; under --privilege
\* too, whoever was at the prompt, if the user answers it.
InterruptedRunExits ==
    stopped ~> \/ Exited
               \/ \E h \in Stubborn : child[h] = Alive /\ esc = "over"

-----------------------------------------------------------------------------
(***************************************************************************)
(* The inductive invariant.  The safety properties above are about a Host  *)
(* that is registered, killed or signalled; what keeps them is how those   *)
(* records follow the Host's own progress.                                 *)
(***************************************************************************)
MidPollStates == {"starting", "spawned", "doomed", "reaped"}
WaitStates == {"waiting", "terminating", "killing"}
RegisteredStates == WaitStates \cup {"doomed", "reaped"}
EndStates == {"settled", "skipped"}

\* The main task is in the middle of at most one Host.
OneHostIsPolled ==
    \A h \in Hosts : busy = h <=> pc[h] \in MidPollStates

\* A Host is registered, with the ssh it is on, from register to deregister.
RegisteredWhileWaiting ==
    \A h \in Hosts :
        running[h] = IF pc[h] \in RegisteredStates THEN step[h] ELSE NoPid

AliveUntilReaped ==
    \A h \in Hosts :
        child[h] = Alive => pc[h] \in WaitStates \cup {"spawned", "doomed"}

\* The escalation belongs to an interrupt, and signals only the Hosts whose
\* kill is on record.
EscalationIsAKill ==
    /\ esc # "idle" \/ killed # {} => stopped
    /\ \A p \in targets : p[1] \in killed

DoomedIsKilled == \A h \in Hosts : pc[h] = "doomed" => h \in killed

StatusIsLate ==
    \A h \in Hosts :
        status[h] # NoStatus <=> pc[h] \in {"stopping", "settled"}

\* From its kill to its outcome a Host has nowhere to go but `cancelled`.
KilledIsCancelled ==
    \A h \in Hosts : h \in killed =>
        \/ pc[h] \in RegisteredStates \cup {"draining"}
        \/ pc[h] \in {"stopping", "settled"} /\ status[h] = "cancelled"

TimedOutIsLate ==
    \A h \in Hosts :
        /\ timedOut[h] => pc[h] \in {"terminating", "killing", "reaped",
                                     "draining"}
        /\ pc[h] \in {"terminating", "killing"} => timedOut[h]

\* No signal without a reason on record.
SignalHasAReason ==
    \A h \in Hosts : sent[h] # "none" =>
        h \in killed \/ timedOut[h] \/ status[h] \in {"cancelled", "timeout"}

\* A stopping run has signalled every ssh it waits for, or has its pid in hand
\* while it is sending its SIGTERMs.
SignalledOrTargeted ==
    stopped => \A h \in Hosts :
        pc[h] \in WaitStates /\ child[h] = Alive =>
            \/ sent[h] # "none"
            \/ esc = "terming" /\ <<h, step[h]>> \in targets

\* The run ends after its Hosts.
ExitIsTheEnd == Exited => \A h \in Hosts : pc[h] \in EndStates

\* What keeps the Hosts' records and the interrupt's together, whoever else the
\* main task has to see to and whatever the run exits with.
HostsInv ==
    /\ OneHostIsPolled
    /\ RegisteredWhileWaiting
    /\ AliveUntilReaped
    /\ EscalationIsAKill
    /\ DoomedIsKilled
    /\ NoHostSlipsThrough
    /\ StatusIsLate
    /\ KilledIsCancelled
    /\ TimedOutIsLate
    /\ SignalHasAReason
    /\ SignalledOrTargeted
    /\ ExitIsTheEnd

\* The exit code stays that of the outcomes that were reported.
ExitCodeIsReported == Exited => exitCode = ExitCode(Reported)

Inv == HostsInv /\ ExitCodeIsReported

-----------------------------------------------------------------------------
(* Refinement *)

\* A Host that has a verdict but is still on its stop connection is in flight:
\* the report has not seen it.
Phase(h) ==
    CASE pc[h] = "pending" -> "waiting"
      [] pc[h] = "skipped" -> "leftOut"
      [] pc[h] = "settled" -> "reported"
      [] OTHER -> "inflight"

Contract == INSTANCE RunReport WITH
    phase <- [h \in Hosts |-> Phase(h)],
    verdict <- [h \in Hosts |->
                   IF pc[h] = "settled" THEN status[h] ELSE NoStatus],
    interrupted <- stopped

\* The run keeps the contract of RunReport: all its interleavings, kills and
\* stop connections come to one start, one report and one exit code.
ImplementsRunReport == Contract!Spec

(* What the code's comments and the README say, and the code does not do *)

\* src/interrupt.rs:3-4: the first interrupt "SIGTERMs the ssh children in
\* flight, then SIGKILLs them after a grace period".
InterruptKills ==
    \A h \in Hosts : (stopped /\ child[h] = Alive) ~> child[h] # Alive

\* src/lib.rs:18: exit code 0 is "Every Host was `ok`" (or `running`).
ZeroMeansEveryHost ==
    exitCode = EXIT_OK =>
        \A h \in Hosts : status[h] \in {"ok", "running"}
=============================================================================

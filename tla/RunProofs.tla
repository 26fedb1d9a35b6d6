----------------------------- MODULE RunProofs -----------------------------
(***************************************************************************)
(* Theorems about Run, for every set of Hosts, every fanout and every      *)
(* combination of options.  Types first; then one inductive invariant that *)
(* says where a Host may be while it is registered, killed, timed out or   *)
(* signalled; the safety properties of Run follow from it, and that Run    *)
(* keeps the contract of RunReport.                                        *)
(***************************************************************************)
EXTENDS Run, FiniteSetTheorems, TLAPS

LEMMA StatusOfType ==
    ASSUME NEW k, NEW t, NEW e
    PROVE  StatusOf(k, t, e) \in Status
BY DEF StatusOf, from_exit_code, Status, Signalled, Unreadable, ConnectFailed

LEMMA LaunchedType ==
    ASSUME NEW s \in Status, NEW p \in BOOLEAN
    PROVE  Launched(s, p) \in Status
BY DEF Launched, Status

LEMMA ExitCodeType ==
    ASSUME NEW S
    PROVE  ExitCode(S) \in ExitCodes
BY DEF ExitCode, ExitCodes, EXIT_OK, EXIT_FAILED, EXIT_UNREACHABLE,
       EXIT_INTERRUPTED

LEMMA SignalType ==
    ASSUME HostTypeOK, NEW h \in Hosts, NEW s \in Steps,
           NEW sig \in {"term", "kill"}, Signal(h, s, sig)
    PROVE  /\ sent' \in [Hosts -> {"none", "term", "kill"}]
           /\ held' \in [Hosts -> BOOLEAN]
BY DEF Signal, HostTypeOK

LEMMA InitType == Init => HostTypeOK
<1> SUFFICES ASSUME Init PROVE HostTypeOK
    OBVIOUS
<1>1. InterruptTypeOK
    BY DEF Init, InterruptInit, InterruptTypeOK, EscStates
<1>2. step \in [Hosts -> Steps]
    BY DEF Init, FirstStep, Steps
<1> QED BY <1>1, <1>2 DEF Init, HostTypeOK, PcStates, ChildStates

\* A step of a Host's future or of its ssh is typed, and leaves the main task
\* with that Host, with nobody, or where it was.
LEMMA HostStepType ==
    ASSUME HostTypeOK, NEW h \in Hosts, MidPoll(h) \/ AtAwait(h) \/ Ssh(h)
    PROVE  /\ HostTypeOK'
           /\ busy' \in {h, Nobody, busy}
           /\ UNCHANGED exitCode
<1> DEFINE Goal == /\ HostTypeOK'
                   /\ busy' \in {h, Nobody, busy}
                   /\ UNCHANGED exitCode
<1> USE DEF HostTypeOK, InterruptTypeOK
<1>1. ASSUME MidPoll(h) PROVE Goal
  <2>1. CASE Spawn(h)
      BY <2>1 DEF Spawn, Goto, interruptVars, PcStates, ChildStates
  <2>2. CASE SpawnFails(h)
      BY <2>2 DEF SpawnFails, Settle, Goto, interruptVars, PcStates, Status
  <2>3. CASE RegisterChild(h)
      BY <2>3 DEF RegisterChild, Register, Goto, interruptVars, PcStates
  <2>4. CASE SignalDoomed(h)
      BY <2>4, SignalType
      DEF SignalDoomed, Goto, interruptVars, PcStates
  <2>5. CASE DeregisterChild(h)
      BY <2>5 DEF DeregisterChild, Deregister, Goto, interruptVars, PcStates
  <2> QED BY <1>1, <2>1, <2>2, <2>3, <2>4, <2>5 DEF MidPoll
<1>2. ASSUME AtAwait(h) PROVE Goal
  <2>1. CASE Dispatch(h)
      BY <2>1 DEF Dispatch, Goto, interruptVars, PcStates
  <2>2. CASE WaitReturns(h)
      BY <2>2 DEF WaitReturns, Goto, interruptVars, PcStates
  <2>3. CASE LimitExpires(h)
      BY <2>3, SignalType
      DEF LimitExpires, Goto, interruptVars, PcStates
  <2>4. CASE GraceExpires(h)
      BY <2>4, SignalType
      DEF GraceExpires, Goto, interruptVars, PcStates
  <2>5. CASE Drained(h)
    <3>1. Verdict(h) \in Status
        BY StatusOfType DEF Verdict
    <3>2. \A p \in BOOLEAN : Launched(Verdict(h), p) \in Status
        BY <3>1, LaunchedType
    <3>3. /\ step' \in [Hosts -> Steps]
          /\ pc' \in [Hosts -> PcStates]
          /\ status' \in [Hosts -> Status \cup {NoStatus}]
          /\ busy' \in {h, Nobody, busy}
        BY <2>5, <3>1, <3>2
        DEF Drained, CopyConcluded, RunConcluded, Settle, Goto, PcStates,
            Steps, Status
    <3> QED BY <2>5, <3>3 DEF Drained, interruptVars, ChildStates
  <2>6. CASE StopReturns(h)
      BY <2>6 DEF StopReturns, Settle, Goto, interruptVars, PcStates
  <2> QED BY <1>2, <2>1, <2>2, <2>3, <2>4, <2>5, <2>6 DEF AtAwait
<1>3. ASSUME Ssh(h) PROVE Goal
  <2>1. CASE ChildExits(h)
    <3>1. Ends \cup {Signalled} \subseteq ChildStates
        BY RunAssumption DEF ChildStates
    <3>2. child' \in [Hosts -> ChildStates]
        BY <2>1, <3>1 DEF ChildExits
    <3> QED BY <2>1, <3>2 DEF ChildExits, interruptVars
  <2>2. CASE ChildDies(h)
      BY <2>2
      DEF ChildDies, interruptVars, ChildStates, ConnectFailed
  <2>3. CASE HelperExits(h)
      BY <2>3 DEF HelperExits, interruptVars
  <2> QED BY <1>3, <2>1, <2>2, <2>3 DEF Ssh
<1> QED BY <1>1, <1>2, <1>3

LEMMA BeginType ==
    ASSUME InterruptTypeOK, Begin
    PROVE  InterruptTypeOK'
BY DEF Begin, Snapshot, RunningHosts, InterruptTypeOK, EscStates, NoPid

LEMMA InterruptStepType ==
    ASSUME HostTypeOK, InterruptTask
    PROVE  /\ HostTypeOK'
           /\ UNCHANGED <<busy, exitCode>>
<1> USE DEF HostTypeOK
<1>1. CASE CtrlC
    BY <1>1, BeginType DEF CtrlC, hostVars
<1>2. ASSUME NEW h \in Hosts, NEW s \in Steps, SignalTarget(h, s)
      PROVE  /\ HostTypeOK'
             /\ UNCHANGED <<busy, exitCode>>
    BY <1>2, SignalType
    DEF SignalTarget, TargetSignalled, SignalOf, InterruptTypeOK
<1>3. CASE Escalate
  <2>1. Snapshot \subseteq Hosts \X Steps
      BY DEF Snapshot, RunningHosts, NoPid, InterruptTypeOK
  <2> QED BY <1>3, <2>1
          DEF Escalate, EscalateBegins, GraceEnds, AllGone, EscalateReturns,
              hostVars, EscStates, InterruptTypeOK
<1> QED BY <1>1, <1>2, <1>3 DEF InterruptTask

\* Every variable keeps to its values, at every fanout, on every set of Hosts.
THEOREM TypeCorrect == Spec => []TypeOK
<1>1. Init => TypeOK
    BY InitType DEF TypeOK, Init
<1>2. TypeOK /\ [Next]_vars => TypeOK'
  <2> SUFFICES ASSUME TypeOK, [Next]_vars PROVE TypeOK'
      OBVIOUS
  <2> USE DEF TypeOK
  <2>1. ASSUME NEW h \in Hosts, MidPoll(h) \/ AtAwait(h) \/ Ssh(h)
        PROVE  TypeOK'
      BY <2>1, HostStepType
  <2>2. CASE InterruptTask
      BY <2>2, InterruptStepType
  <2>3. CASE Exit
      BY <2>3, ExitCodeType
      DEF Exit, interruptVars, HostTypeOK, InterruptTypeOK
  <2>4. CASE Done \/ UNCHANGED vars
      BY <2>4
      DEF Done, vars, hostVars, interruptVars, HostTypeOK, InterruptTypeOK
  <2> QED BY <2>1, <2>2, <2>3, <2>4 DEF Next
<1> QED BY <1>1, <1>2, PTL DEF Spec

-----------------------------------------------------------------------------
(* The inductive invariant, action by action *)

LEMMA InitInv == Init => HostsInv
<1> SUFFICES ASSUME Init PROVE HostsInv
    OBVIOUS
<1> USE DEF Init, InterruptInit
<1>1. OneHostIsPolled
    BY RunAssumption DEF OneHostIsPolled, MidPollStates
<1>2. RegisteredWhileWaiting
    BY DEF RegisteredWhileWaiting, RegisteredStates, WaitStates
<1>3. AliveUntilReaped
    BY DEF AliveUntilReaped, NoChild, Alive
<1>4. /\ EscalationIsAKill
      /\ DoomedIsKilled
      /\ NoHostSlipsThrough
      /\ StatusIsLate
      /\ KilledIsCancelled
      /\ TimedOutIsLate
      /\ SignalHasAReason
      /\ SignalledOrTargeted
    BY DEF EscalationIsAKill, DoomedIsKilled, NoHostSlipsThrough, StatusIsLate,
        KilledIsCancelled, TimedOutIsLate, SignalHasAReason, SignalledOrTargeted
<1>5. ExitIsTheEnd
    BY DEF ExitIsTheEnd, Exited, NotExited
<1> QED BY <1>1, <1>2, <1>3, <1>4, <1>5 DEF HostsInv

USE DEF TypeOK, HostTypeOK, InterruptTypeOK, interruptVars,
        MidPollStates, WaitStates, RegisteredStates, EndStates

\* A Host leaves the stream: only its own place and the poll change.
LEMMA DispatchKeepsInv ==
    ASSUME HostTypeOK, HostsInv, NEW h \in Hosts, Dispatch(h)
    PROVE  HostsInv'
<1> USE DEF Dispatch, Goto
<1>1. OneHostIsPolled'
    BY RunAssumption DEF HostsInv, OneHostIsPolled
<1>2. RegisteredWhileWaiting'
    BY DEF HostsInv, RegisteredWhileWaiting
<1>3. AliveUntilReaped'
    BY DEF HostsInv, AliveUntilReaped
<1>4. DoomedIsKilled'
    BY DEF HostsInv, DoomedIsKilled
<1>5. StatusIsLate'
    BY DEF HostsInv, StatusIsLate
<1>6. KilledIsCancelled'
    BY DEF HostsInv, KilledIsCancelled
<1>7. TimedOutIsLate'
    BY DEF HostsInv, TimedOutIsLate
<1>8. SignalledOrTargeted'
    BY DEF HostsInv, SignalledOrTargeted
<1>9. ExitIsTheEnd'
    BY DEF HostsInv, ExitIsTheEnd, Exited
<1>10. /\ EscalationIsAKill'
      /\ NoHostSlipsThrough'
      /\ SignalHasAReason'
    BY DEF HostsInv, EscalationIsAKill, NoHostSlipsThrough, SignalHasAReason,
        RunningHosts
<1> QED BY <1>1, <1>2, <1>3, <1>4, <1>5, <1>6, <1>7, <1>8, <1>9, <1>10 DEF HostsInv

\* The ssh of the Host being polled is alive, and unregistered.
LEMMA SpawnKeepsInv ==
    ASSUME HostTypeOK, HostsInv, NEW h \in Hosts, Spawn(h)
    PROVE  HostsInv'
<1> USE DEF Spawn, Goto
<1>1. OneHostIsPolled'
    BY RunAssumption DEF HostsInv, OneHostIsPolled
<1>2. RegisteredWhileWaiting'
    BY DEF HostsInv, RegisteredWhileWaiting
<1>3. AliveUntilReaped'
    BY DEF HostsInv, AliveUntilReaped
<1>4. DoomedIsKilled'
    BY DEF HostsInv, DoomedIsKilled
<1>5. StatusIsLate'
    BY DEF HostsInv, StatusIsLate
<1>6. KilledIsCancelled'
    BY DEF HostsInv, KilledIsCancelled
<1>7. TimedOutIsLate'
    BY DEF HostsInv, TimedOutIsLate
<1>8. SignalledOrTargeted'
    BY DEF HostsInv, SignalledOrTargeted
<1>9. ExitIsTheEnd'
    BY DEF HostsInv, ExitIsTheEnd, Exited
<1>10. /\ EscalationIsAKill'
      /\ NoHostSlipsThrough'
      /\ SignalHasAReason'
    BY DEF HostsInv, EscalationIsAKill, NoHostSlipsThrough, SignalHasAReason,
        RunningHosts
<1> QED BY <1>1, <1>2, <1>3, <1>4, <1>5, <1>6, <1>7, <1>8, <1>9, <1>10 DEF HostsInv

\* The Host is reported without an ssh.
LEMMA SpawnFailsKeepsInv ==
    ASSUME HostTypeOK, HostsInv, NEW h \in Hosts, SpawnFails(h)
    PROVE  HostsInv'
<1> USE DEF SpawnFails, Settle, Goto
<1>1. OneHostIsPolled'
    BY RunAssumption DEF HostsInv, OneHostIsPolled
<1>2. RegisteredWhileWaiting'
    BY DEF HostsInv, RegisteredWhileWaiting
<1>3. AliveUntilReaped'
    BY DEF HostsInv, AliveUntilReaped
<1>4. DoomedIsKilled'
    BY DEF HostsInv, DoomedIsKilled
<1>5. StatusIsLate'
    BY DEF HostsInv, StatusIsLate, NoStatus
<1>6. KilledIsCancelled'
    BY DEF HostsInv, KilledIsCancelled
<1>7. TimedOutIsLate'
    BY DEF HostsInv, TimedOutIsLate
<1>8. SignalHasAReason'
    BY DEF HostsInv, StatusIsLate, SignalHasAReason, NoStatus
<1>9. SignalledOrTargeted'
    BY DEF HostsInv, SignalledOrTargeted
<1>10. ExitIsTheEnd'
    BY DEF HostsInv, ExitIsTheEnd, Exited
<1>11. /\ EscalationIsAKill'
      /\ NoHostSlipsThrough'
    BY DEF HostsInv, EscalationIsAKill, NoHostSlipsThrough, RunningHosts
<1> QED BY <1>1, <1>2, <1>3, <1>4, <1>5, <1>6, <1>7, <1>8, <1>9, <1>10, <1>11
    DEF HostsInv

\* Registration: the record and the Host move together.
LEMMA RegisterChildKeepsInv ==
    ASSUME HostTypeOK, HostsInv, NEW h \in Hosts, RegisterChild(h)
    PROVE  HostsInv'
<1> USE DEF RegisterChild, Register, Goto
<1>1. OneHostIsPolled'
    BY RunAssumption DEF HostsInv, OneHostIsPolled
<1>2. RegisteredWhileWaiting'
    BY DEF HostsInv, RegisteredWhileWaiting
<1>3. AliveUntilReaped'
    BY DEF HostsInv, AliveUntilReaped
<1>4. EscalationIsAKill'
    BY DEF HostsInv, EscalationIsAKill
<1>5. DoomedIsKilled'
    BY DEF HostsInv, DoomedIsKilled
<1>6. NoHostSlipsThrough'
    BY DEF HostsInv, NoHostSlipsThrough, RunningHosts
<1>7. StatusIsLate'
    BY DEF HostsInv, StatusIsLate
<1>8. KilledIsCancelled'
    BY DEF HostsInv, KilledIsCancelled
<1>9. TimedOutIsLate'
    BY DEF HostsInv, TimedOutIsLate
<1>10. SignalHasAReason'
    BY DEF HostsInv, SignalHasAReason
<1>11. SignalledOrTargeted'
    BY DEF HostsInv, SignalledOrTargeted
<1>12. ExitIsTheEnd'
    BY DEF HostsInv, ExitIsTheEnd, Exited
<1> QED BY <1>1, <1>2, <1>3, <1>4, <1>5, <1>6, <1>7, <1>8, <1>9, <1>10, <1>11,
    <1>12 DEF HostsInv

\* The signal of a Host that was registered as killed.
LEMMA SignalDoomedKeepsInv ==
    ASSUME HostTypeOK, HostsInv, NEW h \in Hosts, SignalDoomed(h)
    PROVE  HostsInv'
<1> USE DEF SignalDoomed, Signal, Goto
<1>1. OneHostIsPolled'
    BY RunAssumption DEF HostsInv, OneHostIsPolled
<1>2. RegisteredWhileWaiting'
    BY DEF HostsInv, RegisteredWhileWaiting
<1>3. AliveUntilReaped'
    BY DEF HostsInv, AliveUntilReaped
<1>4. DoomedIsKilled'
    BY DEF HostsInv, DoomedIsKilled
<1>5. StatusIsLate'
    BY DEF HostsInv, StatusIsLate
<1>6. KilledIsCancelled'
    BY DEF HostsInv, KilledIsCancelled
<1>7. TimedOutIsLate'
    BY DEF HostsInv, TimedOutIsLate
<1>8. SignalHasAReason'
    BY DEF HostsInv, DoomedIsKilled, SignalHasAReason
<1>9. SignalledOrTargeted'
    BY DEF HostsInv, SignalledOrTargeted
<1>10. ExitIsTheEnd'
    BY DEF HostsInv, ExitIsTheEnd, Exited
<1>11. /\ EscalationIsAKill'
      /\ NoHostSlipsThrough'
    BY DEF HostsInv, EscalationIsAKill, NoHostSlipsThrough, RunningHosts
<1> QED BY <1>1, <1>2, <1>3, <1>4, <1>5, <1>6, <1>7, <1>8, <1>9, <1>10, <1>11
    DEF HostsInv

\* The ssh is gone, and still registered.
LEMMA WaitReturnsKeepsInv ==
    ASSUME HostTypeOK, HostsInv, NEW h \in Hosts, WaitReturns(h)
    PROVE  HostsInv'
<1> USE DEF WaitReturns, Goto
<1>1. OneHostIsPolled'
    BY RunAssumption DEF HostsInv, OneHostIsPolled
<1>2. RegisteredWhileWaiting'
    BY DEF HostsInv, RegisteredWhileWaiting
<1>3. AliveUntilReaped'
    BY DEF HostsInv, AliveUntilReaped
<1>4. DoomedIsKilled'
    BY DEF HostsInv, DoomedIsKilled
<1>5. StatusIsLate'
    BY DEF HostsInv, StatusIsLate
<1>6. KilledIsCancelled'
    BY DEF HostsInv, KilledIsCancelled
<1>7. TimedOutIsLate'
    BY DEF HostsInv, TimedOutIsLate
<1>8. SignalledOrTargeted'
    BY DEF HostsInv, SignalledOrTargeted
<1>9. ExitIsTheEnd'
    BY DEF HostsInv, ExitIsTheEnd, Exited
<1>10. /\ EscalationIsAKill'
      /\ NoHostSlipsThrough'
      /\ SignalHasAReason'
    BY DEF HostsInv, EscalationIsAKill, NoHostSlipsThrough, SignalHasAReason,
        RunningHosts
<1> QED BY <1>1, <1>2, <1>3, <1>4, <1>5, <1>6, <1>7, <1>8, <1>9, <1>10 DEF HostsInv

\* The limit's SIGTERM has its reason in timedOut.
LEMMA LimitExpiresKeepsInv ==
    ASSUME HostTypeOK, HostsInv, NEW h \in Hosts, LimitExpires(h)
    PROVE  HostsInv'
<1> USE DEF LimitExpires, Signal, Goto
<1>1. OneHostIsPolled'
    BY RunAssumption DEF HostsInv, OneHostIsPolled
<1>2. RegisteredWhileWaiting'
    BY DEF HostsInv, RegisteredWhileWaiting
<1>3. AliveUntilReaped'
    BY DEF HostsInv, AliveUntilReaped
<1>4. DoomedIsKilled'
    BY DEF HostsInv, DoomedIsKilled
<1>5. StatusIsLate'
    BY DEF HostsInv, StatusIsLate
<1>6. KilledIsCancelled'
    BY DEF HostsInv, KilledIsCancelled
<1>7. TimedOutIsLate'
    BY DEF HostsInv, TimedOutIsLate
<1>8. SignalHasAReason'
    BY DEF HostsInv, SignalHasAReason
<1>9. SignalledOrTargeted'
    BY DEF HostsInv, SignalledOrTargeted
<1>10. ExitIsTheEnd'
    BY DEF HostsInv, ExitIsTheEnd, Exited
<1>11. /\ EscalationIsAKill'
      /\ NoHostSlipsThrough'
    BY DEF HostsInv, EscalationIsAKill, NoHostSlipsThrough, RunningHosts
<1> QED BY <1>1, <1>2, <1>3, <1>4, <1>5, <1>6, <1>7, <1>8, <1>9, <1>10, <1>11
    DEF HostsInv

\* The limit's SIGKILL: timedOut is set since its SIGTERM.
LEMMA GraceExpiresKeepsInv ==
    ASSUME HostTypeOK, HostsInv, NEW h \in Hosts, GraceExpires(h)
    PROVE  HostsInv'
<1> USE DEF GraceExpires, Signal, Goto
<1>1. OneHostIsPolled'
    BY RunAssumption DEF HostsInv, OneHostIsPolled
<1>2. RegisteredWhileWaiting'
    BY DEF HostsInv, RegisteredWhileWaiting
<1>3. AliveUntilReaped'
    BY DEF HostsInv, AliveUntilReaped
<1>4. DoomedIsKilled'
    BY DEF HostsInv, DoomedIsKilled
<1>5. StatusIsLate'
    BY DEF HostsInv, StatusIsLate
<1>6. KilledIsCancelled'
    BY DEF HostsInv, KilledIsCancelled
<1>7. TimedOutIsLate'
    BY DEF HostsInv, TimedOutIsLate
<1>8. SignalHasAReason'
    BY DEF HostsInv, TimedOutIsLate, SignalHasAReason
<1>9. SignalledOrTargeted'
    BY DEF HostsInv, SignalledOrTargeted
<1>10. ExitIsTheEnd'
    BY DEF HostsInv, ExitIsTheEnd, Exited
<1>11. /\ EscalationIsAKill'
      /\ NoHostSlipsThrough'
    BY DEF HostsInv, EscalationIsAKill, NoHostSlipsThrough, RunningHosts
<1> QED BY <1>1, <1>2, <1>3, <1>4, <1>5, <1>6, <1>7, <1>8, <1>9, <1>10, <1>11
    DEF HostsInv

\* Deregistration: the record and the Host move together.
LEMMA DeregisterChildKeepsInv ==
    ASSUME HostTypeOK, HostsInv, NEW h \in Hosts, DeregisterChild(h)
    PROVE  HostsInv'
<1> USE DEF DeregisterChild, Deregister, Goto
<1>1. OneHostIsPolled'
    BY RunAssumption DEF HostsInv, OneHostIsPolled
<1>2. RegisteredWhileWaiting'
    BY DEF HostsInv, RegisteredWhileWaiting
<1>3. AliveUntilReaped'
    BY DEF HostsInv, AliveUntilReaped
<1>4. DoomedIsKilled'
    BY DEF HostsInv, DoomedIsKilled
<1>5. NoHostSlipsThrough'
    BY DEF HostsInv, NoHostSlipsThrough, RunningHosts
<1>6. StatusIsLate'
    BY DEF HostsInv, StatusIsLate
<1>7. KilledIsCancelled'
    BY DEF HostsInv, KilledIsCancelled
<1>8. TimedOutIsLate'
    BY DEF HostsInv, TimedOutIsLate
<1>9. SignalledOrTargeted'
    BY DEF HostsInv, SignalledOrTargeted
<1>10. ExitIsTheEnd'
    BY DEF HostsInv, ExitIsTheEnd, Exited
<1>11. /\ EscalationIsAKill'
      /\ SignalHasAReason'
    BY DEF HostsInv, EscalationIsAKill, SignalHasAReason
<1> QED BY <1>1, <1>2, <1>3, <1>4, <1>5, <1>6, <1>7, <1>8, <1>9, <1>10, <1>11
    DEF HostsInv

\* The verdict: cancelled for a killed Host, which is why a kill cannot be
\* lost on the way to the report.
LEMMA DrainedKeepsInv ==
    ASSUME HostTypeOK, HostsInv, NEW h \in Hosts, Drained(h)
    PROVE  HostsInv'
<1> USE DEF Drained, CopyConcluded, RunConcluded, Settle, Goto
<1>1. /\ Verdict(h) \in Status
      /\ h \in killed => Verdict(h) = "cancelled"
      /\ CutShort(h) => Verdict(h) \in {"cancelled", "timeout"}
    BY StatusOfType DEF Verdict, CutShort, StatusOf, Status
<1>2. \A p \in BOOLEAN : Launched(Verdict(h), p) \in Status
    BY <1>1, LaunchedType
<1>3. OneHostIsPolled'
    BY RunAssumption DEF HostsInv, OneHostIsPolled
<1>4. RegisteredWhileWaiting'
    BY DEF HostsInv, RegisteredWhileWaiting
<1>5. AliveUntilReaped'
    BY DEF HostsInv, AliveUntilReaped, NoChild, Alive
<1>6. DoomedIsKilled'
    BY DEF HostsInv, DoomedIsKilled
<1>7. StatusIsLate'
    BY <1>1, <1>2 DEF HostsInv, StatusIsLate, NoStatus, Status
<1>8. KilledIsCancelled'
    BY <1>1 DEF HostsInv, KilledIsCancelled, CutShort
<1>9. TimedOutIsLate'
    BY DEF HostsInv, TimedOutIsLate
<1>10. SignalHasAReason'
    BY <1>1 DEF HostsInv, StatusIsLate, SignalHasAReason, CutShort, NoStatus
<1>11. SignalledOrTargeted'
    BY DEF HostsInv, SignalledOrTargeted
<1>12. ExitIsTheEnd'
    BY DEF HostsInv, ExitIsTheEnd, Exited
<1>13. /\ EscalationIsAKill'
      /\ NoHostSlipsThrough'
    BY DEF HostsInv, EscalationIsAKill, NoHostSlipsThrough, RunningHosts
<1> QED BY <1>3, <1>4, <1>5, <1>6, <1>7, <1>8, <1>9, <1>10, <1>11, <1>12,
    <1>13 DEF HostsInv

\* The verdict is handed up as it was decided.
LEMMA StopReturnsKeepsInv ==
    ASSUME HostTypeOK, HostsInv, NEW h \in Hosts, StopReturns(h)
    PROVE  HostsInv'
<1> USE DEF StopReturns, Settle, Goto
<1>1. OneHostIsPolled'
    BY RunAssumption DEF HostsInv, OneHostIsPolled
<1>2. RegisteredWhileWaiting'
    BY DEF HostsInv, RegisteredWhileWaiting
<1>3. AliveUntilReaped'
    BY DEF HostsInv, AliveUntilReaped
<1>4. DoomedIsKilled'
    BY DEF HostsInv, DoomedIsKilled
<1>5. StatusIsLate'
    BY DEF HostsInv, StatusIsLate
<1>6. KilledIsCancelled'
    BY DEF HostsInv, KilledIsCancelled
<1>7. TimedOutIsLate'
    BY DEF HostsInv, TimedOutIsLate
<1>8. SignalHasAReason'
    BY DEF HostsInv, SignalHasAReason
<1>9. SignalledOrTargeted'
    BY DEF HostsInv, SignalledOrTargeted
<1>10. ExitIsTheEnd'
    BY DEF HostsInv, ExitIsTheEnd, Exited
<1>11. /\ EscalationIsAKill'
      /\ NoHostSlipsThrough'
    BY DEF HostsInv, EscalationIsAKill, NoHostSlipsThrough, RunningHosts
<1> QED BY <1>1, <1>2, <1>3, <1>4, <1>5, <1>6, <1>7, <1>8, <1>9, <1>10, <1>11
    DEF HostsInv

\* An ssh that ends disturbs only what is said of live ones.
LEMMA ChildExitsKeepsInv ==
    ASSUME HostTypeOK, HostsInv, NEW h \in Hosts, ChildExits(h)
    PROVE  HostsInv'
<1> USE DEF ChildExits
<1>1. AliveUntilReaped'
    BY DEF HostsInv, AliveUntilReaped
<1>2. SignalledOrTargeted'
    BY DEF HostsInv, SignalledOrTargeted
<1>3. /\ OneHostIsPolled'
      /\ RegisteredWhileWaiting'
      /\ EscalationIsAKill'
      /\ DoomedIsKilled'
      /\ NoHostSlipsThrough'
      /\ StatusIsLate'
      /\ KilledIsCancelled'
      /\ TimedOutIsLate'
      /\ SignalHasAReason'
      /\ ExitIsTheEnd'
    BY DEF HostsInv, OneHostIsPolled, RegisteredWhileWaiting, EscalationIsAKill,
        DoomedIsKilled, NoHostSlipsThrough, StatusIsLate, KilledIsCancelled,
        TimedOutIsLate, SignalHasAReason, ExitIsTheEnd, RunningHosts, Exited
<1> QED BY <1>1, <1>2, <1>3 DEF HostsInv

\* As for an ssh that ends by itself.
LEMMA ChildDiesKeepsInv ==
    ASSUME HostTypeOK, HostsInv, NEW h \in Hosts, ChildDies(h)
    PROVE  HostsInv'
<1> USE DEF ChildDies
<1>1. AliveUntilReaped'
    BY DEF HostsInv, AliveUntilReaped
<1>2. SignalledOrTargeted'
    BY DEF HostsInv, SignalledOrTargeted
<1>3. /\ OneHostIsPolled'
      /\ RegisteredWhileWaiting'
      /\ EscalationIsAKill'
      /\ DoomedIsKilled'
      /\ NoHostSlipsThrough'
      /\ StatusIsLate'
      /\ KilledIsCancelled'
      /\ TimedOutIsLate'
      /\ SignalHasAReason'
      /\ ExitIsTheEnd'
    BY DEF HostsInv, OneHostIsPolled, RegisteredWhileWaiting, EscalationIsAKill,
        DoomedIsKilled, NoHostSlipsThrough, StatusIsLate, KilledIsCancelled,
        TimedOutIsLate, SignalHasAReason, ExitIsTheEnd, RunningHosts, Exited
<1> QED BY <1>1, <1>2, <1>3 DEF HostsInv

\* The interrupt: everyone registered is marked and targeted in one step.
\* The main task may itself turn from a prompt, never from a Host.
LEMMA BeginKeepsInv ==
    ASSUME HostTypeOK, HostsInv, Begin,
           UNCHANGED <<pc, step, child, sent, timedOut, status, exitCode>>,
           \A h \in Hosts : busy' = h <=> busy = h
    PROVE  HostsInv'
<1> USE DEF Begin
<1>1. EscalationIsAKill'
    BY DEF HostsInv, EscalationIsAKill, Snapshot, RunningHosts
<1>2. DoomedIsKilled'
    BY DEF HostsInv, DoomedIsKilled
<1>3. NoHostSlipsThrough'
    BY DEF HostsInv, NoHostSlipsThrough, RunningHosts
<1>4. KilledIsCancelled'
    BY DEF HostsInv, RegisteredWhileWaiting, NoHostSlipsThrough, KilledIsCancelled,
        RunningHosts
<1>5. SignalHasAReason'
    BY DEF HostsInv, SignalHasAReason
<1>6. SignalledOrTargeted'
    BY DEF HostsInv, RegisteredWhileWaiting, SignalledOrTargeted, Snapshot,
        RunningHosts, NoPid, Steps
<1>7. /\ OneHostIsPolled'
      /\ RegisteredWhileWaiting'
      /\ AliveUntilReaped'
      /\ StatusIsLate'
      /\ TimedOutIsLate'
      /\ ExitIsTheEnd'
    BY DEF HostsInv, OneHostIsPolled, RegisteredWhileWaiting, AliveUntilReaped,
        StatusIsLate, TimedOutIsLate, ExitIsTheEnd, Exited
<1> QED BY <1>1, <1>2, <1>3, <1>4, <1>5, <1>6, <1>7 DEF HostsInv

\* A target is dropped as it is signalled.
LEMMA SignalTargetKeepsInv ==
    ASSUME HostTypeOK, HostsInv, NEW h \in Hosts, NEW s \in Steps, SignalTarget(h, s)
    PROVE  HostsInv'
<1> USE DEF SignalTarget, TargetSignalled, Signal, SignalOf
<1>1. EscalationIsAKill'
    BY DEF HostsInv, EscalationIsAKill
<1>2. SignalHasAReason'
    BY DEF HostsInv, EscalationIsAKill, SignalHasAReason
<1>3. SignalledOrTargeted'
    BY DEF HostsInv, SignalledOrTargeted
<1>4. /\ OneHostIsPolled'
      /\ RegisteredWhileWaiting'
      /\ AliveUntilReaped'
      /\ DoomedIsKilled'
      /\ NoHostSlipsThrough'
      /\ StatusIsLate'
      /\ KilledIsCancelled'
      /\ TimedOutIsLate'
      /\ ExitIsTheEnd'
    BY DEF HostsInv, OneHostIsPolled, RegisteredWhileWaiting, AliveUntilReaped,
        DoomedIsKilled, NoHostSlipsThrough, StatusIsLate, KilledIsCancelled,
        TimedOutIsLate, ExitIsTheEnd, RunningHosts, Exited
<1> QED BY <1>1, <1>2, <1>3, <1>4 DEF HostsInv

\* From SIGTERM to SIGKILL: a new snapshot, of Hosts that are all killed.
LEMMA EscalateKeepsInv ==
    ASSUME HostTypeOK, HostsInv, Escalate
    PROVE  HostsInv'
<1> USE DEF Escalate, EscalateBegins, GraceEnds, AllGone, EscalateReturns,
    hostVars
<1>1. EscalationIsAKill'
    BY DEF HostsInv, EscalationIsAKill, NoHostSlipsThrough, RunningHosts, Snapshot
<1>2. SignalledOrTargeted'
  <2> USE DEF HostsInv, SignalledOrTargeted
  <2>1. CASE EscalateBegins
      BY <2>1
  <2>2. CASE GraceEnds
      BY <2>2
  <2>3. CASE AllGone
      BY <2>3
  <2>4. CASE EscalateReturns
      BY <2>4
  <2> QED BY <2>1, <2>2, <2>3, <2>4
<1>3. /\ OneHostIsPolled'
      /\ RegisteredWhileWaiting'
      /\ AliveUntilReaped'
      /\ DoomedIsKilled'
      /\ NoHostSlipsThrough'
      /\ StatusIsLate'
      /\ KilledIsCancelled'
      /\ TimedOutIsLate'
      /\ SignalHasAReason'
      /\ ExitIsTheEnd'
    BY DEF HostsInv, OneHostIsPolled, RegisteredWhileWaiting, AliveUntilReaped,
        DoomedIsKilled, NoHostSlipsThrough, StatusIsLate, KilledIsCancelled,
        TimedOutIsLate, SignalHasAReason, ExitIsTheEnd, RunningHosts, Exited
<1> QED BY <1>1, <1>2, <1>3 DEF HostsInv

\* The run ends, whatever its exit code is, or the main task turns to something
\* that is no Host.
LEMMA ExitKeepsInv ==
    ASSUME HostsInv,
           UNCHANGED <<pc, step, child, sent, timedOut, status, interruptVars>>,
           \A h \in Hosts : busy' = h <=> busy = h,
           Exited' => \A h \in Hosts : pc[h] \in EndStates
    PROVE  HostsInv'
<1>1. ExitIsTheEnd'
    BY DEF ExitIsTheEnd
<1>2. /\ OneHostIsPolled'
      /\ RegisteredWhileWaiting'
      /\ AliveUntilReaped'
      /\ EscalationIsAKill'
      /\ DoomedIsKilled'
      /\ NoHostSlipsThrough'
    BY DEF HostsInv, OneHostIsPolled, RegisteredWhileWaiting, AliveUntilReaped,
        EscalationIsAKill, DoomedIsKilled, NoHostSlipsThrough, RunningHosts
<1>3. /\ StatusIsLate'
      /\ KilledIsCancelled'
      /\ TimedOutIsLate'
      /\ SignalHasAReason'
      /\ SignalledOrTargeted'
    BY DEF HostsInv, StatusIsLate, KilledIsCancelled, TimedOutIsLate,
        SignalHasAReason, SignalledOrTargeted
<1> QED BY <1>1, <1>2, <1>3 DEF HostsInv

\* A step of a Host or of its ssh keeps the invariant.
LEMMA HostStepKeepsInv ==
    ASSUME HostTypeOK, HostsInv, NEW h \in Hosts,
           MidPoll(h) \/ AtAwait(h) \/ Ssh(h)
    PROVE  HostsInv'
<1>1. CASE MidPoll(h)
    BY <1>1, SpawnKeepsInv, SpawnFailsKeepsInv, RegisterChildKeepsInv,
       SignalDoomedKeepsInv, DeregisterChildKeepsInv
    DEF MidPoll
<1>2. CASE AtAwait(h)
    BY <1>2, DispatchKeepsInv, WaitReturnsKeepsInv, LimitExpiresKeepsInv,
       GraceExpiresKeepsInv, DrainedKeepsInv, StopReturnsKeepsInv
    DEF AtAwait
<1>3. CASE Ssh(h)
  <2>1. CASE HelperExits(h)
      BY <2>1, ExitKeepsInv
      DEF HelperExits, HostsInv, ExitIsTheEnd, Exited
  <2> QED BY <1>3, <2>1, ChildExitsKeepsInv, ChildDiesKeepsInv DEF Ssh
<1> QED BY <1>1, <1>2, <1>3

\* So does one of the interrupt task.
LEMMA InterruptStepKeepsInv ==
    ASSUME HostTypeOK, HostsInv, InterruptTask
    PROVE  HostsInv'
<1>1. CASE CtrlC
    BY <1>1, BeginKeepsInv DEF CtrlC, hostVars
<1> QED BY <1>1, SignalTargetKeepsInv, EscalateKeepsInv DEF InterruptTask

LEMMA NextKeepsHostsInv ==
    ASSUME HostTypeOK, HostsInv, [Next]_vars
    PROVE  HostsInv'
<1>1. CASE Exit
    BY <1>1, ExitKeepsInv DEF Exit
<1>2. CASE Done \/ UNCHANGED vars
    BY <1>2, ExitKeepsInv
    DEF Done, vars, hostVars, HostsInv, ExitIsTheEnd, Exited
<1> QED BY <1>1, <1>2, HostStepKeepsInv, InterruptStepKeepsInv DEF Next

\* Once the run is over nobody's outcome changes, and only `Exit` ends it.
LEMMA ReportsStand ==
    ASSUME HostsInv, Exited,
           InterruptTask \/ \E h \in Hosts : MidPoll(h) \/ AtAwait(h) \/ Ssh(h)
    PROVE  UNCHANGED <<pc, status>>
<1>1. \A h \in Hosts : ~MidPoll(h) /\ ~AtAwait(h)
    BY DEF HostsInv, ExitIsTheEnd, MidPoll, AtAwait, Spawn, SpawnFails,
        RegisterChild, SignalDoomed, DeregisterChild, Dispatch, WaitReturns,
        LimitExpires, GraceExpires, Drained, StopReturns
<1> QED BY <1>1
        DEF Ssh, ChildExits, ChildDies, HelperExits, InterruptTask, CtrlC,
            SignalTarget, Escalate

LEMMA ExitCodeStaysReported ==
    ASSUME HostTypeOK, Inv, [Next]_vars
    PROVE  ExitCodeIsReported'
<1>1. CASE InterruptTask \/ \E h \in Hosts : MidPoll(h) \/ AtAwait(h) \/ Ssh(h)
  <2>1. UNCHANGED exitCode
      BY <1>1, HostStepType, InterruptStepType
  <2> QED BY <1>1, <2>1, ReportsStand
          DEF Inv, ExitCodeIsReported, Exited, Reported
<1>2. CASE Exit
    BY <1>2 DEF Exit, ExitCodeIsReported, Reported
<1>3. CASE Done \/ UNCHANGED vars
    BY <1>3 DEF Done, vars, hostVars, Inv, ExitCodeIsReported, Exited, Reported
<1> QED BY <1>1, <1>2, <1>3 DEF Next

\* A Host's records follow its progress in every reachable state.
THEOREM InvHolds == Spec => []Inv
<1>1. Init => Inv
    BY InitInv DEF Inv, Init, ExitCodeIsReported, Exited
<1>2. TypeOK /\ Inv /\ [Next]_vars => Inv'
    BY NextKeepsHostsInv, ExitCodeStaysReported DEF Inv
<1> QED BY <1>1, <1>2, TypeCorrect, PTL DEF Spec

-----------------------------------------------------------------------------
(* What follows from it *)

\* Whichever side of the interrupt an ssh is registered on, its kill is on
\* record: the claim of the Children lock.
THEOREM NoHostSlips == Spec => []NoHostSlipsThrough
<1>1. Inv => NoHostSlipsThrough
    BY DEF Inv, HostsInv
<1> QED BY <1>1, InvHolds, PTL

\* A signal is answered for: by whoever the escalation has seen, or by the
\* verdict of the Host it went to.
LEMMA SignalsAreAnsweredFor ==
    ASSUME HostTypeOK, HostsInv
    PROVE  NoneMissed /\ SignalledIsCutShort
<1>1. NoneMissed
    BY DEF HostsInv, EscalationIsAKill, SignalledOrTargeted, NoneMissed
<1>2. ASSUME NEW h \in Hosts, sent[h] # "none"
      PROVE  status[h] \in {NoStatus, "cancelled", "timeout"}
  <2>1. CASE h \in killed
      BY <2>1 DEF HostsInv, KilledIsCancelled, StatusIsLate
  <2>2. CASE timedOut[h]
      BY <2>2 DEF HostsInv, TimedOutIsLate, StatusIsLate
  <2>3. CASE status[h] \in {"cancelled", "timeout"}
      BY <2>3
  <2> QED BY <1>2, <2>1, <2>2, <2>3 DEF HostsInv, SignalHasAReason
<1> QED BY <1>1, <1>2 DEF SignalledIsCutShort

\* No ssh that is waited for goes unsignalled once the SIGTERMs are out.
THEOREM NobodyMissed == Spec => []NoneMissed
<1>1. TypeOK /\ Inv => NoneMissed
    BY SignalsAreAnsweredFor DEF TypeOK, Inv
<1> QED BY <1>1, InvHolds, TypeCorrect, PTL

\* An ssh that rshx signalled never passes for one that ended by itself.
THEOREM SignalledIsNeverBlamed == Spec => []SignalledIsCutShort
<1>1. TypeOK /\ Inv => SignalledIsCutShort
    BY SignalsAreAnsweredFor DEF TypeOK, Inv
<1> QED BY <1>1, InvHolds, TypeCorrect, PTL

\* The kill of one Host is enough for the run to exit 99.
THEOREM KillIsReported == Spec => []KilledRunExits99
<1>1. TypeOK /\ Inv => KilledRunExits99
  <2> SUFFICES ASSUME TypeOK, Inv, Exited, NEW h \in killed
               PROVE  exitCode = EXIT_INTERRUPTED
      BY DEF KilledRunExits99
  <2>1. pc[h] = "settled" /\ status[h] = "cancelled"
      BY DEF Inv, HostsInv, ExitIsTheEnd, KilledIsCancelled
  <2>2. "cancelled" \in Reported
      BY <2>1 DEF Reported
  <2> QED BY <2>2 DEF Inv, ExitCodeIsReported, ExitCode
<1> QED BY <1>1, InvHolds, TypeCorrect, PTL

\* A copy that was cut short is the end of its Host: the script is not run.
THEOREM CutCopyIsTheEnd == Spec => NoRunAfterACutCopy
<1>1. TypeOK /\ Inv /\ [Next]_vars =>
          [\A h \in Hosts : step'[h] # step[h] =>
               sent[h] = "none" /\ h \notin killed]_vars
  <2> SUFFICES ASSUME TypeOK, Inv, [Next]_vars,
                      NEW g \in Hosts, step'[g] # step[g]
               PROVE  sent[g] = "none" /\ g \notin killed
      OBVIOUS
  <2>1. PICK h \in Hosts : Drained(h)
      BY DEF Next, MidPoll, AtAwait, Ssh, InterruptTask, Spawn, SpawnFails,
          RegisterChild, SignalDoomed, DeregisterChild, Dispatch, WaitReturns,
          LimitExpires, GraceExpires, StopReturns, ChildExits, ChildDies,
          HelperExits, CtrlC, SignalTarget, Escalate, Exit, Done, vars,
          hostVars
  <2>2. g = h /\ ~CutShort(h) /\ pc[h] = "draining"
      BY <2>1 DEF Drained, CopyConcluded, RunConcluded
  <2> QED BY <2>2 DEF CutShort, Inv, HostsInv, SignalHasAReason, StatusIsLate, NoStatus
<1> QED BY <1>1, InvHolds, TypeCorrect, PTL DEF Spec, NoRunAfterACutCopy

-----------------------------------------------------------------------------
(* The fanout *)

FanoutKept == Cardinality(InFlight) <= Fanout

LEMMA InFlightIsFinite ==
    /\ IsFiniteSet(InFlight)
    /\ Cardinality(InFlight) \in Nat
<1>1. InFlight \subseteq Hosts
    BY DEF InFlight
<1>2. IsFiniteSet(InFlight)
    BY <1>1, HostsAssumption, FS_Subset
<1> QED BY <1>2, FS_CardinalityType

\* Only a Host leaving the stream takes a slot.
LEMMA SlotsOnlyByDispatch ==
    ASSUME TypeOK, Inv, Next, ~ \E h \in Hosts : Dispatch(h)
    PROVE  InFlight' \subseteq InFlight
<1>1. ASSUME NEW h \in Hosts, MidPoll(h) PROVE InFlight' \subseteq InFlight
    BY <1>1
    DEF MidPoll, Spawn, SpawnFails, RegisterChild, SignalDoomed,
        DeregisterChild, Settle, Goto, InFlight
<1>2. ASSUME NEW h \in Hosts, AtAwait(h) PROVE InFlight' \subseteq InFlight
    BY <1>2
    DEF AtAwait, WaitReturns, LimitExpires, GraceExpires, Drained,
        CopyConcluded, RunConcluded, StopReturns, Settle, Goto, InFlight
<1>3. ASSUME UNCHANGED pc PROVE InFlight' \subseteq InFlight
    BY <1>3 DEF InFlight
<1>4. ASSUME NEW h \in Hosts, Ssh(h) PROVE UNCHANGED pc
    BY <1>4 DEF Ssh, ChildExits, ChildDies, HelperExits
<1>5. ASSUME InterruptTask \/ Exit \/ Done PROVE UNCHANGED pc
    BY <1>5
    DEF InterruptTask, CtrlC, SignalTarget, Escalate, Exit, Done, vars, hostVars
<1> QED BY <1>1, <1>2, <1>3, <1>4, <1>5 DEF Next

LEMMA NobodyIsInFlight == Init => FanoutKept
<1> SUFFICES ASSUME Init PROVE FanoutKept
    OBVIOUS
<1>1. InFlight = {}
    BY DEF Init, InFlight
<1> QED BY <1>1, FS_EmptySet, RunAssumption DEF FanoutKept

LEMMA FewerInFlight ==
    ASSUME FanoutKept, InFlight' \subseteq InFlight
    PROVE  FanoutKept'
<1>1. /\ Cardinality(InFlight') <= Cardinality(InFlight)
      /\ Cardinality(InFlight') \in Nat
    BY InFlightIsFinite, FS_Subset, FS_CardinalityType
<1> QED BY <1>1, InFlightIsFinite, RunAssumption DEF FanoutKept

\* A Host is dispatched into a free slot.
LEMMA DispatchKeepsTheWindow ==
    ASSUME HostTypeOK, FanoutKept, NEW h \in Hosts, Dispatch(h)
    PROVE  FanoutKept'
<1>1. InFlight' \subseteq InFlight \cup {h}
    BY DEF Dispatch, Goto, InFlight
<1>2. /\ IsFiniteSet(InFlight \cup {h})
      /\ Cardinality(InFlight \cup {h}) <= Cardinality(InFlight) + 1
  <2>1. /\ IsFiniteSet(InFlight \cup {h})
        /\ \/ Cardinality(InFlight \cup {h}) = Cardinality(InFlight)
           \/ Cardinality(InFlight \cup {h}) = Cardinality(InFlight) + 1
      BY InFlightIsFinite, FS_AddElement, Zenon
  <2> QED BY <2>1, InFlightIsFinite
<1>3. Cardinality(InFlight') <= Cardinality(InFlight \cup {h})
    BY <1>1, <1>2, FS_Subset
<1>4. /\ Cardinality(InFlight) < Fanout
      /\ Cardinality(InFlight') \in Nat
      /\ Cardinality(InFlight \cup {h}) \in Nat
    BY <1>1, <1>2, FS_Subset, FS_CardinalityType DEF Dispatch, HasSlot
<1> QED BY <1>2, <1>3, <1>4, InFlightIsFinite, RunAssumption DEF FanoutKept

\* Every connection is that of a Host in the window.
LEMMA ConnectionsAreInFlight ==
    ASSUME HostsInv, FanoutKept
    PROVE  SshBound
<1>1. Connections \subseteq InFlight
    BY DEF Connections, InFlight, HostsInv, AliveUntilReaped
<1>2. /\ Cardinality(Connections) <= Cardinality(InFlight)
      /\ Cardinality(Connections) \in Nat
    BY <1>1, InFlightIsFinite, FS_Subset, FS_CardinalityType
<1> QED BY <1>2, InFlightIsFinite, RunAssumption DEF FanoutKept, SshBound

THEOREM WindowNeverOverfills == Spec => []FanoutKept
<1>1. TypeOK /\ Inv /\ FanoutKept /\ [Next]_vars => FanoutKept'
  <2> SUFFICES ASSUME TypeOK, Inv, FanoutKept, [Next]_vars PROVE FanoutKept'
      OBVIOUS
  <2>1. CASE UNCHANGED vars
      BY <2>1 DEF vars, hostVars, FanoutKept, InFlight
  <2>2. CASE \E h \in Hosts : Dispatch(h)
      BY <2>2, DispatchKeepsTheWindow DEF TypeOK
  <2>3. CASE Next /\ ~ \E h \in Hosts : Dispatch(h)
      BY <2>3, SlotsOnlyByDispatch, FewerInFlight
  <2> QED BY <2>1, <2>2, <2>3
<1> QED BY <1>1, NobodyIsInFlight, TypeCorrect, InvHolds, PTL DEF Spec

\* No more ssh connections than slots, those that stop a command included.
THEOREM ConnectionsAreBounded == Spec => []SshBound
<1>1. Inv /\ FanoutKept => SshBound
    BY ConnectionsAreInFlight DEF Inv
<1> QED BY <1>1, WindowNeverOverfills, InvHolds, PTL

-----------------------------------------------------------------------------
(* Exit code 99 *)

\* Without signals from elsewhere, an ssh that died of a signal died of
\* rshx's, and a Host is cancelled by an interrupt only.
Blame ==
    ~ForeignSignal =>
        \A h \in Hosts :
            /\ child[h] = Signalled => sent[h] # "none"
            /\ status[h] = "cancelled" => stopped

LEMMA VerdictOfADrainedHost ==
    ASSUME HostTypeOK, HostsInv, Blame, ~ForeignSignal, NEW h \in Hosts,
           pc[h] = "draining", Verdict(h) = "cancelled"
    PROVE  stopped
<1>1. h \in killed \/ (~timedOut[h] /\ child[h] = Signalled)
    BY DEF Verdict, StatusOf, from_exit_code
<1>2. child[h] = Signalled /\ ~timedOut[h] => h \in killed
    BY DEF Blame, HostsInv, SignalHasAReason, StatusIsLate, NoStatus
<1> QED BY <1>1, <1>2 DEF HostsInv, EscalationIsAKill

LEMMA BlameKept ==
    ASSUME HostTypeOK, HostsInv, Blame, ~ForeignSignal,
           InterruptTask \/ \E h \in Hosts : MidPoll(h) \/ AtAwait(h) \/ Ssh(h)
    PROVE  Blame'
<1>0. /\ stopped => stopped'
      /\ \A h \in Hosts : sent[h] # "none" => sent'[h] # "none"
  <2> USE DEF HostTypeOK, hostVars, interruptVars
  <2>1. ASSUME NEW h \in Hosts, MidPoll(h) PROVE <1>0!:
      BY <2>1
      DEF MidPoll, Spawn, SpawnFails, RegisterChild, Register, SignalDoomed,
          Signal, DeregisterChild, Deregister
  <2>2. ASSUME NEW h \in Hosts, AtAwait(h) PROVE <1>0!:
      BY <2>2
      DEF AtAwait, Dispatch, WaitReturns, LimitExpires, GraceExpires, Signal,
          Drained, StopReturns
  <2>3. ASSUME NEW h \in Hosts, Ssh(h) PROVE <1>0!:
      BY <2>3 DEF Ssh, ChildExits, ChildDies, HelperExits
  <2>4. CASE InterruptTask
      BY <2>4
      DEF InterruptTask, CtrlC, Begin, SignalTarget, TargetSignalled, Signal,
          SignalOf, Escalate, EscalateBegins, GraceEnds, AllGone,
          EscalateReturns
  <2> QED BY <2>1, <2>2, <2>3, <2>4
<1>1. ASSUME NEW g \in Hosts, child'[g] = Signalled
      PROVE  sent'[g] # "none"
  <2>1. CASE child[g] = Signalled
      BY <2>1, <1>0 DEF Blame
  <2>2. CASE child[g] # Signalled
    <3>1. PICK h \in Hosts : Spawn(h) \/ Drained(h) \/ ChildExits(h) \/ ChildDies(h)
        BY <1>1, <2>2
        DEF MidPoll, AtAwait, Ssh, InterruptTask, SpawnFails, RegisterChild,
            SignalDoomed, DeregisterChild, Dispatch, WaitReturns,
            LimitExpires, GraceExpires, StopReturns, HelperExits, CtrlC,
            SignalTarget, Escalate, hostVars
    <3>2. ~Spawn(h) /\ ~Drained(h)
        BY <1>1, <2>2 DEF Spawn, Drained, Alive, NoChild, Signalled
    <3>3. ~ChildExits(h)
        BY <1>1, <2>2, RunAssumption
        DEF ChildExits, Signalled, Unreadable
    <3> QED BY <1>1, <2>2, <3>1, <3>2, <3>3 DEF ChildDies
  <2> QED BY <2>1, <2>2
<1>2. ASSUME NEW g \in Hosts, status'[g] = "cancelled"
      PROVE  stopped'
  <2>1. CASE status[g] = "cancelled"
      BY <2>1, <1>0 DEF Blame
  <2>2. CASE status[g] # "cancelled"
    <3> USE DEF hostVars
    <3>1. ASSUME NEW h \in Hosts, MidPoll(h)
          PROVE  FALSE
      <4>1. CASE SpawnFails(h)
          BY <1>2, <2>2, <4>1 DEF SpawnFails, Settle, HostTypeOK
      <4>2. CASE ~SpawnFails(h)
          BY <1>2, <2>2, <3>1, <4>2
          DEF MidPoll, Spawn, RegisterChild, SignalDoomed, DeregisterChild
      <4> QED BY <4>1, <4>2
    <3>2. ASSUME NEW h \in Hosts, AtAwait(h) \/ Ssh(h)
          PROVE  Drained(h)
      <4>1. CASE StopReturns(h)
          BY <1>2, <2>2, <4>1 DEF StopReturns, Settle, HostTypeOK
      <4>2. CASE ~StopReturns(h)
          BY <1>2, <2>2, <3>2, <4>2
          DEF AtAwait, Ssh, Dispatch, WaitReturns, LimitExpires, GraceExpires,
              ChildExits, ChildDies, HelperExits
      <4> QED BY <4>1, <4>2
    <3>3. ~InterruptTask
        BY <1>2, <2>2 DEF InterruptTask, CtrlC, SignalTarget, Escalate
    <3>4. PICK h \in Hosts : Drained(h)
        BY <3>1, <3>2, <3>3
    <3>5. pc[h] = "draining" /\ Verdict(h) = "cancelled"
        BY <1>2, <2>2, <3>4
        DEF Drained, CopyConcluded, RunConcluded, Settle, Launched
    <3> QED BY <3>5, <1>0, VerdictOfADrainedHost
  <2> QED BY <2>1, <2>2
<1> QED BY <1>1, <1>2 DEF Blame

LEMMA BlameStands ==
    ASSUME Blame, UNCHANGED <<child, sent, status>>, stopped => stopped'
    PROVE  Blame'
BY DEF Blame

LEMMA NextKeepsBlame ==
    ASSUME TypeOK, Inv, Blame, [Next]_vars
    PROVE  Blame'
<1>1. CASE ForeignSignal
    BY <1>1 DEF Blame
<1>2. CASE Exit \/ Done \/ UNCHANGED vars
    BY <1>2, BlameStands DEF Exit, Done, vars, hostVars, interruptVars
<1> QED BY <1>1, <1>2, BlameKept DEF Next, TypeOK, Inv

\* Left to itself, rshx exits 99 only for a run that was interrupted.
THEOREM NinetyNine ==
    ~ForeignSignal => (Spec => []NinetyNineMeansInterrupted)
<1> SUFFICES ASSUME ~ForeignSignal PROVE Spec => []NinetyNineMeansInterrupted
    OBVIOUS
<1>1. Init => Blame
    BY DEF Init, Blame, NoChild, Signalled, NoStatus
<1>2. TypeOK /\ Inv /\ Blame /\ [Next]_vars => Blame'
    BY NextKeepsBlame
<1>3. TypeOK /\ Inv /\ Blame => NinetyNineMeansInterrupted
  <2> SUFFICES ASSUME TypeOK, Inv, Blame, exitCode = EXIT_INTERRUPTED
               PROVE  stopped
      BY DEF NinetyNineMeansInterrupted
  <2>1. ExitCode(Reported) = EXIT_INTERRUPTED
      BY DEF Inv, ExitCodeIsReported, Exited, NotExited, EXIT_INTERRUPTED
  <2>2. "cancelled" \in Reported
      BY <2>1
      DEF ExitCode, EXIT_INTERRUPTED, EXIT_FAILED, EXIT_UNREACHABLE, EXIT_OK
  <2> QED BY <2>2 DEF Reported, Blame
<1> QED BY <1>1, <1>2, <1>3, TypeCorrect, InvHolds, PTL DEF Spec

-----------------------------------------------------------------------------
(* Run implements RunReport: a step of Run is one step of the contract or  *)
(* leaves what the user sees alone.                                        *)

\* A limit is the only reason for a timeout, and a Host on its stop connection
\* was cut short.
CutShortStatus ==
    \A h \in Hosts :
        /\ timedOut[h] \/ status[h] = "timeout" => Limited
        /\ pc[h] = "stopping" => status[h] \in {"cancelled", "timeout"}

LEMMA VerdictWhenCutShort ==
    ASSUME NEW h \in Hosts
    PROVE  /\ CutShort(h) => Verdict(h) \in {"cancelled", "timeout"}
           /\ Verdict(h) = "timeout" => timedOut[h]
           /\ ~CutShort(h) =>
                  Verdict(h) \in {"ok", "failed", "unreachable", "cancelled"}
BY DEF CutShort, Verdict, StatusOf, from_exit_code

LEMMA CutShortStatusKept ==
    ASSUME TypeOK, Inv, CutShortStatus, [Next]_vars
    PROVE  CutShortStatus'
<1>1. ASSUME NEW h \in Hosts, Drained(h) PROVE CutShortStatus'
  <2>1. /\ CutShort(h) => Verdict(h) \in {"cancelled", "timeout"}
        /\ Verdict(h) = "timeout" => Limited
        /\ ~CutShort(h) =>
               Verdict(h) \in {"ok", "failed", "unreachable", "cancelled"}
      BY VerdictWhenCutShort DEF CutShortStatus
  <2>2. \A p \in BOOLEAN :
            ~CutShort(h) => Launched(Verdict(h), p) # "timeout"
      BY <2>1 DEF Launched
  <2> QED BY <1>1, <2>1, <2>2
          DEF Drained, CopyConcluded, RunConcluded, Settle, Goto,
              CutShortStatus, TypeOK, HostTypeOK
<1>2. ASSUME NEW h \in Hosts, SpawnFails(h) \/ LimitExpires(h) \/ StopReturns(h)
      PROVE  CutShortStatus'
    BY <1>2
    DEF SpawnFails, LimitExpires, StopReturns, Settle, Goto, CutShortStatus,
        TypeOK, HostTypeOK
<1>3. ASSUME UNCHANGED <<timedOut, status>>,
             \A h \in Hosts : pc'[h] = "stopping" => pc[h] = "stopping"
      PROVE  CutShortStatus'
    BY <1>3 DEF CutShortStatus
<1>4. ASSUME NEW h \in Hosts,
             \/ Spawn(h) \/ RegisterChild(h) \/ SignalDoomed(h)
             \/ DeregisterChild(h) \/ Dispatch(h) \/ WaitReturns(h)
             \/ GraceExpires(h) \/ Ssh(h)
      PROVE  CutShortStatus'
  <2>1. /\ UNCHANGED <<timedOut, status>>
        /\ \A g \in Hosts : pc'[g] = "stopping" => pc[g] = "stopping"
      BY <1>4
      DEF Spawn, RegisterChild, SignalDoomed, DeregisterChild, Dispatch,
          WaitReturns, GraceExpires, Ssh, ChildExits, ChildDies, HelperExits,
          Goto, TypeOK, HostTypeOK
  <2> QED BY <2>1, <1>3
<1>5. ASSUME InterruptTask \/ Exit \/ Done \/ UNCHANGED vars
      PROVE  CutShortStatus'
  <2>1. UNCHANGED <<timedOut, status, pc>>
      BY <1>5
      DEF InterruptTask, CtrlC, SignalTarget, Escalate, Exit, Done, vars,
          hostVars
  <2> QED BY <2>1, <1>3
<1> QED BY <1>1, <1>2, <1>4, <1>5 DEF Next, MidPoll, AtAwait

-----------------------------------------------------------------------------
(* The mapped variables *)

Phases == [h \in Hosts |-> Phase(h)]
Verdicts == [h \in Hosts |-> IF pc[h] = "settled" THEN status[h] ELSE NoStatus]

LEMMA MappedInit == Init => Contract!Init
BY DEF Init, InterruptInit, Contract!Init, Phase, NoStatus,
       Contract!NoVerdict, NotExited, Contract!NotExited

\* A Host that moves without leaving its phase, or another's step.
LEMMA SamePhase ==
    ASSUME UNCHANGED <<stopped, exitCode>>,
           \A h \in Hosts :
               /\ Phase(h)' = Phase(h)
               /\ pc'[h] = "settled" <=> pc[h] = "settled"
               /\ pc[h] = "settled" => status'[h] = status[h]
    PROVE  UNCHANGED Contract!vars
BY DEF Contract!vars

\* A Host in flight is reported with a verdict the contract allows.
LEMMA MappedReport ==
    ASSUME TypeOK, NEW h \in Hosts, NEW v,
           pc[h] \notin {"pending", "skipped", "settled"},
           pc' = [pc EXCEPT ![h] = "settled"],
           status' = [status EXCEPT ![h] = v],
           v \in Contract!Verdicts, Detached => v # "ok",
           UNCHANGED <<stopped, exitCode>>
    PROVE  Contract!Report(h)
<1>1. /\ Phases[h] = "inflight"
      /\ Phases' = [Phases EXCEPT ![h] = "reported"]
    BY DEF Phases, Phase, TypeOK, HostTypeOK
<1>2. Verdicts' = [Verdicts EXCEPT ![h] = v]
    BY DEF Verdicts, TypeOK, HostTypeOK
<1> QED BY <1>1, <1>2 DEF Contract!Report, Phases, Verdicts

LEMMA MappedDrained ==
    ASSUME TypeOK, Inv, Blame, CutShortStatus, NEW h \in Hosts, Drained(h)
    PROVE  Contract!Report(h) \/ UNCHANGED Contract!vars
<1>1. CASE CutShort(h) \/ pc'[h] = "starting"
  <2>1. /\ UNCHANGED <<stopped, exitCode>>
        /\ pc[h] = "draining"
        /\ pc' = [pc EXCEPT ![h] = "stopping"]
           \/ pc' = [pc EXCEPT ![h] = "starting"]
        /\ \A g \in Hosts : g # h => status'[g] = status[g]
      BY <1>1
      DEF Drained, CopyConcluded, RunConcluded, Settle, Goto, interruptVars,
          TypeOK, HostTypeOK
  <2>2. \A g \in Hosts :
            /\ Phase(g)' = Phase(g)
            /\ pc'[g] = "settled" <=> pc[g] = "settled"
            /\ pc[g] = "settled" => status'[g] = status[g]
      BY <2>1 DEF Phase, TypeOK, HostTypeOK
  <2> QED BY <2>1, <2>2, SamePhase
<1>2. CASE ~CutShort(h) /\ pc'[h] # "starting"
  <2>1. /\ Verdict(h) \in {"ok", "failed", "unreachable", "cancelled"}
        /\ Verdict(h) = "cancelled" => stopped \/ ForeignSignal
      BY <1>2, VerdictWhenCutShort, VerdictOfADrainedHost
      DEF Drained, TypeOK, Inv
  <2>2. PICK v \in {Verdict(h), "unreachable"}
                   \cup {Launched(Verdict(h), p) : p \in BOOLEAN} :
            /\ pc' = [pc EXCEPT ![h] = "settled"]
            /\ status' = [status EXCEPT ![h] = v]
            /\ Detached => v # "ok"
            /\ v = "running" => Detached
      BY <1>2, <2>1
      DEF Drained, CopyConcluded, RunConcluded, Settle, Goto, Launched, TypeOK, HostTypeOK
  <2>3. v \in Contract!Verdicts
      BY <2>1, <2>2 DEF Contract!Verdicts, Launched
  <2> QED BY <1>2, <2>2, <2>3, MappedReport DEF Drained, interruptVars
<1> QED BY <1>1, <1>2

\* A Host in the middle of its ssh, or an ssh, moves: the user sees nothing.
LEMMA MappedInternal ==
    ASSUME TypeOK, Inv, NEW h \in Hosts,
           \/ Spawn(h) \/ RegisterChild(h) \/ SignalDoomed(h)
           \/ DeregisterChild(h) \/ WaitReturns(h) \/ LimitExpires(h)
           \/ GraceExpires(h) \/ Ssh(h)
    PROVE  UNCHANGED Contract!vars
<1>1. UNCHANGED <<stopped, exitCode, status>>
    BY DEF Spawn, RegisterChild, Register, SignalDoomed, DeregisterChild,
        Deregister, WaitReturns, LimitExpires, GraceExpires, Ssh, ChildExits,
        ChildDies, HelperExits, interruptVars
<1>2. \/ UNCHANGED pc
      \/ \E to \in PcStates \ {"pending", "skipped", "settled"} :
             /\ pc[h] \notin {"pending", "skipped", "settled"}
             /\ pc' = [pc EXCEPT ![h] = to]
    BY DEF Spawn, RegisterChild, SignalDoomed, DeregisterChild, WaitReturns,
        LimitExpires, GraceExpires, Ssh, ChildExits, ChildDies, HelperExits,
        Goto, PcStates
<1>3. \A g \in Hosts :
          Phase(g)' = Phase(g) /\ (pc'[g] = "settled" <=> pc[g] = "settled")
    BY <1>2 DEF Phase, TypeOK, HostTypeOK, PcStates
<1> QED BY <1>1, <1>3, SamePhase

LEMMA MappedDispatch ==
    ASSUME TypeOK, NEW h \in Hosts, Dispatch(h)
    PROVE  Contract!Start(h) \/ Contract!LeaveOut(h)
<1>1. /\ Phases[h] = "waiting"
      /\ UNCHANGED <<stopped, exitCode>>
      /\ Verdicts' = Verdicts
    BY DEF Dispatch, Goto, Phases, Phase, Verdicts, TypeOK, HostTypeOK, interruptVars
<1>2. CASE stopped
  <2>1. Phases' = [Phases EXCEPT ![h] = "leftOut"]
      BY <1>2 DEF Dispatch, Goto, Phases, Phase, TypeOK, HostTypeOK
  <2> QED BY <1>1, <1>2, <2>1 DEF Contract!LeaveOut, Phases, Verdicts
<1>3. CASE ~stopped
  <2>1. Phases' = [Phases EXCEPT ![h] = "inflight"]
      BY <1>3 DEF Dispatch, Goto, Phases, Phase, TypeOK, HostTypeOK
  <2> QED BY <1>1, <1>3, <2>1 DEF Contract!Start, Phases, Verdicts
<1> QED BY <1>2, <1>3

LEMMA MappedExit ==
    ASSUME TypeOK, Inv, Exit
    PROVE  Contract!Finish
<1>1. \A h \in Hosts :
          /\ Phases[h] \in {"reported", "leftOut"}
          /\ Phases[h] = "reported" <=> pc[h] = "settled"
    BY DEF Exit, Phases, Phase
<1>2. Reported = {Verdicts[h] : h \in {g \in Hosts : Phases[g] = "reported"}}
    BY <1>1 DEF Reported, Verdicts
<1>3. UNCHANGED <<stopped, Phases, Verdicts>>
    BY DEF Exit, Phases, Phase, Verdicts, interruptVars
<1>4. Contract!ExitCode(Reported) = ExitCode(Reported)
    BY DEF ExitCode, EXIT_OK, EXIT_FAILED, EXIT_UNREACHABLE, EXIT_INTERRUPTED,
        Contract!ExitCode, Contract!EXIT_OK, Contract!EXIT_FAILED,
        Contract!EXIT_UNREACHABLE, Contract!EXIT_INTERRUPTED
<1> QED BY <1>1, <1>2, <1>3, <1>4
        DEF Exit, Exited, Contract!Finish, Contract!NotExited, NotExited,
            Phases, Verdicts

\* Every step of Run is a step of the contract or a stutter.
LEMMA MappedNext ==
    ASSUME TypeOK, Inv, Blame, CutShortStatus, [Next]_vars
    PROVE  [Contract!Next]_(Contract!vars)
<1>1. ASSUME NEW h \in Hosts, SpawnFails(h) PROVE Contract!Report(h)
  <2>1. pc[h] \notin {"pending", "skipped", "settled"}
      BY <1>1 DEF SpawnFails
  <2> QED BY <1>1, <2>1, MappedReport
          DEF SpawnFails, Settle, Goto, interruptVars, Contract!Verdicts
<1>2. ASSUME NEW h \in Hosts, StopReturns(h) PROVE Contract!Report(h)
  <2>1. /\ status[h] \in {"cancelled", "timeout"}
        /\ status[h] = "timeout" => Limited
        /\ status[h] = "cancelled" => stopped \/ ForeignSignal
      BY <1>2 DEF StopReturns, CutShortStatus, Blame
  <2>2. status[h] \in Contract!Verdicts
      BY <2>1 DEF Contract!Verdicts
  <2>3. pc[h] \notin {"pending", "skipped", "settled"}
      BY <1>2 DEF StopReturns
  <2> QED BY <1>2, <2>1, <2>2, <2>3, MappedReport
          DEF StopReturns, Settle, Goto, interruptVars
<1>3. ASSUME NEW h \in Hosts, MidPoll(h) \/ AtAwait(h) \/ Ssh(h)
      PROVE  [Contract!Next]_(Contract!vars)
    BY <1>1, <1>2, <1>3, MappedInternal, MappedDispatch, MappedDrained
    DEF MidPoll, AtAwait, Contract!Next
<1>4. ASSUME CtrlC PROVE Contract!Interrupt
    BY <1>4 DEF CtrlC, Begin, hostVars, Contract!Interrupt, Exited, NotExited,
        Contract!NotExited, Phase
<1>5. ASSUME \/ \E h \in Hosts, s \in Steps : SignalTarget(h, s)
             \/ Escalate \/ Done \/ UNCHANGED vars
      PROVE  UNCHANGED Contract!vars
  <2>1. UNCHANGED <<stopped, exitCode, pc, status>>
      BY <1>5
      DEF SignalTarget, TargetSignalled, Escalate, EscalateBegins, GraceEnds,
          AllGone, EscalateReturns, Done, vars, hostVars, interruptVars
  <2> QED BY <2>1, SamePhase DEF Phase
<1> QED BY <1>3, <1>4, <1>5, MappedExit DEF Next, InterruptTask, Contract!Next

\* Run keeps the contract of RunReport: one start, one final report and one
\* exit code, whatever the ssh children, the limits and the interrupt do.
THEOREM RunKeepsTheContract == Spec => ImplementsRunReport
<1>1. Init => Blame /\ CutShortStatus
    BY DEF Init, Blame, CutShortStatus, NoChild, Signalled, NoStatus
<1>2. TypeOK /\ Inv /\ Blame /\ [Next]_vars => Blame'
    BY NextKeepsBlame
<1>3. TypeOK /\ Inv /\ CutShortStatus /\ [Next]_vars => CutShortStatus'
    BY CutShortStatusKept
<1>4. TypeOK /\ Inv /\ Blame /\ CutShortStatus /\ [Next]_vars =>
          [Contract!Next]_(Contract!vars)
    BY MappedNext
<1> QED BY <1>1, <1>2, <1>3, <1>4, MappedInit, TypeCorrect, InvHolds, PTL
        DEF Spec, ImplementsRunReport, Contract!Spec
=============================================================================

------------------------ MODULE PrivilegedRunProofs ------------------------
(***************************************************************************)
(* Theorems about PrivilegedRun, for every set of Hosts, every choice of   *)
(* marked Hosts and any number of tries and of passwords.  A step of a     *)
(* Host, of its ssh or of the interrupt is one of Run, whose lemmas say    *)
(* what it does to the Hosts' records; what is new is where an ask is, and *)
(* which password is where.  At the end: every such step is one of Run, or *)
(* one that a run does not see.                                            *)
(***************************************************************************)
EXTENDS PrivilegedRun, RunProofs

NotAHost == Nobody \notin Hosts /\ Terminal \notin Hosts /\ Terminal # Nobody

LEMMA TerminalIsNoHost == NotAHost
BY RunAssumption, PrivilegeAssumption DEF NotAHost

-----------------------------------------------------------------------------
(* The ask channel, a sequence of Hosts *)

LEMMA WaitersAreHosts ==
    ASSUME queue \in Seq(Hosts)
    PROVE  /\ Waiters \subseteq Hosts
           /\ \A i \in DOMAIN queue : queue[i] \in Waiters
           /\ \A h \in Waiters : \E i \in DOMAIN queue : queue[i] = h
BY DEF Waiters, Range

LEMMA WaitersOfAppend ==
    ASSUME queue \in Seq(Hosts), NEW h \in Hosts, queue' = Append(queue, h)
    PROVE  /\ queue' \in Seq(Hosts)
           /\ Waiters' = Waiters \cup {h}
<1>1. /\ queue' \in Seq(Hosts)
      /\ DOMAIN queue = 1..Len(queue)
      /\ DOMAIN queue' = 1..(Len(queue) + 1)
      /\ Len(queue) \in Nat
      /\ queue'[Len(queue) + 1] = h
      /\ \A i \in 1..Len(queue) : queue'[i] = queue[i]
    OBVIOUS
<1>2. Waiters' \subseteq Waiters \cup {h}
    BY <1>1 DEF Waiters, Range
<1>3. Waiters \subseteq Waiters'
    BY <1>1 DEF Waiters, Range
<1>4. h \in Waiters'
    BY <1>1 DEF Waiters, Range
<1> QED BY <1>1, <1>2, <1>3, <1>4

LEMMA WaitersOfTail ==
    ASSUME queue \in Seq(Hosts), queue # << >>, queue' = Tail(queue),
           \A i, j \in DOMAIN queue : queue[i] = queue[j] => i = j
    PROVE  /\ queue' \in Seq(Hosts)
           /\ Head(queue) \in Waiters
           /\ Waiters' \subseteq Waiters \ {Head(queue)}
           /\ \A i, j \in DOMAIN queue' : queue'[i] = queue'[j] => i = j
<1>1. /\ queue' \in Seq(Hosts)
      /\ Head(queue) = queue[1]
      /\ DOMAIN queue = 1..Len(queue)
      /\ Len(queue) \in Nat \ {0}
      /\ DOMAIN queue' = 1..(Len(queue) - 1)
      /\ \A i \in DOMAIN queue' : queue'[i] = queue[i + 1]
    OBVIOUS
<1>2. Head(queue) \in Waiters
    BY <1>1 DEF Waiters, Range
<1>3. \A i \in DOMAIN queue' :
          i + 1 \in DOMAIN queue /\ queue'[i] = queue[i + 1] /\ i + 1 # 1
    BY <1>1
<1>4. Waiters' \subseteq Waiters \ {Head(queue)}
    BY <1>1, <1>3 DEF Waiters, Range
<1>5. \A i, j \in DOMAIN queue' : queue'[i] = queue'[j] => i = j
  <2> SUFFICES ASSUME NEW i \in DOMAIN queue', NEW j \in DOMAIN queue',
                      queue'[i] = queue'[j]
               PROVE  i = j
      OBVIOUS
  <2>1. i + 1 = j + 1
      BY <1>3
  <2> QED BY <2>1, <1>1
<1> QED BY <1>1, <1>2, <1>4, <1>5

-----------------------------------------------------------------------------
(* What each step of PrivilegedNext is to a run *)

\* Every step of a Host's future, of its ssh and of the interrupt.
RunStep ==
    \/ InterruptTask
    \/ \E h \in Hosts : MidPoll(h) \/ AtAwait(h) \/ Ssh(h)

\* Those that --privilege leaves as they are.
PlainStep ==
    \/ InterruptTask
    \/ \E h \in Hosts :
           \/ Dispatch(h) \/ Spawn(h) \/ SpawnFails(h) \/ LimitExpires(h)
           \/ WaitReturns(h) \/ DeregisterChild(h)
           \/ GraceExpires(h) \/ StopReturns(h)
           \/ Ssh(h)

\* Everything the Hosts and the interrupt know, but for what the main task is
\* doing.
HostsStill == UNCHANGED <<hostsAndRun, interruptVars>>

LEMMA PlainStepIsOfTheRun == PlainStep => RunStep
BY DEF PlainStep, RunStep, MidPoll, AtAwait

LEMMA FutureIsOfTheRun ==
    ASSUME NEW h \in Hosts, Future(h)
    PROVE  \/ PlainStep /\ UNCHANGED privilegeVars
           \/ RegisterWithReader(h)
           \/ DrainedWithReader(h)
BY DEF Future, LimitExpiresOnOwnTime, Unprivileged, PlainStep

\* The steps of PrivilegedNext, told apart by what of --privilege they change.
LEMMA KindsOfSteps ==
    ASSUME [PrivilegedNext]_allVars
    PROVE  \/ PlainStep /\ UNCHANGED privilegeVars
           \/ \E h \in Hosts :
                  \/ RegisterWithReader(h) \/ DrainedWithReader(h)
                  \/ SudoAsks(h) \/ SudoReads(h)
                  \/ ReaderAsks(h) \/ ReaderAnswered(h)
                  \/ GiveUntried(h) \/ UserTypes(h) \/ UserGivesUp(h)
           \/ TakeRequest
           \/ PrivilegedExit
           \/ FatalExit
           \/ UNCHANGED allVars
BY FutureIsOfTheRun
   DEF PrivilegedNext, Reader, MainAsks, User, PlainStep

-----------------------------------------------------------------------------
(* Types *)

LEMMA PrivilegedInitType == PrivilegedInit => PrivilegeTypeOK
<1> SUFFICES ASSUME PrivilegedInit PROVE PrivilegeTypeOK
    OBVIOUS
<1>1. HostTypeOK /\ busy = Nobody /\ exitCode = NotExited
    BY InitType DEF PrivilegedInit, Init
<1>2. queue \in Seq(Hosts)
    BY DEF PrivilegedInit
<1>3. NoPassword \in 0..MaxTyped
    BY PrivilegeAssumption DEF NoPassword
<1> QED BY <1>1, <1>2, <1>3, PrivilegeAssumption
        DEF PrivilegedInit, PrivilegeTypeOK, NoPassword

LEMMA RunStepType ==
    ASSUME PrivilegeTypeOK, RunStep
    PROVE  /\ HostTypeOK'
           /\ busy' \in Hosts \cup {Nobody, Terminal}
           /\ UNCHANGED exitCode
BY HostStepType, InterruptStepType DEF RunStep, PrivilegeTypeOK

LEMMA HostsStillType ==
    ASSUME HostTypeOK, HostsStill
    PROVE  HostTypeOK' /\ UNCHANGED exitCode
BY DEF HostsStill, hostsAndRun, interruptVars, HostTypeOK, InterruptTypeOK

LEMMA PrivilegedNextType ==
    ASSUME PrivilegeTypeOK, [PrivilegedNext]_allVars
    PROVE  PrivilegeTypeOK'
<1> USE DEF privilegeVars, askVars, passwordVars
<1>1. ASSUME NEW h \in Hosts, RegisterWithReader(h) \/ DrainedWithReader(h)
      PROVE  PrivilegeTypeOK'
  <2>1. RunStep
      BY <1>1 DEF RegisterWithReader, DrainedWithReader, RunStep, MidPoll, AtAwait
  <2> QED BY <1>1, <2>1, RunStepType
          DEF RegisterWithReader, DrainedWithReader, ReaderSpawned,
              PrivilegeTypeOK
<1>2. CASE PlainStep /\ UNCHANGED privilegeVars
    BY <1>2, RunStepType, PlainStepIsOfTheRun DEF PrivilegeTypeOK
<1>3. ASSUME NEW h \in Hosts,
             SudoAsks(h) \/ SudoReads(h) \/ ReaderAnswered(h)
      PROVE  PrivilegeTypeOK'
  <2>1. HostsStill /\ UNCHANGED busy
      BY <1>3 DEF SudoAsks, SudoReads, ReaderAnswered, vars, hostVars,
                  hostsAndRun, HostsStill
  <2>2. HostTypeOK' /\ UNCHANGED <<busy, exitCode>>
      BY <2>1, HostsStillType DEF PrivilegeTypeOK
  <2>3. CASE SudoAsks(h) \/ SudoReads(h)
      BY <2>2, <2>3 DEF SudoAsks, SudoReads, PrivilegeTypeOK
  <2>4. CASE ReaderAnswered(h)
    <3>1. answer[h] # Refused => answer[h] \in 1..MaxTyped
        BY <2>4 DEF ReaderAnswered, PrivilegeTypeOK
    <3>2. written' \in [Hosts -> SUBSET (1..MaxTyped)]
      <4>1. /\ written \in [Hosts -> SUBSET (1..MaxTyped)]
            /\ \/ UNCHANGED written
               \/ /\ answer[h] # Refused
                  /\ written' = [written EXCEPT ![h] = @ \cup {answer[h]}]
          BY <2>4 DEF ReaderAnswered, PrivilegeTypeOK
      <4>2. answer[h] # Refused =>
                written[h] \cup {answer[h]} \in SUBSET (1..MaxTyped)
          BY <3>1, <4>1, Zenon
      <4> QED BY <4>1, <4>2, Zenon
    <3>3. /\ answer' \in [Hosts -> {Unanswered, Refused} \cup (1..MaxTyped)]
          /\ reader' \in [Hosts -> {"off", "reading", "asking", "deaf"}]
          /\ sudo' \in [Hosts -> {"quiet", "marker", "blocked", "line", "done"}]
        BY <2>4 DEF ReaderAnswered, PrivilegeTypeOK
    <3> QED BY <2>2, <2>4, <3>2, <3>3 DEF ReaderAnswered, PrivilegeTypeOK
  <2> QED BY <1>3, <2>3, <2>4
<1>4. ASSUME NEW h \in Hosts, ReaderAsks(h)
      PROVE  PrivilegeTypeOK'
  <2>1. HostsStill /\ UNCHANGED busy
      BY <1>4 DEF ReaderAsks, vars, hostVars, hostsAndRun, HostsStill
  <2>2. queue \in Seq(Hosts)
      BY DEF PrivilegeTypeOK
  <2>3. queue' \in Seq(Hosts)
      BY <1>4, <2>2, WaitersOfAppend DEF ReaderAsks
  <2>4. HostTypeOK' /\ UNCHANGED <<busy, exitCode>>
      BY <2>1, HostsStillType DEF PrivilegeTypeOK
  <2> QED BY <1>4, <2>3, <2>4 DEF ReaderAsks, PrivilegeTypeOK
<1>5. CASE TakeRequest
  <2>1. HostsStill
      BY <1>5 DEF TakeRequest, HostsStill
  <2>2. Head(queue) \in Hosts /\ Tail(queue) \in Seq(Hosts)
      BY <1>5 DEF TakeRequest, PrivilegeTypeOK
  <2>3. HostTypeOK' /\ UNCHANGED exitCode
      BY <2>1, HostsStillType DEF PrivilegeTypeOK
  <2>4. << >> \in Seq(Hosts)
      OBVIOUS
  <2> QED BY <1>5, <2>2, <2>3, <2>4
          DEF TakeRequest, ReleaseEverybody, PrivilegeTypeOK
<1>6. ASSUME NEW h \in Hosts, GiveUntried(h)
      PROVE  PrivilegeTypeOK'
  <2>1. shared \in 1..MaxTyped
      BY <1>6, PrivilegeAssumption
      DEF GiveUntried, Untried, NoPassword, PrivilegeTypeOK
  <2>2. HostTypeOK' /\ UNCHANGED exitCode
      BY <1>6, HostsStillType DEF GiveUntried, HostsStill, PrivilegeTypeOK
  <2> QED BY <1>6, <2>1, <2>2 DEF GiveUntried, Answered, PrivilegeTypeOK
<1>7. ASSUME NEW h \in Hosts, UserTypes(h)
      PROVE  PrivilegeTypeOK'
  <2>1. typed + 1 \in 1..MaxTyped /\ typed + 1 \in 0..MaxTyped
      BY <1>7, PrivilegeAssumption DEF UserTypes, PrivilegeTypeOK
  <2>2. HostTypeOK' /\ UNCHANGED exitCode
      BY <1>7, HostsStillType DEF UserTypes, HostsStill, PrivilegeTypeOK
  <2>3. /\ shared' \in 0..MaxTyped
        /\ given' \subseteq Hosts
        /\ unique' \in [Hosts -> 0..MaxTyped]
    <3>1. CASE h \in Unique
        BY <1>7, <2>1, <3>1 DEF UserTypes, Remember, PrivilegeTypeOK
    <3>2. CASE h \notin Unique
        BY <1>7, <2>1, <3>2 DEF UserTypes, Remember, PrivilegeTypeOK
    <3> QED BY <3>1, <3>2
  <2>4. /\ typed' \in 0..MaxTyped
        /\ answer' \in [Hosts -> {Unanswered, Refused} \cup (1..MaxTyped)]
      BY <1>7, <2>1 DEF UserTypes, Answered, PrivilegeTypeOK
  <2> QED BY <1>7, <2>2, <2>3, <2>4 DEF UserTypes, Answered, PrivilegeTypeOK
<1>8. ASSUME NEW h \in Hosts, UserGivesUp(h)
      PROVE  PrivilegeTypeOK'
  <2>1. HostTypeOK' /\ UNCHANGED exitCode
      BY <1>8, BeginType
      DEF UserGivesUp, StopForPrompt, Trigger, hostsAndRun, interruptVars,
          HostTypeOK, InterruptTypeOK, PrivilegeTypeOK
  <2>2. << >> \in Seq(Hosts)
      OBVIOUS
  <2> QED BY <1>8, <2>1, <2>2 DEF UserGivesUp, ReleaseEverybody, PrivilegeTypeOK
<1>9. CASE PrivilegedExit \/ FatalExit
  <2>1. /\ HostTypeOK'
        /\ UNCHANGED busy
        /\ exitCode' \in {EXIT_LOCAL} \cup ExitCodes
      BY <1>9, ExitCodeType
      DEF PrivilegedExit, FatalExit, Exit, PrivilegeTypeOK, HostTypeOK,
          InterruptTypeOK, interruptVars
  <2> QED BY <1>9, <2>1 DEF PrivilegedExit, FatalExit, PrivilegeTypeOK
<1>10. CASE UNCHANGED allVars
    BY <1>10
    DEF allVars, vars, hostVars, interruptVars, PrivilegeTypeOK, HostTypeOK,
        InterruptTypeOK
<1> QED BY <1>1, <1>2, <1>3, <1>4, <1>5, <1>6, <1>7, <1>8, <1>9, <1>10,
           KindsOfSteps

\* Every variable keeps to its values; a password is only ever a number that was
\* typed.
THEOREM PrivilegeTypeCorrect == PrivilegedSpec => []PrivilegeTypeOK
BY PrivilegedInitType, PrivilegedNextType, PTL DEF PrivilegedSpec

-----------------------------------------------------------------------------
(* The Hosts' records *)

LEMMA PrivilegedHostsInv ==
    ASSUME PrivilegeTypeOK, PrivilegedInv, [PrivilegedNext]_allVars
    PROVE  HostsInv'
<1>0. HostTypeOK /\ HostsInv /\ NotAHost
    BY TerminalIsNoHost DEF PrivilegeTypeOK, PrivilegedInv
<1>1. CASE RunStep
    BY <1>0, <1>1, HostStepKeepsInv, InterruptStepKeepsInv DEF RunStep
<1>2. ASSUME HostsStill, \A h \in Hosts : busy' = h <=> busy = h
      PROVE  HostsInv'
    BY <1>0, <1>2, ExitKeepsInv
    DEF HostsStill, hostsAndRun, HostsInv, ExitIsTheEnd, Exited
<1>3. ASSUME NEW h \in Hosts,
             \/ SudoAsks(h) \/ SudoReads(h) \/ ReaderAsks(h)
             \/ ReaderAnswered(h)
      PROVE  HostsStill /\ UNCHANGED busy
    BY <1>3
    DEF SudoAsks, SudoReads, ReaderAsks, ReaderAnswered, vars, hostVars,
        hostsAndRun, HostsStill
<1>4. ASSUME NEW h \in Hosts, GiveUntried(h) \/ UserTypes(h)
      PROVE  HostsStill /\ busy = Terminal /\ busy' = Nobody
  <2>1. HostsStill /\ serving = h /\ busy' = Nobody
      BY <1>4 DEF GiveUntried, UserTypes, PromptIsUp, Answered, HostsStill
  <2> QED BY <1>0, <2>1 DEF PrivilegedInv, TerminalServes, NotAHost
<1>5. ASSUME NEW h \in Hosts, UserGivesUp(h)
      PROVE  HostsInv'
  <2>1. busy = Terminal /\ busy' = Nobody /\ UNCHANGED hostsAndRun
      BY <1>0, <1>5
      DEF UserGivesUp, PromptIsUp, PrivilegedInv, TerminalServes, NotAHost
  <2>2. CASE Begin
      BY <1>0, <2>1, <2>2, BeginKeepsInv DEF hostsAndRun, NotAHost
  <2>3. CASE UNCHANGED interruptVars
      BY <1>0, <1>2, <2>1, <2>3 DEF HostsStill, NotAHost
  <2> QED BY <1>5, <2>2, <2>3 DEF UserGivesUp, StopForPrompt, Trigger
<1>6. CASE TakeRequest
    BY <1>0, <1>2, <1>6 DEF TakeRequest, HostsStill, NotAHost
<1>7. CASE PrivilegedExit \/ FatalExit
    BY <1>0, <1>7, ExitKeepsInv
    DEF PrivilegedExit, FatalExit, Exit, EndStates
<1>8. CASE UNCHANGED allVars
    BY <1>2, <1>8 DEF allVars, vars, hostVars, HostsStill, hostsAndRun
<1>9. ASSUME NEW h \in Hosts, RegisterWithReader(h) \/ DrainedWithReader(h)
      PROVE  RunStep
    BY <1>9 DEF RegisterWithReader, DrainedWithReader, RunStep, MidPoll, AtAwait
<1> QED BY <1>0, <1>1, <1>2, <1>3, <1>4, <1>5, <1>6, <1>7, <1>8, <1>9,
           KindsOfSteps, PlainStepIsOfTheRun DEF NotAHost

-----------------------------------------------------------------------------
(* What no step of a run takes back *)

\* The interrupt and its kills stay on record, an ssh comes alive only for a
\* Host that is being started, and a Host is never before its reader again.
NothingUndone ==
    /\ stopped => stopped'
    /\ killed \subseteq killed'
    /\ \A g \in Hosts :
           /\ child'[g] = Alive => child[g] = Alive \/ pc[g] = "starting"
           /\ BeforeReader(g)' => BeforeReader(g)

LEMMA RunStepUndoesNothing ==
    ASSUME HostTypeOK, RunStep
    PROVE  NothingUndone
<1> USE DEF HostTypeOK, InterruptTypeOK, interruptVars, hostVars,
            NothingUndone, BeforeReader
<1>1. ASSUME NEW h \in Hosts, MidPoll(h) PROVE NothingUndone
  <2>1. CASE Spawn(h)
      BY <2>1 DEF Spawn, Goto
  <2>2. CASE SpawnFails(h)
      BY <2>2 DEF SpawnFails, Settle, Goto
  <2>3. CASE RegisterChild(h)
      BY <2>3 DEF RegisterChild, Register, Goto
  <2>4. CASE SignalDoomed(h)
      BY <2>4 DEF SignalDoomed, Goto
  <2>5. CASE DeregisterChild(h)
      BY <2>5 DEF DeregisterChild, Deregister, Goto
  <2> QED BY <1>1, <2>1, <2>2, <2>3, <2>4, <2>5 DEF MidPoll
<1>2. ASSUME NEW h \in Hosts, AtAwait(h) PROVE NothingUndone
  <2>1. CASE Drained(h)
      BY <2>1 DEF Drained, CopyConcluded, RunConcluded, Settle, Goto, NoChild,
                  Alive
  <2>2. CASE Dispatch(h) \/ WaitReturns(h) \/ StopReturns(h)
      BY <2>2 DEF Dispatch, WaitReturns, StopReturns, Settle, Goto
  <2>3. CASE LimitExpires(h) \/ GraceExpires(h)
      BY <2>3 DEF LimitExpires, GraceExpires, Goto
  <2> QED BY <1>2, <2>1, <2>2, <2>3 DEF AtAwait
<1>3. ASSUME NEW h \in Hosts, Ssh(h) PROVE NothingUndone
    BY <1>3 DEF Ssh, ChildExits, ChildDies, HelperExits
<1>4. CASE InterruptTask
    BY <1>4
    DEF InterruptTask, CtrlC, Begin, SignalTarget, TargetSignalled, Escalate,
        EscalateBegins, GraceEnds, AllGone, EscalateReturns
<1> QED BY <1>1, <1>2, <1>3, <1>4 DEF RunStep

LEMMA NothingIsUndone ==
    ASSUME PrivilegeTypeOK, [PrivilegedNext]_allVars
    PROVE  NothingUndone
<1>1. ASSUME UNCHANGED <<pc, step, child>>,
             UNCHANGED interruptVars \/ Begin
      PROVE  NothingUndone
    BY <1>1 DEF NothingUndone, BeforeReader, interruptVars, Begin
<1>2. CASE RunStep
    BY <1>2, RunStepUndoesNothing DEF PrivilegeTypeOK
<1>3. ASSUME NEW h \in Hosts, RegisterWithReader(h) \/ DrainedWithReader(h)
      PROVE  RunStep
    BY <1>3
    DEF RegisterWithReader, DrainedWithReader, RunStep, MidPoll, AtAwait
<1>4. ASSUME NEW h \in Hosts,
             SudoAsks(h) \/ SudoReads(h) \/ ReaderAsks(h) \/ ReaderAnswered(h)
      PROVE  UNCHANGED <<pc, step, child, interruptVars>>
    BY <1>4
    DEF SudoAsks, SudoReads, ReaderAsks, ReaderAnswered, vars, hostVars
<1>5. ASSUME NEW h \in Hosts, GiveUntried(h) \/ UserTypes(h) \/ UserGivesUp(h)
      PROVE  /\ UNCHANGED <<pc, step, child>>
             /\ UNCHANGED interruptVars \/ Begin
    BY <1>5
    DEF GiveUntried, UserTypes, UserGivesUp, StopForPrompt, Trigger, hostsAndRun
<1>6. ASSUME TakeRequest \/ PrivilegedExit \/ FatalExit \/ UNCHANGED allVars
      PROVE  UNCHANGED <<pc, step, child, interruptVars>>
    BY <1>6
    DEF TakeRequest, PrivilegedExit, FatalExit, Exit, allVars, vars, hostVars,
        hostsAndRun
<1> QED BY <1>1, <1>2, <1>3, <1>4, <1>5, <1>6, KindsOfSteps,
           PlainStepIsOfTheRun

-----------------------------------------------------------------------------
(* Where the readers and the asks are *)

\* The ssh of a command stays where a reader and a sudo may be until it is
\* drained.
LEMMA PlainStepInPlace ==
    ASSUME PrivilegeTypeOK, ReaderIsInPlace, PlainStep, UNCHANGED privilegeVars
    PROVE  ReaderIsInPlace'
<1> USE DEF PrivilegeTypeOK, HostTypeOK, ReaderIsInPlace, WaitStates,
            privilegeVars
<1>1. ASSUME NEW h \in Hosts, Dispatch(h) \/ Spawn(h) \/ SpawnFails(h)
      PROVE  ReaderIsInPlace'
    BY <1>1 DEF Dispatch, Spawn, SpawnFails, Settle, Goto
<1>2. ASSUME NEW h \in Hosts, LimitExpires(h) \/ GraceExpires(h)
      PROVE  ReaderIsInPlace'
    BY <1>2 DEF LimitExpires, GraceExpires, Goto
<1>3. ASSUME NEW h \in Hosts,
             WaitReturns(h) \/ DeregisterChild(h) \/ StopReturns(h)
      PROVE  ReaderIsInPlace'
    BY <1>3 DEF WaitReturns, DeregisterChild, StopReturns, Settle, Goto
<1>4. ASSUME InterruptTask \/ \E h \in Hosts : Ssh(h)
      PROVE  ReaderIsInPlace'
  <2>1. UNCHANGED <<pc, step>>
      BY <1>4
      DEF InterruptTask, CtrlC, SignalTarget, Escalate, hostVars, Ssh,
          ChildExits, ChildDies, HelperExits
  <2> QED BY <2>1
<1> QED BY <1>1, <1>2, <1>3, <1>4 DEF PlainStep

LEMMA ReaderIsInPlaceKept ==
    ASSUME PrivilegeTypeOK, PrivilegedInv, [PrivilegedNext]_allVars
    PROVE  ReaderIsInPlace'
<1> USE DEF PrivilegeTypeOK, HostTypeOK, WaitStates
<1>0. /\ ReaderIsInPlace
      /\ AliveUntilReaped
    BY DEF PrivilegedInv, HostsInv
<1>1. ASSUME NEW h \in Hosts, RegisterWithReader(h)
      PROVE  ReaderIsInPlace'
    BY <1>0, <1>1
    DEF RegisterWithReader, ReaderSpawned, RegisterChild, SignalDoomed, Goto,
        ReaderIsInPlace
<1>2. ASSUME NEW h \in Hosts, DrainedWithReader(h)
      PROVE  ReaderIsInPlace'
  <2>1. \A g \in Hosts \ {h} : pc'[g] = pc[g] /\ step'[g] = step[g]
      BY <1>2 DEF DrainedWithReader, Drained, CopyConcluded, RunConcluded,
                  Settle, Goto
  <2> QED BY <1>0, <1>2, <2>1 DEF DrainedWithReader, ReaderIsInPlace
<1>3. ASSUME NEW h \in Hosts, SudoAsks(h)
      PROVE  ReaderIsInPlace'
    BY <1>0, <1>3
    DEF SudoAsks, vars, hostVars, ReaderIsInPlace, AliveUntilReaped
<1>4. ASSUME NEW h \in Hosts, SudoReads(h) \/ ReaderAsks(h)
      PROVE  ReaderIsInPlace'
    BY <1>0, <1>4 DEF SudoReads, ReaderAsks, vars, hostVars, ReaderIsInPlace
<1>5. ASSUME NEW h \in Hosts, ReaderAnswered(h)
      PROVE  ReaderIsInPlace'
    BY <1>0, <1>5 DEF ReaderAnswered, Asking, vars, hostVars, ReaderIsInPlace
<1>6. ASSUME UNCHANGED <<pc, step, reader, sudo>>
      PROVE  ReaderIsInPlace'
    BY <1>0, <1>6 DEF ReaderIsInPlace
<1>7. ASSUME NEW h \in Hosts, GiveUntried(h) \/ UserTypes(h) \/ UserGivesUp(h)
      PROVE  UNCHANGED <<pc, step, reader, sudo>>
    BY <1>7 DEF GiveUntried, UserTypes, UserGivesUp, hostsAndRun
<1>8. ASSUME TakeRequest \/ PrivilegedExit \/ FatalExit \/ UNCHANGED allVars
      PROVE  UNCHANGED <<pc, step, reader, sudo>>
    BY <1>8
    DEF TakeRequest, PrivilegedExit, FatalExit, Exit, hostsAndRun, allVars,
        vars, hostVars, privilegeVars
<1> QED BY <1>0, <1>1, <1>2, <1>3, <1>4, <1>5, <1>6, <1>7, <1>8,
           PlainStepInPlace, KindsOfSteps

LEMMA AsksAreSomewhereKept ==
    ASSUME PrivilegeTypeOK, PrivilegedInv, [PrivilegedNext]_allVars
    PROVE  AsksAreSomewhere'
<1> USE DEF PrivilegeTypeOK, AsksAreSomewhere, Asking
<1>0. /\ AsksAreSomewhere
      /\ ReaderIsInPlace
      /\ NotAHost
    BY TerminalIsNoHost DEF PrivilegedInv
<1>1. ASSUME UNCHANGED askVars, \A h \in Hosts : Asking(h)' <=> Asking(h)
      PROVE  AsksAreSomewhere'
    BY <1>0, <1>1, WaitersAreHosts DEF askVars, Waiters
<1>2. ASSUME NEW h \in Hosts, RegisterWithReader(h)
      PROVE  AsksAreSomewhere'
  <2>1. reader[h] = "off"
      BY <1>0, <1>2
      DEF RegisterWithReader, RegisterChild, SignalDoomed, ReaderIsInPlace,
          WaitStates
  <2> QED BY <1>1, <1>2, <2>1 DEF RegisterWithReader, ReaderSpawned
<1>3. ASSUME NEW h \in Hosts, DrainedWithReader(h)
      PROVE  AsksAreSomewhere'
    BY <1>1, <1>3 DEF DrainedWithReader, ReaderEnded
<1>4. ASSUME NEW h \in Hosts, ReaderAsks(h)
      PROVE  AsksAreSomewhere'
  <2>1. CASE asks
    <3>1. /\ queue' = Append(queue, h)
          /\ reader' = [reader EXCEPT ![h] = "asking"]
          /\ UNCHANGED <<answer, serving>>
        BY <1>4, <2>1 DEF ReaderAsks
    <3>2. h \notin Waiters /\ serving # h /\ answer[h] = Unanswered
        BY <1>0, <1>4, WaitersAreHosts DEF ReaderAsks
    <3>3. Waiters' = Waiters \cup {h}
        BY <3>1, WaitersOfAppend
    <3>4. \A i, j \in DOMAIN queue' : queue'[i] = queue'[j] => i = j
      <4>1. /\ Len(queue) \in Nat
            /\ DOMAIN queue = 1..Len(queue)
            /\ DOMAIN queue' = 1..(Len(queue) + 1)
            /\ queue'[Len(queue) + 1] = h
            /\ \A i \in DOMAIN queue : queue'[i] = queue[i] /\ queue[i] # h
          BY <3>1, <3>2, WaitersAreHosts
      <4>2. \A i, j \in DOMAIN queue : queue[i] = queue[j] => i = j
          BY <1>0
      <4> HIDE DEF AsksAreSomewhere, Asking, PrivilegeTypeOK
      <4> QED BY <4>1, <4>2
    <3>5. \A g \in Waiters' : Asking(g)' /\ answer'[g] = Unanswered /\ serving' # g
        BY <1>0, <3>1, <3>2, <3>3, WaitersAreHosts
    <3> QED BY <1>0, <3>1, <3>4, <3>5
  <2>2. CASE ~asks
      BY <1>1, <1>4, <2>2 DEF ReaderAsks, askVars
  <2> QED BY <2>1, <2>2
<1>5. ASSUME NEW h \in Hosts, ReaderAnswered(h)
      PROVE  AsksAreSomewhere'
  <2>1. h \notin Waiters /\ serving # h
      BY <1>0, <1>5 DEF ReaderAnswered
  <2>2. \A g \in Hosts \ {h} : reader'[g] = reader[g] /\ answer'[g] = answer[g]
      BY <1>5 DEF ReaderAnswered
  <2>3. UNCHANGED <<queue, serving, Waiters>> /\ answer'[h] = Unanswered
      BY <1>5 DEF ReaderAnswered, Waiters
  <2> QED BY <1>0, <2>1, <2>2, <2>3, WaitersAreHosts
<1>6. ASSUME NEW h \in Hosts, h \in Waiters \/ serving = h,
             ReleaseEverybody(h), UNCHANGED reader
      PROVE  AsksAreSomewhere'
  <2>1. DOMAIN queue' = {} /\ Waiters' = {}
      BY <1>6 DEF ReleaseEverybody, Waiters, Range
  <2>2. \A g \in Hosts : answer'[g] # answer[g] => Asking(g)
      BY <1>0, <1>6 DEF ReleaseEverybody
  <2>3. \A g \in Hosts : serving' # g
      BY <1>0, <1>6 DEF ReleaseEverybody, NotAHost
  <2> QED BY <1>0, <1>6, <2>1, <2>2, <2>3
<1>7. CASE TakeRequest
  <2>1. Head(queue) \in Waiters /\ Head(queue) \in Hosts
      BY <1>0, <1>7, WaitersAreHosts DEF TakeRequest, Waiters, Range
  <2>2. CASE stopped
      BY <1>6, <1>7, <2>1, <2>2 DEF TakeRequest
  <2>3. CASE ~stopped
    <3>1. /\ queue' = Tail(queue) /\ serving' = Head(queue)
          /\ UNCHANGED <<answer, reader>>
        BY <1>7, <2>3 DEF TakeRequest
    <3>2. /\ Waiters' \subseteq Waiters \ {Head(queue)}
          /\ \A i, j \in DOMAIN queue' : queue'[i] = queue'[j] => i = j
        BY <1>0, <1>7, <3>1, WaitersOfTail DEF TakeRequest
    <3> QED BY <1>0, <2>1, <3>1, <3>2
  <2> QED BY <2>2, <2>3
<1>8. ASSUME NEW h \in Hosts, GiveUntried(h) \/ UserTypes(h)
      PROVE  AsksAreSomewhere'
  <2>1. PICK a : Answered(h, a)
      BY <1>8 DEF GiveUntried, UserTypes
  <2>2. serving = h /\ UNCHANGED <<reader, queue, Waiters>>
      BY <1>8, <2>1 DEF GiveUntried, UserTypes, PromptIsUp, Answered, Waiters
  <2>3. h \notin Waiters /\ \A g \in Hosts : serving' # g
      BY <1>0, <2>1, <2>2 DEF Answered, NotAHost
  <2> QED BY <1>0, <2>1, <2>2, <2>3, WaitersAreHosts DEF Answered
<1>9. ASSUME NEW h \in Hosts, UserGivesUp(h)
      PROVE  AsksAreSomewhere'
    BY <1>6, <1>9 DEF UserGivesUp, PromptIsUp
<1>10. ASSUME \/ PlainStep /\ UNCHANGED privilegeVars
              \/ \E h \in Hosts : SudoAsks(h) \/ SudoReads(h)
              \/ PrivilegedExit \/ FatalExit \/ UNCHANGED allVars
       PROVE  AsksAreSomewhere'
  <2>1. UNCHANGED <<askVars, reader>>
      BY <1>10
      DEF privilegeVars, SudoAsks, SudoReads, PrivilegedExit, FatalExit, allVars
  <2> QED BY <1>1, <2>1
<1> QED BY <1>2, <1>3, <1>4, <1>5, <1>7, <1>8, <1>9, <1>10, KindsOfSteps

\* The main task polls no Host while it is at the prompt.
LEMMA HostStepAwayFromPrompt ==
    ASSUME PrivilegeTypeOK, NEW h \in Hosts, MidPoll(h) \/ AtAwait(h)
    PROVE  busy # Terminal /\ busy' # Terminal
<1>1. busy' \in {h, Nobody, busy}
    BY HostStepType DEF PrivilegeTypeOK
<1>2. busy \in {h, Nobody}
    BY DEF MidPoll, AtAwait, Spawn, SpawnFails, RegisterChild, SignalDoomed,
        DeregisterChild, Dispatch, WaitReturns, LimitExpires, GraceExpires,
        Drained, StopReturns
<1> QED BY <1>1, <1>2, TerminalIsNoHost DEF NotAHost

\* The prompt is where the main task is exactly while it has a Host in hand.
LEMMA TerminalServesKept ==
    ASSUME PrivilegeTypeOK, PrivilegedInv, [PrivilegedNext]_allVars
    PROVE  TerminalServes'
<1> USE DEF TerminalServes
<1>0. TerminalServes /\ NotAHost
    BY TerminalIsNoHost DEF PrivilegedInv
<1>1. ASSUME RunStep, UNCHANGED serving
      PROVE  TerminalServes'
  <2>1. busy' = busy \/ (busy # Terminal /\ busy' # Terminal)
    <3>1. CASE InterruptTask
        BY <3>1, InterruptStepType DEF PrivilegeTypeOK
    <3>2. ASSUME NEW h \in Hosts, MidPoll(h) \/ AtAwait(h)
          PROVE  busy # Terminal /\ busy' # Terminal
        BY <3>2, HostStepAwayFromPrompt
    <3>3. ASSUME NEW h \in Hosts, Ssh(h)
          PROVE  busy' = busy
        BY <3>3 DEF Ssh, ChildExits, ChildDies, HelperExits
    <3> QED BY <1>1, <3>1, <3>2, <3>3 DEF RunStep
  <2> QED BY <1>0, <1>1, <2>1
<1>2. ASSUME NEW h \in Hosts, RegisterWithReader(h) \/ DrainedWithReader(h)
      PROVE  RunStep /\ UNCHANGED serving
    BY <1>2 DEF RegisterWithReader, DrainedWithReader, RunStep, MidPoll,
                AtAwait, askVars
<1>3. ASSUME NEW h \in Hosts, GiveUntried(h) \/ UserTypes(h) \/ UserGivesUp(h)
      PROVE  TerminalServes'
    BY <1>0, <1>3
    DEF GiveUntried, UserTypes, UserGivesUp, Answered, ReleaseEverybody,
        NotAHost
<1>4. CASE TakeRequest
  <2>1. Head(queue) \in Hosts
      BY <1>4 DEF TakeRequest, PrivilegeTypeOK
  <2>2. CASE stopped
      BY <1>0, <1>4, <2>2 DEF TakeRequest, ReleaseEverybody, NotAHost
  <2>3. CASE ~stopped
      BY <1>0, <1>4, <2>1, <2>3 DEF TakeRequest, NotAHost
  <2> QED BY <2>2, <2>3
<1>5. ASSUME NEW h \in Hosts,
             \/ SudoAsks(h) \/ SudoReads(h) \/ ReaderAsks(h)
             \/ ReaderAnswered(h)
      PROVE  UNCHANGED <<busy, serving>>
    BY <1>5 DEF SudoAsks, SudoReads, ReaderAsks, ReaderAnswered, vars,
                hostVars, askVars
<1>6. ASSUME PrivilegedExit \/ FatalExit \/ UNCHANGED allVars
      PROVE  UNCHANGED <<busy, serving>>
    BY <1>6 DEF PrivilegedExit, FatalExit, Exit, allVars, vars, hostVars,
                privilegeVars, askVars
<1> QED BY <1>0, <1>1, <1>2, <1>3, <1>4, <1>5, <1>6, KindsOfSteps,
           PlainStepIsOfTheRun DEF privilegeVars, askVars

LEMMA ClosedMeansStoppedKept ==
    ASSUME PrivilegeTypeOK, PrivilegedInv, [PrivilegedNext]_allVars
    PROVE  ClosedMeansStopped'
<1> USE DEF ClosedMeansStopped
<1>0. ClosedMeansStopped /\ NotAHost
    BY TerminalIsNoHost DEF PrivilegedInv
<1>1. ASSUME UNCHANGED askVars, stopped => stopped'
      PROVE  ClosedMeansStopped'
    BY <1>0, <1>1 DEF askVars
<1>2. ASSUME RunStep, UNCHANGED askVars
      PROVE  ClosedMeansStopped'
    BY <1>1, <1>2, RunStepUndoesNothing DEF PrivilegeTypeOK, NothingUndone
<1>3. ASSUME NEW h \in Hosts, RegisterWithReader(h) \/ DrainedWithReader(h)
      PROVE  RunStep /\ UNCHANGED askVars
    BY <1>3
    DEF RegisterWithReader, DrainedWithReader, RunStep, MidPoll, AtAwait
<1>4. ASSUME \/ \E h \in Hosts : SudoAsks(h) \/ SudoReads(h)
             \/ PrivilegedExit \/ FatalExit \/ UNCHANGED allVars
      PROVE  ClosedMeansStopped'
  <2>1. UNCHANGED <<askVars, stopped>>
      BY <1>4
      DEF SudoAsks, SudoReads, PrivilegedExit, FatalExit, Exit, privilegeVars,
          allVars, vars, interruptVars
  <2> QED BY <1>1, <2>1
<1>5. ASSUME NEW h \in Hosts, ReaderAsks(h)
      PROVE  ClosedMeansStopped'
    BY <1>0, <1>5 DEF ReaderAsks, vars, interruptVars
<1>6. ASSUME NEW h \in Hosts, ReaderAnswered(h)
      PROVE  ClosedMeansStopped'
    BY <1>0, <1>6
    DEF ReaderAnswered, vars, interruptVars, PrivilegeTypeOK, Unanswered,
        Refused
<1>7. CASE TakeRequest
  <2>1. asks /\ stopped' = stopped
      BY <1>7 DEF TakeRequest, interruptVars
  <2>2. CASE stopped
      BY <1>7, <2>1, <2>2 DEF TakeRequest, ReleaseEverybody
  <2>3. CASE ~stopped
      BY <1>0, <1>7, <2>1, <2>3 DEF TakeRequest
  <2> QED BY <2>2, <2>3
<1>8. ASSUME NEW h \in Hosts, GiveUntried(h) \/ UserTypes(h)
      PROVE  ClosedMeansStopped'
  <2>1. PICK a \in Nat : Answered(h, a)
      BY <1>8 DEF GiveUntried, UserTypes, PrivilegeTypeOK
  <2>2. serving = h
      BY <1>8 DEF GiveUntried, UserTypes, PromptIsUp
  <2>3. asks /\ asks'
      BY <1>0, <2>1, <2>2 DEF Answered, NotAHost
  <2>4. a # Refused
      BY DEF Refused
  <2>5. \A g \in Hosts : answer'[g] = Refused => answer[g] = Refused
      BY <2>1, <2>4 DEF Answered, PrivilegeTypeOK
  <2> QED BY <1>0, <2>3, <2>5
<1>9. ASSUME NEW h \in Hosts, UserGivesUp(h)
      PROVE  ClosedMeansStopped'
  <2>1. stopped'
      BY <1>9 DEF UserGivesUp, StopForPrompt, Trigger, Begin, interruptVars
  <2> QED BY <1>9, <2>1 DEF UserGivesUp, ReleaseEverybody
<1> QED BY <1>2, <1>3, <1>4, <1>5, <1>6, <1>7, <1>8, <1>9, KindsOfSteps,
           PlainStepIsOfTheRun DEF privilegeVars

\* An ssh whose reader is at work is registered: a stopping run has its kill
\* on record.
LEMMA ReadersAreKilled ==
    ASSUME PrivilegeTypeOK, PrivilegedInv, NEW h \in Hosts, stopped,
           child[h] = Alive, reader[h] # "off"
    PROVE  h \in killed
<1>1. pc[h] \in WaitStates /\ step[h] = "run"
    BY DEF PrivilegedInv, HostsInv, ReaderIsInPlace, AliveUntilReaped,
        WaitStates
<1>2. running[h] # NoPid
    BY <1>1 DEF PrivilegedInv, HostsInv, RegisteredWhileWaiting,
        RegisteredStates, NoPid
<1> QED BY <1>2 DEF PrivilegedInv, HostsInv, NoHostSlipsThrough, RunningHosts

LEMMA SudoNeverAbandonedKept ==
    ASSUME PrivilegeTypeOK, PrivilegedInv, [PrivilegedNext]_allVars
    PROVE  SudoNeverAbandoned'
<1> USE DEF SudoNeverAbandoned, Asking
<1>0. /\ SudoNeverAbandoned
      /\ ReaderIsInPlace
      /\ ClosedMeansStopped
      /\ NothingUndone
    BY NothingIsUndone DEF PrivilegedInv
<1>1. ASSUME NEW g \in Hosts,
             /\ sudo'[g] = "blocked" => sudo[g] = "blocked"
             /\ Asking(g) => Asking(g)' \/ sudo'[g] # "blocked",
             sudo'[g] = "blocked", child'[g] = Alive
      PROVE  Asking(g)' \/ (stopped' /\ g \in killed')
  <2>1. child[g] = Alive
      BY <1>0, <1>1 DEF NothingUndone, ReaderIsInPlace, WaitStates
  <2> QED BY <1>0, <1>1, <2>1 DEF NothingUndone
<1>2. ASSUME NEW h \in Hosts, RegisterWithReader(h)
      PROVE  SudoNeverAbandoned'
  <2>1. reader[h] = "off"
      BY <1>0, <1>2
      DEF RegisterWithReader, RegisterChild, SignalDoomed, ReaderIsInPlace,
          WaitStates
  <2> QED BY <1>1, <1>2, <2>1
          DEF RegisterWithReader, ReaderSpawned, PrivilegeTypeOK
<1>3. ASSUME NEW h \in Hosts, DrainedWithReader(h) \/ SudoAsks(h) \/ SudoReads(h)
      PROVE  SudoNeverAbandoned'
    BY <1>1, <1>3 DEF DrainedWithReader, SudoAsks, SudoReads, PrivilegeTypeOK
<1>4. ASSUME NEW h \in Hosts, ReaderAsks(h) \/ ReaderAnswered(h)
      PROVE  UNCHANGED <<child, stopped, killed>>
    BY <1>4 DEF ReaderAsks, ReaderAnswered, vars, hostVars, interruptVars
<1>5. ASSUME NEW h \in Hosts, ReaderAsks(h)
      PROVE  SudoNeverAbandoned'
  <2>1. child[h] = Alive => Asking(h)' \/ (stopped /\ h \in killed)
      BY <1>0, <1>5, ReadersAreKilled
      DEF ReaderAsks, ClosedMeansStopped, PrivilegeTypeOK
  <2>2. \A g \in Hosts \ {h} : sudo'[g] = sudo[g] /\ reader'[g] = reader[g]
      BY <1>5 DEF ReaderAsks, PrivilegeTypeOK
  <2> QED BY <1>0, <1>4, <1>5, <2>1, <2>2
<1>6. ASSUME NEW h \in Hosts, ReaderAnswered(h)
      PROVE  SudoNeverAbandoned'
  <2>1. ASSUME sudo'[h] = "blocked", child[h] = Alive
        PROVE  stopped /\ h \in killed
    <3>1. answer[h] = Refused /\ reader[h] = "asking"
        BY <1>6, <2>1 DEF ReaderAnswered, PrivilegeTypeOK
    <3> QED BY <1>0, <2>1, <3>1, ReadersAreKilled DEF ClosedMeansStopped
  <2>2. \A g \in Hosts \ {h} : sudo'[g] = sudo[g] /\ reader'[g] = reader[g]
      BY <1>6 DEF ReaderAnswered, PrivilegeTypeOK
  <2> QED BY <1>0, <1>4, <1>6, <2>1, <2>2
<1>7. ASSUME NEW h \in Hosts, GiveUntried(h) \/ UserTypes(h) \/ UserGivesUp(h)
      PROVE  UNCHANGED <<reader, sudo>>
    BY <1>7 DEF GiveUntried, UserTypes, UserGivesUp
<1>8. ASSUME \/ PlainStep /\ UNCHANGED privilegeVars
             \/ TakeRequest \/ PrivilegedExit \/ FatalExit \/ UNCHANGED allVars
      PROVE  UNCHANGED <<reader, sudo>>
    BY <1>8 DEF TakeRequest, PrivilegedExit, FatalExit, privilegeVars, allVars
<1>9. CASE UNCHANGED <<reader, sudo>>
    BY <1>1, <1>9
<1> QED BY <1>2, <1>3, <1>5, <1>6, <1>7, <1>8, <1>9, KindsOfSteps

-----------------------------------------------------------------------------
(* Which password is where *)

knownVars == <<shared, given, unique, typed>>

\* Hosts that had no answer yet are refused one; nothing else changes.
Released ==
    /\ UNCHANGED <<knownVars, written>>
    /\ \A h \in Hosts :
           answer'[h] # answer[h] => answer[h] = Unanswered /\ answer'[h] = Refused

\* The steps, told apart by what they do to the passwords.
LEMMA KindsForPasswords ==
    ASSUME PrivilegeTypeOK, PrivilegedInv, [PrivilegedNext]_allVars
    PROVE  \/ UNCHANGED <<knownVars, answer, written>>
           \/ Released
           \/ \E h \in Hosts : ReaderAnswered(h) \/ GiveUntried(h) \/ UserTypes(h)
<1>0. AsksAreSomewhere
    BY DEF PrivilegedInv
<1>1. ASSUME NEW h \in Hosts,
             \/ RegisterWithReader(h) \/ DrainedWithReader(h)
             \/ SudoAsks(h) \/ SudoReads(h) \/ ReaderAsks(h)
      PROVE  UNCHANGED <<knownVars, answer, written>>
    BY <1>1
    DEF RegisterWithReader, DrainedWithReader, SudoAsks, SudoReads, ReaderAsks,
        askVars, passwordVars, knownVars
<1>2. ASSUME NEW h \in Hosts, h \in Waiters \/ serving = h,
             ReleaseEverybody(h), UNCHANGED <<knownVars, written>>
      PROVE  Released
    BY <1>0, <1>2 DEF ReleaseEverybody, Released, AsksAreSomewhere
<1>3. CASE TakeRequest
  <2>1. /\ UNCHANGED <<knownVars, written>>
        /\ Head(queue) \in Hosts
        /\ Head(queue) \in Waiters
      BY <1>3
      DEF TakeRequest, passwordVars, knownVars, PrivilegeTypeOK, Waiters, Range
  <2>2. CASE stopped
      BY <1>2, <1>3, <2>1, <2>2 DEF TakeRequest
  <2>3. CASE ~stopped
      BY <1>3, <2>1, <2>3 DEF TakeRequest
  <2> QED BY <2>2, <2>3
<1>4. ASSUME NEW h \in Hosts, UserGivesUp(h)
      PROVE  Released
    BY <1>2, <1>4 DEF UserGivesUp, PromptIsUp, knownVars
<1>5. ASSUME \/ PlainStep /\ UNCHANGED privilegeVars
             \/ PrivilegedExit \/ FatalExit \/ UNCHANGED allVars
      PROVE  UNCHANGED <<knownVars, answer, written>>
    BY <1>5
    DEF privilegeVars, PrivilegedExit, FatalExit, allVars, askVars,
        passwordVars, knownVars
<1> QED BY <1>1, <1>3, <1>4, <1>5, KindsOfSteps

LEMMA PasswordsAreNumbers ==
    ASSUME PrivilegeTypeOK
    PROVE  /\ typed \in Nat /\ shared \in Nat
           /\ \A h \in Hosts :
                  /\ unique[h] \in Nat
                  /\ answer[h] \in Int
                  /\ \A n \in written[h] : n \in Nat /\ n # NoPassword
<1>1. MaxTyped \in Nat
    BY PrivilegeAssumption
<1>2. /\ typed \in 0..MaxTyped /\ shared \in 0..MaxTyped
      /\ \A h \in Hosts :
             /\ unique[h] \in 0..MaxTyped
             /\ answer[h] \in {Unanswered, Refused} \cup (1..MaxTyped)
             /\ written[h] \subseteq 1..MaxTyped
    BY DEF PrivilegeTypeOK
<1>3. /\ Unanswered \in Int /\ Refused \in Int /\ NoPassword = 0
      /\ \A n \in 1..MaxTyped : n \in Nat /\ n # 0
      /\ \A n \in 0..MaxTyped : n \in Nat
    BY <1>1 DEF Unanswered, Refused, NoPassword
<1>4. ASSUME NEW h \in Hosts
      PROVE  /\ unique[h] \in Nat
             /\ answer[h] \in Int
             /\ \A n \in written[h] : n \in Nat /\ n # NoPassword
  <2>1. answer[h] \in Int
      BY <1>1, <1>2, <1>3
  <2> QED BY <1>2, <1>3, <2>1
<1> QED BY <1>2, <1>3, <1>4

\* A new password is larger than all that are anywhere.
LEMMA NewPassword ==
    ASSUME PrivilegeTypeOK, OnlyWhatWasTyped
    PROVE  /\ typed + 1 # NoPassword /\ typed + 1 # Unanswered
           /\ typed + 1 # Refused /\ typed + 1 # shared
           /\ \A h \in Hosts : typed + 1 \notin Sent(h) \cup {unique[h]}
<1>1. /\ typed \in Nat /\ shared \in Nat /\ shared <= typed
      /\ \A h \in Hosts :
             /\ unique[h] \in Nat /\ unique[h] <= typed
             /\ answer[h] \in Int /\ answer[h] <= typed
             /\ \A n \in written[h] : n \in Nat /\ n <= typed
    BY PasswordsAreNumbers DEF OnlyWhatWasTyped
<1>2. /\ typed + 1 # NoPassword /\ typed + 1 # Unanswered
      /\ typed + 1 # Refused /\ typed + 1 # shared
    BY <1>1 DEF NoPassword, Unanswered, Refused
<1>3. ASSUME NEW h \in Hosts
      PROVE  typed + 1 \notin Sent(h) \cup {unique[h]}
  <2>1. typed + 1 # unique[h] /\ typed + 1 # answer[h]
      BY <1>1
  <2>2. typed + 1 \notin written[h]
      BY <1>1
  <2> QED BY <2>1, <2>2 DEF Sent
<1> QED BY <1>2, <1>3

LEMMA OnlyWhatWasTypedKept ==
    ASSUME PrivilegeTypeOK, PrivilegedInv, [PrivilegedNext]_allVars
    PROVE  OnlyWhatWasTyped'
<1> USE DEF OnlyWhatWasTyped
<1>0. /\ OnlyWhatWasTyped
      /\ typed \in Nat /\ shared \in Nat
      /\ \A h \in Hosts :
             /\ unique[h] \in Nat
             /\ answer[h] \in Int
             /\ \A n \in written[h] : n \in Nat
    BY PasswordsAreNumbers DEF PrivilegedInv
<1>1. CASE UNCHANGED <<knownVars, answer, written>>
    BY <1>0, <1>1 DEF knownVars
<1>2. CASE Released
    BY <1>0, <1>2 DEF Released, knownVars, Refused
<1>3. ASSUME NEW h \in Hosts, ReaderAnswered(h)
      PROVE  OnlyWhatWasTyped'
  <2>1. UNCHANGED <<shared, unique, typed>>
      BY <1>3 DEF ReaderAnswered, passwordVars
  <2>2. \A g \in Hosts : answer'[g] \in {answer[g], Unanswered}
      BY <1>3 DEF ReaderAnswered, PrivilegeTypeOK
  <2>3. \A g \in Hosts : written'[g] \subseteq written[g] \cup {answer[g]}
    <3>1. CASE written' = written
      BY <3>1
    <3>2. CASE written' = [written EXCEPT ![h] = @ \cup {answer[h]}]
      <4>1. written \in [Hosts -> SUBSET (1..MaxTyped)]
        BY DEF PrivilegeTypeOK
      <4> QED BY <3>2, <4>1
    <3> QED BY <1>3, <3>1, <3>2 DEF ReaderAnswered
  <2> QED BY <1>0, <2>1, <2>2, <2>3 DEF Unanswered
<1>4. ASSUME NEW h \in Hosts, GiveUntried(h)
      PROVE  OnlyWhatWasTyped'
  <2>1. UNCHANGED <<shared, unique, typed, written>>
      BY <1>4 DEF GiveUntried
  <2>2. \A g \in Hosts : answer'[g] \in {answer[g], shared}
      BY <1>4 DEF GiveUntried, Answered, PrivilegeTypeOK
  <2> QED BY <1>0, <2>1, <2>2
<1>5. ASSUME NEW h \in Hosts, UserTypes(h)
      PROVE  OnlyWhatWasTyped'
  <2>1. /\ typed' = typed + 1
        /\ UNCHANGED written
        /\ shared' \in {shared, typed + 1}
        /\ answer' = [answer EXCEPT ![h] = typed + 1]
        /\ \/ UNCHANGED unique
           \/ unique' = [unique EXCEPT ![h] = typed + 1]
      BY <1>5 DEF UserTypes, Remember, Answered
  <2>2. \A g \in Hosts : /\ answer'[g] \in {answer[g], typed + 1}
                          /\ unique'[g] \in {unique[g], typed + 1}
      BY <2>1 DEF PrivilegeTypeOK
  <2> QED BY <1>0, <2>1, <2>2
<1> QED BY <1>1, <1>2, <1>3, <1>4, <1>5, KindsForPasswords

LEMMA AnswersAreNewsKept ==
    ASSUME PrivilegeTypeOK, PrivilegedInv, [PrivilegedNext]_allVars
    PROVE  AnswersAreNews'
<1> USE DEF AnswersAreNews
<1>0. /\ AnswersAreNews /\ GivenIsSent
      /\ \A h \in Hosts : Unanswered \notin written[h] /\ Refused \notin written[h]
    BY DEF PrivilegedInv, PrivilegeTypeOK, Unanswered, Refused
<1>1. CASE UNCHANGED <<knownVars, answer, written>>
    BY <1>0, <1>1
<1>2. CASE Released
    BY <1>0, <1>2 DEF Released
<1>3. ASSUME NEW h \in Hosts, ReaderAnswered(h)
      PROVE  AnswersAreNews'
  <2>1. answer'[h] = Unanswered /\ Unanswered \notin written'[h]
      BY <1>0, <1>3 DEF ReaderAnswered, PrivilegeTypeOK
  <2>2. \A g \in Hosts \ {h} : answer'[g] = answer[g] /\ written'[g] = written[g]
      BY <1>3 DEF ReaderAnswered, PrivilegeTypeOK
  <2> QED BY <1>0, <2>1, <2>2
<1>4. ASSUME NEW h \in Hosts, GiveUntried(h)
      PROVE  AnswersAreNews'
  <2>1. shared \notin written[h]
      BY <1>0, <1>4 DEF GiveUntried, Untried, GivenIsSent, Sent
  <2> QED BY <1>0, <1>4, <2>1 DEF GiveUntried, Answered, PrivilegeTypeOK
<1>5. ASSUME NEW h \in Hosts, UserTypes(h)
      PROVE  AnswersAreNews'
  <2>1. typed + 1 \notin written[h]
      BY NewPassword DEF PrivilegedInv, Sent
  <2> QED BY <1>0, <1>5, <2>1 DEF UserTypes, Answered, PrivilegeTypeOK
<1> QED BY <1>1, <1>2, <1>3, <1>4, <1>5, KindsForPasswords

LEMMA OwnIsOwnKept ==
    ASSUME PrivilegeTypeOK, PrivilegedInv, [PrivilegedNext]_allVars
    PROVE  OwnIsOwn'
<1> USE DEF OwnIsOwn, Sent
<1>0. /\ OwnIsOwn
      /\ \A u \in Unique : u \in Hosts
      /\ \A u \in Unique : unique[u] # NoPassword =>
             unique[u] # Unanswered /\ unique[u] # Refused
    BY PrivilegeAssumption
    DEF PrivilegedInv, PrivilegeTypeOK, NoPassword, Unanswered, Refused
<1>1. CASE UNCHANGED <<knownVars, answer, written>>
    BY <1>0, <1>1 DEF knownVars
<1>2. CASE Released
    BY <1>0, <1>2 DEF Released, knownVars
<1>3. ASSUME NEW h \in Hosts, ReaderAnswered(h)
      PROVE  OwnIsOwn'
  <2>1. \A g \in Hosts : Sent(g)' \subseteq Sent(g) \cup {Unanswered}
      BY <1>3 DEF ReaderAnswered, PrivilegeTypeOK
  <2>2. UNCHANGED <<unique, shared>>
      BY <1>3 DEF ReaderAnswered, passwordVars
  <2> HIDE DEF Sent
  <2> QED BY <1>0, <2>1, <2>2
<1>4. ASSUME NEW h \in Hosts, GiveUntried(h)
      PROVE  OwnIsOwn'
  <2>1. \A g \in Hosts : Sent(g)' \subseteq Sent(g) \cup {shared}
      BY <1>4 DEF GiveUntried, Answered, PrivilegeTypeOK
  <2>2. UNCHANGED <<unique, shared>>
      BY <1>4 DEF GiveUntried
  <2> HIDE DEF Sent
  <2> QED BY <1>0, <2>1, <2>2
<1>5. ASSUME NEW h \in Hosts, UserTypes(h)
      PROVE  OwnIsOwn'
  <2>1. /\ typed + 1 # NoPassword /\ typed + 1 # shared
        /\ \A g \in Hosts : typed + 1 \notin Sent(g) \cup {unique[g]}
      BY NewPassword DEF PrivilegedInv
  <2>2. /\ Sent(h)' \subseteq Sent(h) \cup {typed + 1}
        /\ \A g \in Hosts \ {h} : Sent(g)' = Sent(g)
      BY <1>5 DEF UserTypes, Answered, PrivilegeTypeOK
  <2> HIDE DEF Sent
  <2>3. CASE h \in Unique
    <3>1. /\ shared' = shared
          /\ unique'[h] = typed + 1
          /\ \A g \in Hosts \ {h} : unique'[g] = unique[g]
        BY <1>5, <2>3 DEF UserTypes, Remember, PrivilegeTypeOK
    <3>2. ASSUME NEW u \in Unique, unique'[u] # NoPassword, NEW g \in Hosts \ {u}
          PROVE  unique'[u] # shared' /\ unique'[u] \notin Sent(g)' \cup {unique'[g]}
      <4>1. CASE u = h
          BY <1>0, <2>1, <2>2, <3>1, <4>1
      <4>2. CASE u # h
          BY <1>0, <2>1, <2>2, <3>1, <3>2, <4>2
      <4> QED BY <4>1, <4>2
    <3>3. \A u \in Unique : unique'[u] # NoPassword => unique'[u] # shared'
        BY <1>0, <2>1, <3>1
    <3> QED BY <3>2, <3>3
  <2>4. CASE h \notin Unique
    <3>1. shared' = typed + 1 /\ unique' = unique
        BY <1>5, <2>4 DEF UserTypes, Remember
    <3> QED BY <1>0, <2>1, <2>2, <2>4, <3>1
  <2> QED BY <2>3, <2>4
<1> QED BY <1>1, <1>2, <1>3, <1>4, <1>5, KindsForPasswords

\* A step that leaves the passwords on record alone may write one to a Host or
\* give up on it, and loses none that is on its way to a reader still at work.
LEMMA GivenStaysSent ==
    ASSUME GivenIsSent, NothingUndone, UNCHANGED knownVars,
           \A n \in {Unanswered, Refused} : n # shared /\ n # NoPassword
               /\ \A h \in Hosts : n # GivenTo(h),
           \A h \in Hosts :
               /\ Sent(h)' \subseteq Sent(h) \cup {Unanswered, Refused}
               /\ \/ Sent(h) \subseteq Sent(h)' \cup {Unanswered, Refused}
                  \/ reader'[h] = "deaf"
               /\ reader[h] \in {"deaf", "off"} =>
                      reader'[h] \in {"deaf", "off"} \/ BeforeReader(h)
    PROVE  GivenIsSent'
<1>1. \A h \in Hosts : GivenTo(h)' = GivenTo(h)
    BY DEF GivenTo, knownVars
<1>2. shared' = shared /\ given' = given
    BY DEF knownVars
<1> QED BY <1>1, <1>2 DEF GivenIsSent, NothingUndone

LEMMA GivenIsSentKept ==
    ASSUME PrivilegeTypeOK, PrivilegedInv, [PrivilegedNext]_allVars
    PROVE  GivenIsSent'
<1>0. /\ GivenIsSent /\ NothingUndone
      /\ ReaderIsInPlace /\ AsksAreSomewhere
    BY NothingIsUndone DEF PrivilegedInv
<1>1. \A n \in {Unanswered, Refused} : n # shared /\ n # NoPassword
          /\ \A h \in Hosts : n # GivenTo(h)
  <2>1. /\ shared \in Nat
        /\ \A h \in Hosts : unique[h] \in Nat
      BY PasswordsAreNumbers
  <2>2. \A h \in Hosts : GivenTo(h) \in Nat
      BY <2>1 DEF GivenTo, NoPassword
  <2> QED BY <2>1, <2>2 DEF Unanswered, Refused, NoPassword
<1>2. ASSUME UNCHANGED <<knownVars, written>>,
             UNCHANGED answer \/ Released,
             \A h \in Hosts : reader[h] \in {"deaf", "off"} =>
                      reader'[h] \in {"deaf", "off"} \/ BeforeReader(h)
      PROVE  GivenIsSent'
  <2>1. \A h \in Hosts :
            /\ Sent(h)' \subseteq Sent(h) \cup {Unanswered, Refused}
            /\ Sent(h) \subseteq Sent(h)' \cup {Unanswered, Refused}
      BY <1>2 DEF Sent, Released
  <2> QED BY <1>0, <1>1, <1>2, <2>1, GivenStaysSent
<1>3. ASSUME NEW h \in Hosts, RegisterWithReader(h)
      PROVE  GivenIsSent'
  <2>1. UNCHANGED <<knownVars, written, answer>>
      BY <1>3 DEF RegisterWithReader, askVars, passwordVars, knownVars
  <2>2. BeforeReader(h)
      BY <1>3
      DEF RegisterWithReader, RegisterChild, SignalDoomed, BeforeReader
  <2>3. \A g \in Hosts \ {h} : reader'[g] = reader[g]
      BY <1>3 DEF RegisterWithReader, ReaderSpawned, PrivilegeTypeOK
  <2> QED BY <1>2, <2>1, <2>2, <2>3
<1>4. ASSUME NEW h \in Hosts,
             \/ DrainedWithReader(h) \/ ReaderAsks(h)
             \/ SudoAsks(h) \/ SudoReads(h)
      PROVE  GivenIsSent'
  <2>1. UNCHANGED <<knownVars, written, answer>>
      BY <1>4
      DEF DrainedWithReader, ReaderAsks, SudoAsks, SudoReads, askVars,
          passwordVars, knownVars
  <2>2. \A g \in Hosts : reader[g] \in {"deaf", "off"} =>
            reader'[g] \in {"deaf", "off"}
      BY <1>4
      DEF DrainedWithReader, ReaderAsks, SudoAsks, SudoReads, PrivilegeTypeOK
  <2> QED BY <1>2, <2>1, <2>2
<1>5. ASSUME NEW h \in Hosts, ReaderAnswered(h)
      PROVE  GivenIsSent'
  <2>1. UNCHANGED knownVars
      BY <1>5 DEF ReaderAnswered, passwordVars, knownVars
  <2>2. \A g \in Hosts \ {h} :
            /\ reader'[g] = reader[g] /\ answer'[g] = answer[g]
            /\ written'[g] = written[g]
      BY <1>5 DEF ReaderAnswered, PrivilegeTypeOK
  <2>3. /\ reader[h] = "asking" /\ answer'[h] = Unanswered
        /\ \/ written'[h] = written[h] \cup {answer[h]}
           \/ written'[h] = written[h] /\ reader'[h] = "deaf"
      BY <1>5 DEF ReaderAnswered, Asking, PrivilegeTypeOK
  <2>4. \A g \in Hosts :
            /\ Sent(g)' \subseteq Sent(g) \cup {Unanswered, Refused}
            /\ \/ Sent(g) \subseteq Sent(g)' \cup {Unanswered, Refused}
               \/ reader'[g] = "deaf"
      BY <2>2, <2>3 DEF Sent
  <2>5. \A g \in Hosts : reader[g] \in {"deaf", "off"} =>
            reader'[g] \in {"deaf", "off"}
      BY <2>2, <2>3
  <2> QED BY <1>0, <1>1, <2>1, <2>4, <2>5, GivenStaysSent
\* A Host in hand asks, so it is past BeforeReader and has no answer to lose.
<1>6. ASSUME NEW h \in Hosts, GiveUntried(h) \/ UserTypes(h)
      PROVE  /\ UNCHANGED <<pc, step, reader, written>>
             /\ answer[h] = Unanswered
             /\ ~BeforeReader(h)
             /\ \A g \in Hosts : BeforeReader(g)' <=> BeforeReader(g)
  <2>1. serving = h /\ UNCHANGED <<pc, step, reader, written>>
      BY <1>6 DEF GiveUntried, UserTypes, PromptIsUp, hostsAndRun
  <2>2. reader[h] = "asking" /\ answer[h] = Unanswered
      BY <1>0, <2>1 DEF AsksAreSomewhere, Asking
  <2>3. ~BeforeReader(h)
      BY <1>0, <2>2 DEF ReaderIsInPlace, BeforeReader, WaitStates
  <2> QED BY <2>1, <2>2, <2>3 DEF BeforeReader
<1>7. ASSUME NEW h \in Hosts, GiveUntried(h)
      PROVE  GivenIsSent'
  <2>1. /\ h \notin Unique /\ h \notin given /\ shared # NoPassword
        /\ shared' = shared /\ unique' = unique /\ given' = given \cup {h}
        /\ answer' = [answer EXCEPT ![h] = shared]
      BY <1>7 DEF GiveUntried, Untried, Answered
  <2>2. \A g \in Hosts \ {h} : GivenTo(g)' = GivenTo(g) /\ Sent(g)' = Sent(g)
      BY <1>6, <1>7, <2>1 DEF GivenTo, Sent, PrivilegeTypeOK
  <2>3. GivenTo(h)' = shared /\ shared \in Sent(h)'
      BY <1>6, <1>7, <2>1 DEF GivenTo, Sent, PrivilegeTypeOK
  <2>4. ASSUME NEW g \in Hosts \ {h}
        PROVE  /\ GivenTo(g)' # NoPassword =>
                      GivenTo(g)' \in Sent(g)' \/ reader'[g] \in {"deaf", "off"}
               /\ BeforeReader(g)' => GivenTo(g)' = NoPassword
               /\ shared' # NoPassword /\ shared' \in Sent(g)' =>
                      g \in given' \ Unique
      BY <1>0, <1>6, <1>7, <2>1, <2>2 DEF GivenIsSent
  <2>5. /\ GivenTo(h)' \in Sent(h)'
        /\ ~BeforeReader(h)'
        /\ h \in given' \ Unique
      BY <1>6, <1>7, <2>1, <2>3
  <2> QED BY <2>4, <2>5 DEF GivenIsSent
<1>8. ASSUME NEW h \in Hosts, UserTypes(h)
      PROVE  GivenIsSent'
  <2>1. /\ typed + 1 # NoPassword /\ typed + 1 # shared
        /\ \A g \in Hosts : typed + 1 \notin Sent(g)
      BY NewPassword DEF PrivilegedInv
  <2>2. answer' = [answer EXCEPT ![h] = typed + 1]
      BY <1>8 DEF UserTypes, Answered
  <2>3. /\ typed + 1 \in Sent(h)' /\ Sent(h)' \subseteq Sent(h) \cup {typed + 1}
        /\ \A g \in Hosts \ {h} : Sent(g)' = Sent(g)
      BY <1>6, <1>8, <2>2 DEF Sent, PrivilegeTypeOK
  <2>4. CASE h \in Unique
    <3>1. /\ shared' = shared /\ given' = given
          /\ GivenTo(h)' = typed + 1
          /\ \A g \in Hosts \ {h} : GivenTo(g)' = GivenTo(g)
        BY <1>8, <2>4 DEF UserTypes, Remember, GivenTo, PrivilegeTypeOK
    <3>2. ASSUME NEW g \in Hosts \ {h}
          PROVE  /\ GivenTo(g)' # NoPassword =>
                        GivenTo(g)' \in Sent(g)' \/ reader'[g] \in {"deaf", "off"}
                 /\ BeforeReader(g)' => GivenTo(g)' = NoPassword
                 /\ shared' # NoPassword /\ shared' \in Sent(g)' =>
                        g \in given' \ Unique
        BY <1>0, <1>6, <1>8, <2>3, <3>1 DEF GivenIsSent
    <3>3. /\ GivenTo(h)' \in Sent(h)'
          /\ ~BeforeReader(h)'
          /\ shared' # NoPassword /\ shared' \in Sent(h)' => h \in given' \ Unique
        BY <1>0, <1>6, <1>8, <2>1, <2>3, <3>1 DEF GivenIsSent
    <3> QED BY <3>2, <3>3 DEF GivenIsSent
  <2>5. CASE h \notin Unique
    <3>1. shared' = typed + 1 /\ given' = {h} /\ unique' = unique
        BY <1>8, <2>5 DEF UserTypes, Remember
    <3>2. ASSUME NEW g \in Hosts \ {h}
          PROVE  /\ GivenTo(g)' \in {GivenTo(g), NoPassword}
                 /\ shared' \notin Sent(g)'
        BY <2>1, <2>3, <3>1 DEF GivenTo
    <3>3. ASSUME NEW g \in Hosts \ {h}
          PROVE  /\ GivenTo(g)' # NoPassword =>
                        GivenTo(g)' \in Sent(g)' \/ reader'[g] \in {"deaf", "off"}
                 /\ BeforeReader(g)' => GivenTo(g)' = NoPassword
        BY <1>0, <1>6, <1>8, <2>3, <3>2 DEF GivenIsSent
    <3>4. /\ GivenTo(h)' \in Sent(h)'
          /\ ~BeforeReader(h)'
          /\ h \in given' \ Unique
        BY <1>6, <1>8, <2>3, <2>5, <3>1 DEF GivenTo
    <3> QED BY <3>2, <3>3, <3>4 DEF GivenIsSent
  <2> QED BY <2>4, <2>5
<1>9. ASSUME \/ TakeRequest \/ \E h \in Hosts : UserGivesUp(h)
             \/ PlainStep /\ UNCHANGED privilegeVars
             \/ PrivilegedExit \/ FatalExit \/ UNCHANGED allVars
      PROVE  GivenIsSent'
  <2>1. UNCHANGED reader
      BY <1>9
      DEF TakeRequest, UserGivesUp, PrivilegedExit, FatalExit, privilegeVars,
          allVars
  <2>2. CASE UNCHANGED <<knownVars, answer, written>> \/ Released
      BY <1>2, <2>1, <2>2 DEF Released
  <2> QED BY <1>5, <1>7, <1>8, <2>2, KindsForPasswords
<1> QED BY <1>3, <1>4, <1>5, <1>7, <1>8, <1>9, KindsOfSteps

-----------------------------------------------------------------------------
(* The end of the run *)

\* The asks are over by then: every reader is the reader of an ssh that is not
\* drained yet.
LEMMA NobodyAsksAtTheEnd ==
    ASSUME PrivilegedInv, NEW h \in Hosts, pc[h] \in EndStates
    PROVE  /\ ~Asking(h) /\ serving # h
           /\ queue \in Seq(Hosts) => h \notin Waiters
BY DEF PrivilegedInv, ReaderIsInPlace, AsksAreSomewhere, Asking, WaitStates,
       EndStates

\* What is left of a run that has exited does not touch its outcomes.
LEMMA RunStepAfterExit ==
    ASSUME HostsInv, RunStep, Exited
    PROVE  UNCHANGED <<busy, pc, status>>
<1>1. \A h \in Hosts : ~MidPoll(h) /\ ~AtAwait(h)
    BY DEF HostsInv, ExitIsTheEnd, EndStates, MidPoll, AtAwait, Spawn,
        SpawnFails, RegisterChild, SignalDoomed, DeregisterChild, Dispatch,
        WaitReturns, LimitExpires, GraceExpires, Drained, StopReturns
<1> QED BY <1>1
        DEF RunStep, Ssh, ChildExits, ChildDies, HelperExits, InterruptTask,
            CtrlC, SignalTarget, Escalate, hostVars

LEMMA ExitCodeIsReportedOrLocalKept ==
    ASSUME PrivilegeTypeOK, PrivilegedInv, [PrivilegedNext]_allVars
    PROVE  ExitCodeIsReportedOrLocal'
<1> USE DEF ExitCodeIsReportedOrLocal
<1>0. /\ ExitCodeIsReportedOrLocal
      /\ HostsInv /\ NotAHost
      /\ Exited => \A h \in Hosts : pc[h] \in EndStates
    BY TerminalIsNoHost DEF PrivilegedInv, HostsInv, ExitIsTheEnd
<1>1. ASSUME UNCHANGED <<exitCode, fatal>>,
             Exited => UNCHANGED <<busy, pc, status>>
      PROVE  ExitCodeIsReportedOrLocal'
    BY <1>0, <1>1 DEF Exited, Reported
<1>2. ASSUME RunStep
      PROVE  UNCHANGED exitCode /\ (Exited => UNCHANGED <<busy, pc, status>>)
    BY <1>0, <1>2, RunStepType, RunStepAfterExit
<1>3. ASSUME NEW h \in Hosts, RegisterWithReader(h) \/ DrainedWithReader(h)
      PROVE  RunStep /\ UNCHANGED fatal
    BY <1>3
    DEF RegisterWithReader, DrainedWithReader, RunStep, MidPoll, AtAwait,
        passwordVars
<1>4. ASSUME NEW h \in Hosts,
             SudoAsks(h) \/ SudoReads(h) \/ ReaderAsks(h) \/ ReaderAnswered(h)
      PROVE  UNCHANGED <<exitCode, fatal, busy, pc, status>>
    BY <1>4
    DEF SudoAsks, SudoReads, ReaderAsks, ReaderAnswered, vars, hostVars,
        passwordVars
<1>5. ASSUME NEW h \in Hosts, GiveUntried(h) \/ UserTypes(h) \/ UserGivesUp(h)
      PROVE  ~Exited /\ UNCHANGED exitCode
    BY <1>0, <1>5, NobodyAsksAtTheEnd
    DEF GiveUntried, UserTypes, UserGivesUp, PromptIsUp, hostsAndRun
<1>6. CASE TakeRequest
  <2>1. Head(queue) \in Hosts /\ Head(queue) \in Waiters
      BY <1>6 DEF TakeRequest, PrivilegeTypeOK, Waiters, Range
  <2>2. ~Exited /\ UNCHANGED exitCode
      BY <1>0, <1>6, <2>1, NobodyAsksAtTheEnd
      DEF TakeRequest, hostsAndRun, PrivilegeTypeOK
  <2> QED BY <2>2 DEF Exited
<1>7. CASE PrivilegedExit
    BY <1>7
    DEF PrivilegedExit, Exit, Reported, privilegeVars, passwordVars
<1>8. CASE FatalExit
    BY <1>8 DEF FatalExit, Reported, privilegeVars, passwordVars
<1>9. CASE UNCHANGED allVars
    BY <1>1, <1>9 DEF allVars, vars, hostVars, privilegeVars, passwordVars
<1>10. CASE PlainStep /\ UNCHANGED privilegeVars
    BY <1>1, <1>2, <1>10, PlainStepIsOfTheRun DEF privilegeVars, passwordVars
<1> QED BY <1>1, <1>2, <1>3, <1>4, <1>5, <1>6, <1>7, <1>8, <1>9, <1>10,
           KindsOfSteps DEF Exited

-----------------------------------------------------------------------------
LEMMA PrivilegedInitInv == PrivilegedInit => PrivilegedInv
<1> SUFFICES ASSUME PrivilegedInit PROVE PrivilegedInv
    OBVIOUS
<1>0. NotAHost /\ MaxTyped \in Nat
    BY TerminalIsNoHost, PrivilegeAssumption
<1>1. HostsInv /\ busy = Nobody /\ ~Exited
    BY InitInv DEF PrivilegedInit, Init, Exited
<1>2. \A h \in Hosts :
          /\ sudo[h] = "quiet" /\ reader[h] = "off" /\ answer[h] = Unanswered
          /\ unique[h] = NoPassword /\ written[h] = {}
    BY DEF PrivilegedInit
<1>3. Waiters = {} /\ DOMAIN queue = {}
    BY DEF PrivilegedInit, Waiters, Range
<1>4. /\ ReaderIsInPlace
      /\ AsksAreSomewhere
      /\ TerminalServes
      /\ ClosedMeansStopped
      /\ SudoNeverAbandoned
    BY <1>0, <1>1, <1>2, <1>3
    DEF PrivilegedInit, NotAHost, ReaderIsInPlace, AsksAreSomewhere,
        TerminalServes, ClosedMeansStopped, SudoNeverAbandoned, Unanswered,
        Refused
<1>5. /\ OnlyWhatWasTyped
      /\ GivenIsSent
      /\ OwnIsOwn
      /\ AnswersAreNews
      /\ ExitCodeIsReportedOrLocal
    BY <1>0, <1>1, <1>2, PrivilegeAssumption
    DEF PrivilegedInit, OnlyWhatWasTyped, GivenIsSent, GivenTo, OwnIsOwn,
        AnswersAreNews, ExitCodeIsReportedOrLocal, NoPassword, Unanswered
<1> QED BY <1>1, <1>4, <1>5 DEF PrivilegedInv

\* Where every reader, ask, answer and password of a run under --privilege is.
THEOREM PrivilegedInvHolds == PrivilegedSpec => []PrivilegedInv
<1>1. PrivilegeTypeOK /\ PrivilegedInv /\ [PrivilegedNext]_allVars => PrivilegedInv'
  <2> SUFFICES ASSUME PrivilegeTypeOK, PrivilegedInv, [PrivilegedNext]_allVars
               PROVE  PrivilegedInv'
      OBVIOUS
  <2> QED BY PrivilegedHostsInv, ReaderIsInPlaceKept, AsksAreSomewhereKept,
             TerminalServesKept, ClosedMeansStoppedKept, SudoNeverAbandonedKept,
             OnlyWhatWasTypedKept, GivenIsSentKept, OwnIsOwnKept,
             AnswersAreNewsKept, ExitCodeIsReportedOrLocalKept
          DEF PrivilegedInv
<1> QED BY <1>1, PrivilegedInitInv, PrivilegeTypeCorrect, PTL DEF PrivilegedSpec

-----------------------------------------------------------------------------
(* What follows from it *)

\* A sudo that waits for a line on its stdin has a reader on its way to it, or
\* is being killed: the run never forgets a Host it has stopped asking for.
THEOREM SudoIsNeverAbandoned == PrivilegedSpec => []SudoNeverAbandoned
<1>1. PrivilegedInv => SudoNeverAbandoned
    BY DEF PrivilegedInv
<1> QED BY <1>1, PrivilegedInvHolds, PTL

\* The prompt is up for a Host only if the run has nothing to give it that it
\* has not refused.
THEOREM NoNeedlessPrompt == PrivilegedSpec => []PromptedOnlyIfNeeded
<1>1. PrivilegeTypeOK /\ PrivilegedInv => PromptedOnlyIfNeeded
  <2> SUFFICES ASSUME PrivilegeTypeOK, PrivilegedInv, NEW h \in Hosts,
                      PromptIsUp(h)
               PROVE  LET current == IF h \in Unique THEN unique[h] ELSE shared
                      IN  current = NoPassword \/ current \in written[h]
      BY DEF PromptedOnlyIfNeeded
  <2>1. reader[h] = "asking" /\ answer[h] = Unanswered
      BY DEF PromptIsUp, PrivilegedInv, AsksAreSomewhere, Asking
  <2>2. GivenTo(h) # NoPassword => GivenTo(h) \in written[h] \cup {Unanswered}
      BY <2>1 DEF PrivilegedInv, GivenIsSent, Sent
  <2>3. unique[h] # Unanswered /\ shared # Unanswered
      BY PasswordsAreNumbers DEF Unanswered
  <2>4. CASE h \in Unique
      BY <2>2, <2>3, <2>4 DEF GivenTo
  <2>5. CASE h \notin Unique
      BY <2>2, <2>3, <2>5 DEF GivenTo, PromptIsUp, Untried
  <2> QED BY <2>4, <2>5
<1> QED BY <1>1, PrivilegeTypeCorrect, PrivilegedInvHolds, PTL

\* A password typed for a marked Host is never written to another, nor the
\* run's to a marked one.
THEOREM PasswordsStayApart == PrivilegedSpec => []PasswordsKeptApart
<1>1. PrivilegedInv => PasswordsKeptApart
    BY PrivilegeAssumption
    DEF PrivilegedInv, GivenIsSent, OwnIsOwn, Sent, PasswordsKeptApart
<1> QED BY <1>1, PrivilegedInvHolds, PTL

\* A run that killed a Host exits 99, or 1 if it was stopped for want of a
\* password.
THEOREM KillOrFailureIsReported == PrivilegedSpec => []KilledRunSaysSo
<1>1. PrivilegeTypeOK /\ PrivilegedInv => KilledRunSaysSo
  <2> SUFFICES ASSUME PrivilegeTypeOK, PrivilegedInv, Exited, NEW h \in killed
               PROVE  exitCode = IF fatal THEN EXIT_LOCAL ELSE EXIT_INTERRUPTED
      BY DEF KilledRunSaysSo
  <2>1. h \in Hosts
      BY DEF PrivilegeTypeOK, HostTypeOK, InterruptTypeOK
  <2>2. pc[h] = "settled" /\ status[h] = "cancelled"
      BY <2>1
      DEF PrivilegedInv, HostsInv, ExitIsTheEnd, EndStates, KilledIsCancelled,
          RegisteredStates, WaitStates
  <2>3. "cancelled" \in Reported
      BY <2>1, <2>2 DEF Reported
  <2> QED BY <2>3 DEF PrivilegedInv, ExitCodeIsReportedOrLocal, ExitCode
<1> QED BY <1>1, PrivilegeTypeCorrect, PrivilegedInvHolds, PTL

\* No Host is given the same password twice, however its prompt, its answers
\* and a password typed for another Host interleave.
THEOREM NoPasswordTwice == PrivilegedSpec => NeverWrittenTwice
<1>1. PrivilegedInv /\ [PrivilegedNext]_allVars =>
          [\A h \in Hosts : sudo[h] = "blocked" /\ sudo'[h] = "line" =>
               answer[h] \notin written[h]]_allVars
    BY DEF PrivilegedInv, AnswersAreNews
<1> QED BY <1>1, PrivilegedInvHolds, PTL DEF PrivilegedSpec, NeverWrittenTwice

-----------------------------------------------------------------------------
(* What a run promises its Hosts, under --privilege *)

\* A Host between its prompt and its password is no exception: whichever side
\* of an interrupt its ssh is registered on, the kill is on record; none that is
\* waited for goes unsignalled; and what was signalled never passes for an ssh
\* that ended by itself.
THEOREM InterruptUnderPrivilege ==
    PrivilegedSpec => [](NoHostSlipsThrough /\ NoneMissed /\ SignalledIsCutShort)
<1>1. PrivilegedInv => NoHostSlipsThrough
    BY DEF PrivilegedInv, HostsInv
<1>2. PrivilegeTypeOK /\ PrivilegedInv => NoneMissed /\ SignalledIsCutShort
    BY SignalsAreAnsweredFor DEF PrivilegeTypeOK, PrivilegedInv
<1> QED BY <1>1, <1>2, PrivilegeTypeCorrect, PrivilegedInvHolds, PTL

\* Only the end of its streams takes a Host to its next step.
LEMMA StepsEndDrained ==
    ASSUME PrivilegeTypeOK, [PrivilegedNext]_allVars, NEW g \in Hosts, step'[g] # step[g]
    PROVE  \E h \in Hosts : Drained(h)
<1> USE DEF PrivilegeTypeOK, HostTypeOK, hostVars, hostsAndRun
<1>1. CASE PlainStep
    BY <1>1
    DEF PlainStep, InterruptTask, CtrlC, SignalTarget, Escalate, Dispatch, Spawn,
        SpawnFails, LimitExpires, WaitReturns, DeregisterChild, GraceExpires,
        StopReturns, Ssh, ChildExits, ChildDies, HelperExits
<1>2. ASSUME NEW h \in Hosts,
             \/ SudoAsks(h) \/ SudoReads(h) \/ ReaderAsks(h)
             \/ ReaderAnswered(h) \/ GiveUntried(h) \/ UserTypes(h)
             \/ UserGivesUp(h) \/ RegisterWithReader(h)
      PROVE  FALSE
    BY <1>2
    DEF SudoAsks, SudoReads, ReaderAsks, ReaderAnswered, GiveUntried, UserTypes,
        UserGivesUp, Answered, RegisterWithReader, RegisterChild, SignalDoomed, vars
<1>3. ~(TakeRequest \/ PrivilegedExit \/ FatalExit \/ UNCHANGED allVars)
    BY DEF TakeRequest, PrivilegedExit, Exit, FatalExit, allVars, vars
<1> QED BY <1>1, <1>2, <1>3, KindsOfSteps DEF DrainedWithReader

\* A copy that was cut short is the end of its Host under --privilege too,
\* where it may be cut short while another Host's prompt is up.
THEOREM CutCopyIsTheEndUnderPrivilege == PrivilegedSpec => NoRunAfterACutCopy
<1>1. PrivilegeTypeOK /\ PrivilegedInv /\ [PrivilegedNext]_allVars =>
          [\A h \in Hosts : step'[h] # step[h] =>
               sent[h] = "none" /\ h \notin killed]_vars
  <2> SUFFICES ASSUME PrivilegeTypeOK, PrivilegedInv, [PrivilegedNext]_allVars,
                      NEW g \in Hosts, step'[g] # step[g]
               PROVE  sent[g] = "none" /\ g \notin killed
      OBVIOUS
  <2>1. PICK h \in Hosts : Drained(h)
      BY StepsEndDrained
  <2>2. g = h /\ ~CutShort(h) /\ pc[h] = "draining"
      BY <2>1
      DEF Drained, CopyConcluded, RunConcluded, PrivilegeTypeOK, HostTypeOK
  <2> QED BY <2>2
          DEF CutShort, PrivilegedInv, HostsInv, SignalHasAReason, StatusIsLate,
              NoStatus
<1> QED BY <1>1, PrivilegeTypeCorrect, PrivilegedInvHolds, PTL DEF PrivilegedSpec, NoRunAfterACutCopy

\* Nobody but a Host that is dispatched enters the window.
LEMMA WindowUnderPrivilege ==
    ASSUME PrivilegeTypeOK, PrivilegedInv, FanoutKept, [PrivilegedNext]_allVars
    PROVE  FanoutKept'
<1> USE DEF PrivilegeTypeOK, HostTypeOK, hostVars, hostsAndRun
<1>1. ASSUME NEW h \in Hosts, Dispatch(h) PROVE FanoutKept'
    BY <1>1, DispatchKeepsTheWindow
<1>2. CASE PlainStep /\ ~ \E h \in Hosts : Dispatch(h)
  <2>1. InFlight' \subseteq InFlight
      BY <1>2
      DEF PlainStep, InterruptTask, CtrlC, SignalTarget, Escalate, Spawn,
          SpawnFails, LimitExpires, WaitReturns, DeregisterChild, GraceExpires,
          StopReturns, Ssh, ChildExits, ChildDies, HelperExits, Settle, Goto,
          InFlight
  <2> QED BY <2>1, FewerInFlight
<1>3. ASSUME NEW h \in Hosts,
             \/ SudoAsks(h) \/ SudoReads(h) \/ ReaderAsks(h)
             \/ ReaderAnswered(h) \/ GiveUntried(h) \/ UserTypes(h)
             \/ UserGivesUp(h)
      PROVE  UNCHANGED pc
    BY <1>3
    DEF SudoAsks, SudoReads, ReaderAsks, ReaderAnswered, GiveUntried, UserTypes,
        UserGivesUp, Answered, vars
<1>4. ASSUME NEW h \in Hosts, RegisterWithReader(h) \/ DrainedWithReader(h)
      PROVE  InFlight' \subseteq InFlight
    BY <1>4
    DEF RegisterWithReader, RegisterChild, SignalDoomed, DrainedWithReader, Drained,
        CopyConcluded, RunConcluded, Settle, Goto, InFlight
<1>5. CASE TakeRequest \/ PrivilegedExit \/ FatalExit \/ UNCHANGED allVars
  <2>1. UNCHANGED pc
      BY <1>5 DEF TakeRequest, PrivilegedExit, Exit, FatalExit, allVars, vars
  <2> QED BY <2>1, FewerInFlight DEF InFlight
<1>6. UNCHANGED pc => InFlight' \subseteq InFlight
    BY DEF InFlight
<1> QED BY <1>1, <1>2, <1>3, <1>4, <1>5, <1>6, FewerInFlight, KindsOfSteps

\* No more ssh connections than slots while the run asks for passwords.
THEOREM ConnectionsUnderPrivilege == PrivilegedSpec => []SshBound
<1>1. PrivilegedInit => FanoutKept
    BY NobodyIsInFlight DEF PrivilegedInit
<1>2. PrivilegedInv /\ FanoutKept => SshBound
    BY ConnectionsAreInFlight DEF PrivilegedInv
<1>3. PrivilegeTypeOK /\ PrivilegedInv /\ FanoutKept /\ [PrivilegedNext]_allVars => FanoutKept'
    BY WindowUnderPrivilege
<1> QED BY <1>1, <1>2, <1>3, PrivilegeTypeCorrect, PrivilegedInvHolds, PTL DEF PrivilegedSpec

\* Left to itself, a run under --privilege exits 99 only if it was interrupted,
\* at its prompt or anywhere else.
THEOREM NinetyNineUnderPrivilege ==
    ~ForeignSignal => (PrivilegedSpec => []NinetyNineMeansInterrupted)
<1> SUFFICES ASSUME ~ForeignSignal
             PROVE  PrivilegedSpec => []NinetyNineMeansInterrupted
    OBVIOUS
<1>1. PrivilegedInit => Blame
    BY DEF PrivilegedInit, Init, Blame, NoChild, Signalled, NoStatus
<1>2. PrivilegeTypeOK /\ PrivilegedInv /\ Blame /\ [PrivilegedNext]_allVars
          => Blame'
  <2> SUFFICES ASSUME PrivilegeTypeOK, PrivilegedInv, Blame,
                      [PrivilegedNext]_allVars
               PROVE  Blame'
      OBVIOUS
  <2>1. CASE RunStep
      BY <2>1, BlameKept DEF RunStep, PrivilegeTypeOK, PrivilegedInv
  <2>2. ASSUME NEW h \in Hosts,
               \/ SudoAsks(h) \/ SudoReads(h) \/ ReaderAsks(h)
               \/ ReaderAnswered(h) \/ GiveUntried(h) \/ UserTypes(h)
        PROVE  Blame'
      BY <2>2, BlameStands
      DEF SudoAsks, SudoReads, ReaderAsks, ReaderAnswered, GiveUntried,
          UserTypes, vars, hostVars, hostsAndRun, interruptVars
  <2>3. ASSUME NEW h \in Hosts, UserGivesUp(h) PROVE Blame'
      BY <2>3, BlameStands
      DEF UserGivesUp, StopForPrompt, Trigger, Begin, hostsAndRun, interruptVars
  <2>4. CASE TakeRequest \/ PrivilegedExit \/ FatalExit \/ UNCHANGED allVars
      BY <2>4, BlameStands
      DEF TakeRequest, PrivilegedExit, Exit, FatalExit, allVars, vars, hostVars,
          hostsAndRun, interruptVars
  <2>5. ASSUME NEW h \in Hosts, RegisterWithReader(h) \/ DrainedWithReader(h)
        PROVE  RunStep
      BY <2>5 DEF RegisterWithReader, DrainedWithReader, RunStep, MidPoll, AtAwait
  <2> QED BY <2>1, <2>2, <2>3, <2>4, <2>5, KindsOfSteps, PlainStepIsOfTheRun
<1>3. PrivilegeTypeOK /\ PrivilegedInv /\ Blame => NinetyNineMeansInterrupted
  <2> SUFFICES ASSUME PrivilegeTypeOK, PrivilegedInv, Blame,
                      exitCode = EXIT_INTERRUPTED
               PROVE  stopped
      BY DEF NinetyNineMeansInterrupted
  <2>1. ExitCode(Reported) = EXIT_INTERRUPTED
      BY DEF PrivilegedInv, ExitCodeIsReportedOrLocal, Exited, NotExited,
             EXIT_INTERRUPTED, EXIT_LOCAL
  <2>2. "cancelled" \in Reported
      BY <2>1
      DEF ExitCode, EXIT_INTERRUPTED, EXIT_FAILED, EXIT_UNREACHABLE, EXIT_OK
  <2> QED BY <2>2 DEF Reported, Blame
<1> QED BY <1>1, <1>2, <1>3, PrivilegeTypeCorrect, PrivilegedInvHolds, PTL
        DEF PrivilegedSpec

-----------------------------------------------------------------------------
(* PrivilegedRun implements Run: each of its steps is the same step of a   *)
(* run, or one that no Host, no ssh and no interrupt notices.              *)

\* What a run sees of the main task, and of how it ended.
RunBusy == IF busy = Terminal THEN Nobody ELSE busy
RunExitCode == IF exitCode = EXIT_LOCAL THEN ExitCode(Reported) ELSE exitCode

\* No Host is taken for the prompt, and the run is not over twice.
SameMainTask ==
    /\ busy # Terminal /\ busy' # Terminal
    /\ RunExitCode' = RunExitCode

LEMMA InitAsARun == PrivilegedInit => AsRun!Init
<1> SUFFICES ASSUME PrivilegedInit PROVE AsRun!Init
    OBVIOUS
<1>1. RunBusy = Nobody /\ RunExitCode = NotExited
    BY TerminalIsNoHost
    DEF PrivilegedInit, Init, RunBusy, RunExitCode, NotAHost, NotExited,
        EXIT_LOCAL
<1> QED BY <1>1
        DEF PrivilegedInit, Init, InterruptInit, AsRun!Init,
            AsRun!InterruptInit, RunBusy, RunExitCode, FirstStep,
            AsRun!FirstStep, NoPid, AsRun!NoPid, NoChild, AsRun!NoChild,
            NoStatus, AsRun!NoStatus, NotExited, AsRun!NotExited

LEMMA MidPollAsARun ==
    ASSUME NEW h \in Hosts, MidPoll(h), SameMainTask
    PROVE  AsRun!MidPoll(h)
<1> USE DEF SameMainTask, RunExitCode, interruptVars, AsRun!interruptVars,
            Goto, AsRun!Goto, Settle, AsRun!Settle
<1>1. CASE Spawn(h)
    BY <1>1 DEF Spawn, AsRun!MidPoll, AsRun!Spawn, Alive, AsRun!Alive
<1>2. CASE SpawnFails(h)
    BY <1>2 DEF SpawnFails, AsRun!MidPoll, AsRun!SpawnFails
<1>3. CASE RegisterChild(h)
    BY <1>3
    DEF RegisterChild, Register, AsRun!MidPoll, AsRun!RegisterChild,
        AsRun!Register
<1>4. CASE SignalDoomed(h)
    BY <1>4
    DEF SignalDoomed, Signal, Alive, AsRun!MidPoll, AsRun!SignalDoomed,
        AsRun!Signal, AsRun!Alive
<1>5. CASE DeregisterChild(h)
    BY <1>5
    DEF DeregisterChild, Deregister, NoPid, AsRun!MidPoll,
        AsRun!DeregisterChild, AsRun!Deregister, AsRun!NoPid
<1> QED BY <1>1, <1>2, <1>3, <1>4, <1>5 DEF MidPoll

\* The verdict on a Host and what a launch reads out of it.
LEMMA SameVerdicts ==
    /\ \A k, t, e : AsRun!StatusOf(k, t, e) = StatusOf(k, t, e)
    /\ \A v, p : AsRun!Launched(v, p) = Launched(v, p)
    /\ \A s : AsRun!ExitCode(s) = ExitCode(s)
    /\ AsRun!Reported = Reported
BY DEF StatusOf, from_exit_code, Signalled, Unreadable, ConnectFailed,
       Launched, ExitCode, EXIT_OK, EXIT_FAILED, EXIT_UNREACHABLE,
       EXIT_INTERRUPTED, Reported,
       AsRun!StatusOf, AsRun!from_exit_code, AsRun!Signalled,
       AsRun!Unreadable, AsRun!ConnectFailed, AsRun!Launched, AsRun!ExitCode,
       AsRun!EXIT_OK, AsRun!EXIT_FAILED, AsRun!EXIT_UNREACHABLE,
       AsRun!EXIT_INTERRUPTED, AsRun!Reported

LEMMA SameSlots == HasSlot => AsRun!HasSlot
<1>1. AsRun!Cardinality(InFlight) = Cardinality(InFlight)
    BY DEF Cardinality, AsRun!Cardinality
<1>2. AsRun!InFlight = InFlight
    BY DEF InFlight, AsRun!InFlight
<1> QED BY <1>1, <1>2 DEF HasSlot, AsRun!HasSlot

LEMMA AtAwaitAsARun ==
    ASSUME NEW h \in Hosts, AtAwait(h), SameMainTask
    PROVE  AsRun!AtAwait(h)
<1> USE DEF SameMainTask, RunExitCode, interruptVars, AsRun!interruptVars,
            Goto, AsRun!Goto, Settle, AsRun!Settle
<1>1. CASE Dispatch(h)
    BY <1>1, SameSlots DEF Dispatch, AsRun!AtAwait, AsRun!Dispatch
<1>2. CASE WaitReturns(h)
    BY <1>2
    DEF WaitReturns, Alive, AsRun!AtAwait, AsRun!WaitReturns, AsRun!Alive
<1>3. CASE LimitExpires(h)
    BY <1>3
    DEF LimitExpires, Signal, Alive, AsRun!AtAwait, AsRun!LimitExpires,
        AsRun!Signal, AsRun!Alive
<1>4. CASE GraceExpires(h)
    BY <1>4
    DEF GraceExpires, Signal, Alive, AsRun!AtAwait, AsRun!GraceExpires,
        AsRun!Signal, AsRun!Alive
<1>5. CASE Drained(h)
  <2>1. AsRun!Verdict(h) = Verdict(h) /\ (AsRun!CutShort(h) <=> CutShort(h))
      BY SameVerdicts DEF Verdict, CutShort, AsRun!Verdict, AsRun!CutShort
  <2>2. ASSUME CopyConcluded(h, Verdict(h))
        PROVE  AsRun!CopyConcluded(h, Verdict(h))
      BY <2>2 DEF CopyConcluded, AsRun!CopyConcluded
  <2>3. ASSUME RunConcluded(h, Verdict(h))
        PROVE  AsRun!RunConcluded(h, Verdict(h))
      BY <2>3, SameVerdicts DEF RunConcluded, AsRun!RunConcluded
  <2> QED BY <1>5, <2>1, <2>2, <2>3
          DEF Drained, NoChild, AsRun!AtAwait, AsRun!Drained, AsRun!NoChild
<1>6. CASE StopReturns(h)
    BY <1>6 DEF StopReturns, AsRun!AtAwait, AsRun!StopReturns
<1> QED BY <1>1, <1>2, <1>3, <1>4, <1>5, <1>6 DEF AtAwait

LEMMA SshAsARun ==
    ASSUME NEW h \in Hosts, Ssh(h), RunBusy' = RunBusy,
           RunExitCode' = RunExitCode
    PROVE  AsRun!Ssh(h)
BY DEF Ssh, ChildExits, ChildDies, HelperExits, RunBusy, RunExitCode,
       interruptVars, Alive, Signalled, ConnectFailed,
       AsRun!Ssh, AsRun!ChildExits, AsRun!ChildDies, AsRun!HelperExits,
       AsRun!interruptVars, AsRun!Alive, AsRun!Signalled, AsRun!ConnectFailed

LEMMA InterruptAsARun ==
    ASSUME InterruptTask, RunBusy' = RunBusy, RunExitCode' = RunExitCode
    PROVE  AsRun!InterruptTask
<1> USE DEF RunBusy, RunExitCode, AsRun!hostVars, hostVars, interruptVars,
            AsRun!interruptVars, AsRun!InterruptTask
<1>0. ~Exited => ~AsRun!Exited
    BY DEF Exited, AsRun!Exited, NotExited, AsRun!NotExited, EXIT_LOCAL
<1>1. CASE CtrlC
    BY <1>0, <1>1
    DEF CtrlC, Begin, RunningHosts, Snapshot, NoPid, AsRun!CtrlC, AsRun!Begin,
        AsRun!RunningHosts, AsRun!Snapshot, AsRun!NoPid
<1>2. ASSUME NEW h \in Hosts, NEW s \in Steps, SignalTarget(h, s)
      PROVE  s \in AsRun!Steps /\ AsRun!SignalTarget(h, s)
    BY <1>0, <1>2
    DEF SignalTarget, TargetSignalled, Signal, SignalOf, Alive, Steps,
        AsRun!SignalTarget, AsRun!TargetSignalled, AsRun!Signal,
        AsRun!SignalOf, AsRun!Alive, AsRun!Steps
<1>3. CASE Escalate
    BY <1>0, <1>3
    DEF Escalate, EscalateBegins, GraceEnds, AllGone, EscalateReturns,
        RunningHosts, Snapshot, NoPid, AsRun!Escalate, AsRun!EscalateBegins,
        AsRun!GraceEnds, AsRun!AllGone, AsRun!EscalateReturns,
        AsRun!RunningHosts, AsRun!Snapshot, AsRun!NoPid
<1> QED BY <1>1, <1>2, <1>3 DEF InterruptTask

-----------------------------------------------------------------------------
(* The exit code *)

\* What the run will exit with is settled once it has.
LEMMA SameExitCode ==
    ASSUME UNCHANGED exitCode, Exited => UNCHANGED <<pc, status>>
    PROVE  RunExitCode' = RunExitCode
BY DEF RunExitCode, Exited, NotExited, EXIT_LOCAL, Reported

\* A step of the main task between the prompt and its Hosts.
LEMMA StutterAsARun ==
    ASSUME HostsStill, RunBusy' = RunBusy
    PROVE  UNCHANGED AsRun!vars
BY SameExitCode
DEF HostsStill, hostsAndRun, interruptVars, RunBusy, RunExitCode, AsRun!vars,
    AsRun!hostVars, AsRun!interruptVars

LEMMA ExitAsARun ==
    ASSUME PrivilegeTypeOK, PrivilegedInv, PrivilegedExit \/ FatalExit
    PROVE  AsRun!Exit
<1>1. /\ ~Exited /\ busy = Nobody
      /\ \A h \in Hosts : pc[h] \in {"settled", "skipped"}
      /\ UNCHANGED <<pc, busy, step, child, held, sent, timedOut, status,
                     remoteStopped, interruptVars>>
      /\ exitCode' \in {EXIT_LOCAL, ExitCode(Reported)}
    BY DEF PrivilegedExit, FatalExit, Exit
<1>2. RunExitCode = NotExited
    BY <1>1 DEF RunExitCode, Exited, NotExited, EXIT_LOCAL
<1>3. RunExitCode' = ExitCode(Reported)
    BY <1>1 DEF RunExitCode, Reported
<1>4. RunBusy = Nobody /\ RunBusy' = Nobody
    BY <1>1 DEF RunBusy
<1> QED BY <1>1, <1>2, <1>3, <1>4, SameVerdicts
        DEF RunBusy, RunExitCode, interruptVars, AsRun!Exit, AsRun!Exited,
            NotExited, AsRun!NotExited, AsRun!interruptVars

-----------------------------------------------------------------------------
LEMMA NextAsARun ==
    ASSUME PrivilegeTypeOK, PrivilegedInv, [PrivilegedNext]_allVars
    PROVE  AsRun!Next \/ UNCHANGED AsRun!vars
<1> USE DEF AsRun!Next
<1>0. NotAHost /\ HostsInv /\ TerminalServes
    BY TerminalIsNoHost DEF PrivilegedInv
<1>1. ASSUME RunStep
      PROVE  AsRun!Next
  <2>1. RunExitCode' = RunExitCode
      BY <1>0, <1>1, RunStepAfterExit, RunStepType, SameExitCode
  <2>2. CASE InterruptTask
      BY <2>1, <2>2, InterruptAsARun, InterruptStepType
      DEF RunBusy, PrivilegeTypeOK
  <2>3. ASSUME NEW h \in Hosts, MidPoll(h) \/ AtAwait(h)
        PROVE  SameMainTask
      BY <1>0, <2>1, <2>3, HostStepAwayFromPrompt DEF SameMainTask
  <2>4. ASSUME NEW h \in Hosts, Ssh(h)
        PROVE  RunBusy' = RunBusy
      BY <2>4 DEF Ssh, ChildExits, ChildDies, HelperExits, RunBusy
  <2> QED BY <1>1, <2>1, <2>2, <2>3, <2>4, MidPollAsARun, AtAwaitAsARun,
             SshAsARun DEF RunStep
<1>2. ASSUME NEW h \in Hosts, RegisterWithReader(h) \/ DrainedWithReader(h)
      PROVE  RunStep
    BY <1>2
    DEF RegisterWithReader, DrainedWithReader, RunStep, MidPoll, AtAwait
<1>3. ASSUME NEW h \in Hosts,
             SudoAsks(h) \/ SudoReads(h) \/ ReaderAsks(h) \/ ReaderAnswered(h)
      PROVE  HostsStill /\ RunBusy' = RunBusy
    BY <1>3
    DEF SudoAsks, SudoReads, ReaderAsks, ReaderAnswered, vars, hostVars,
        hostsAndRun, HostsStill, RunBusy
<1>4. ASSUME NEW h \in Hosts, GiveUntried(h) \/ UserTypes(h) \/ UserGivesUp(h)
      PROVE  RunBusy = Nobody /\ RunBusy' = Nobody
  <2>1. serving = h /\ busy' = Nobody
      BY <1>4 DEF GiveUntried, UserTypes, UserGivesUp, PromptIsUp, Answered
  <2> QED BY <1>0, <2>1 DEF TerminalServes, NotAHost, RunBusy
<1>5. ASSUME NEW h \in Hosts, GiveUntried(h) \/ UserTypes(h)
      PROVE  HostsStill
    BY <1>5 DEF GiveUntried, UserTypes, HostsStill
<1>6. ASSUME NEW h \in Hosts, UserGivesUp(h)
      PROVE  AsRun!Next \/ UNCHANGED AsRun!vars
  <2>1. CASE Begin
    <3>1. ~Exited /\ UNCHANGED hostsAndRun
      <4>1. Asking(h)
          BY <1>6
          DEF UserGivesUp, PromptIsUp, PrivilegedInv, AsksAreSomewhere
      <4>2. pc[h] \notin EndStates
          BY <4>1, NobodyAsksAtTheEnd
      <4> QED BY <1>0, <1>6, <4>2 DEF HostsInv, ExitIsTheEnd, UserGivesUp
    <3>2. RunExitCode' = RunExitCode
        BY <3>1, SameExitCode DEF hostsAndRun
    <3>3. AsRun!CtrlC
        BY <1>4, <1>6, <2>1, <3>1, <3>2
        DEF RunBusy, RunExitCode, hostsAndRun, Exited, NotExited, EXIT_LOCAL,
            Begin, RunningHosts, Snapshot, NoPid, AsRun!CtrlC, AsRun!Begin,
            AsRun!RunningHosts, AsRun!Snapshot, AsRun!NoPid, AsRun!hostVars,
            AsRun!Exited, AsRun!NotExited
    <3> QED BY <3>3 DEF AsRun!InterruptTask
  <2>2. CASE UNCHANGED interruptVars
      BY <1>4, <1>6, <2>2, StutterAsARun DEF UserGivesUp, HostsStill
  <2> QED BY <1>6, <2>1, <2>2 DEF UserGivesUp, StopForPrompt, Trigger
<1>7. CASE TakeRequest
  <2>1. RunBusy = Nobody /\ RunBusy' = Nobody
      BY <1>0, <1>7 DEF TakeRequest, RunBusy, NotAHost
  <2> QED BY <1>7, <2>1, StutterAsARun DEF TakeRequest, HostsStill
<1>8. CASE UNCHANGED allVars
  <2>1. HostsStill /\ UNCHANGED busy
      BY <1>8 DEF allVars, vars, hostVars, HostsStill, hostsAndRun
  <2> QED BY <2>1, StutterAsARun DEF RunBusy
<1> QED BY <1>1, <1>2, <1>3, <1>4, <1>5, <1>6, <1>7, <1>8, StutterAsARun,
           ExitAsARun, KindsOfSteps, PlainStepIsOfTheRun

\* Nothing a run under --privilege does to its Hosts, to their ssh or at an
\* interrupt is something a run could not do.
THEOREM PrivilegeRefinesRun == PrivilegedSpec => ImplementsRun
<1>1. PrivilegeTypeOK /\ PrivilegedInv /\ [PrivilegedNext]_allVars
          => [AsRun!Next]_(AsRun!vars)
    BY NextAsARun
<1> QED BY <1>1, InitAsARun, PrivilegeTypeCorrect, PrivilegedInvHolds, PTL
        DEF PrivilegedSpec, ImplementsRun, AsRun!Spec
=============================================================================

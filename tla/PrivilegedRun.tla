--------------------------- MODULE PrivilegedRun ---------------------------
(***************************************************************************)
(* A run under --privilege: Run, with a remote sudo behind every Host's    *)
(* ssh that may ask for a password, the stderr readers that notice it and  *)
(* ask the main task (src/run/prompt.rs), and the passwords the run has    *)
(* (src/privilege.rs).                                                     *)
(*                                                                         *)
(* The one terminal belongs to the main task.  While it is at the prompt   *)
(* (`busy = Terminal`) it polls no Host: their readers, their ssh children *)
(* and the interrupt task are all that moves.                              *)
(*                                                                         *)
(* A password is the number of the entry the user typed, 0 for none: what  *)
(* matters is which entry went where, never its bytes.  Whether it is the  *)
(* right one is the Host's to say.                                         *)
(***************************************************************************)
EXTENDS Run, Sequences, Functions

CONSTANTS
    Terminal,   \* the main task is at the prompt
    Unique,     \* the Hosts marked unique_privilege_pass
    Tries,      \* the passwords a remote sudo reads before it gives up
    MaxTyped    \* bound: the passwords the user is willing to type

ASSUME PrivilegeAssumption ==
    /\ Terminal \notin Hosts \cup {Nobody}
    /\ Unique \subseteq Hosts
    /\ Tries \in Nat \ {0}
    /\ MaxTyped \in Nat

NoPassword == 0
Unanswered == -1
Refused == -2

VARIABLES
    sudo,       \* the remote sudo of each Host
    reader,     \* the stderr reader of each Host's ssh
    asks,       \* is the main task's end of the ask channel open?
    queue,      \* the Hosts in that channel, in the order they asked
    serving,    \* the Host whose request the main task took
    answer,     \* what the oneshot of each Host's request carries
    shared,     \* Shared.password
    given,      \* Shared.given
    unique,     \* Unique.password of the Hosts in Unique
    typed,      \* how many passwords the user typed
    fatal,      \* the failure execute_on_hosts ends with
    written     \* the passwords written to each Host

passwordVars == <<shared, given, unique, typed, fatal>>
askVars == <<asks, queue, serving, answer>>
privilegeVars == <<sudo, reader, askVars, passwordVars, written>>
allVars == <<vars, privilegeVars>>

PrivilegeTypeOK ==
    /\ HostTypeOK
    /\ busy \in Hosts \cup {Nobody, Terminal}
    /\ exitCode \in {NotExited, EXIT_LOCAL} \cup ExitCodes
    /\ sudo \in [Hosts -> {"quiet", "marker", "blocked", "line", "done"}]
    /\ reader \in [Hosts -> {"off", "reading", "asking", "deaf"}]
    /\ asks \in BOOLEAN
    /\ queue \in Seq(Hosts)
    /\ serving \in Hosts \cup {Nobody}
    /\ answer \in [Hosts -> {Unanswered, Refused} \cup (1..MaxTyped)]
    /\ shared \in 0..MaxTyped
    /\ given \subseteq Hosts
    /\ unique \in [Hosts -> 0..MaxTyped]
    /\ typed \in 0..MaxTyped
    /\ fatal \in BOOLEAN
    /\ written \in [Hosts -> SUBSET (1..MaxTyped)]

PrivilegedInit ==
    /\ Init
    /\ sudo = [h \in Hosts |-> "quiet"]
    /\ reader = [h \in Hosts |-> "off"]
    /\ asks = TRUE
    /\ queue = << >>
    /\ serving = Nobody
    /\ answer = [h \in Hosts |-> Unanswered]
    /\ shared = NoPassword
    /\ given = {}
    /\ unique = [h \in Hosts |-> NoPassword]
    /\ typed = 0
    /\ fatal = FALSE
    /\ written = [h \in Hosts |-> {}]

-----------------------------------------------------------------------------
(* The Host's own steps, as --privilege changes them *)

\* The reader is spawned once the child is registered.  The copy of a script
\* elevates nothing: its stderr is read by a reader that answers nobody.
ReaderSpawned(h) ==
    reader' = [reader EXCEPT ![h] =
                  IF pc'[h] = "waiting" /\ step[h] = "run" THEN "reading" ELSE @]

RegisterWithReader(h) ==
    /\ RegisterChild(h) \/ SignalDoomed(h)
    /\ ReaderSpawned(h)
    /\ UNCHANGED <<sudo, askVars, passwordVars, written>>

\* PromptClock: the Host is blocked on rshx for a password, which is not time of
\* its own.  The mark is the reader's, set as its ask goes out.
Asking(h) == reader[h] = "asking"

\* wait_out_prompt: the limit is only ever decided while the Host has no ask
\* of its own out.
LimitExpiresOnOwnTime(h) ==
    /\ ~Asking(h)
    /\ LimitExpires(h)
    /\ UNCHANGED privilegeVars

\* The reader has read the stream to its end: not while it has an ask out, nor
\* with a marker still to read.
ReaderEnded(h) ==
    \/ reader[h] \in {"off", "deaf"}
    \/ reader[h] = "reading" /\ sudo[h] # "marker"

DrainedWithReader(h) ==
    /\ ReaderEnded(h)
    /\ Drained(h)
    /\ reader' = [reader EXCEPT ![h] = "off"]
    /\ sudo' = [sudo EXCEPT ![h] = "quiet"]
    /\ UNCHANGED <<askVars, passwordVars, written>>

\* Untouched by --privilege.  The wait for a child whose ask is out may return
\* at once or after the ask, as its select! happens to see them.
Unprivileged(h) ==
    /\ \/ Dispatch(h) \/ Spawn(h) \/ SpawnFails(h)
       \/ WaitReturns(h) \/ DeregisterChild(h)
       \/ GraceExpires(h) \/ StopReturns(h)
    /\ UNCHANGED privilegeVars

-----------------------------------------------------------------------------
(* The remote sudo: external, as MARKER, -S and the prompts use it *)

\* It prints the marker and blocks on its stdin.
SudoAsks(h) ==
    /\ child[h] = Alive
    /\ step[h] = "run"
    /\ sudo[h] = "quiet"
    /\ sudo' = [sudo EXCEPT ![h] = "marker"]
    /\ UNCHANGED <<vars, reader, askVars, passwordVars, written>>

\* It reads a line and accepts it, asks again, or gives up.
SudoReads(h) ==
    /\ child[h] = Alive
    /\ sudo[h] = "line"
    /\ \E next \in {"done"} \cup (IF Cardinality(written[h]) < Tries
                                  THEN {"marker"} ELSE {}) :
           sudo' = [sudo EXCEPT ![h] = next]
    /\ UNCHANGED <<vars, reader, askVars, passwordVars, written>>

-----------------------------------------------------------------------------
(* A Host's stderr reader: read_stderr, ask_for_password, Ask::answer *)

\* A marker is read, and the ask goes to the main task.  With the channel
\* closed there is nobody to ask, and the reader never asks again.
ReaderAsks(h) ==
    /\ reader[h] = "reading"
    /\ sudo[h] = "marker"
    /\ sudo' = [sudo EXCEPT ![h] = "blocked"]
    /\ \/ /\ asks
          /\ queue' = Append(queue, h)
          /\ reader' = [reader EXCEPT ![h] = "asking"]
       \/ /\ ~asks
          /\ reader' = [reader EXCEPT ![h] = "deaf"]
          /\ UNCHANGED queue
    /\ UNCHANGED <<vars, asks, serving, answer, passwordVars, written>>

\* The answer is back: a password is written to the Host, if its ssh is still
\* there to take it.
ReaderAnswered(h) ==
    /\ Asking(h)
    /\ answer[h] # Unanswered
    /\ \/ /\ answer[h] # Refused
          /\ child[h] = Alive
          /\ written' = [written EXCEPT ![h] = @ \cup {answer[h]}]
          /\ sudo' = [sudo EXCEPT ![h] = "line"]
          /\ reader' = [reader EXCEPT ![h] = "reading"]
       \/ /\ answer[h] = Refused \/ child[h] # Alive
          /\ reader' = [reader EXCEPT ![h] = "deaf"]
          /\ UNCHANGED <<written, sudo>>
    /\ answer' = [answer EXCEPT ![h] = Unanswered]
    /\ UNCHANGED <<vars, asks, queue, serving, passwordVars>>

-----------------------------------------------------------------------------
(* The main task: the select! of execute_on_hosts and Prompts::serve *)

hostsAndRun == <<pc, step, child, held, sent, timedOut, status, remoteStopped,
                 exitCode>>

Waiters == Range(queue)

\* A slip: only the Host in hand is told.
ReleaseOnlyOne(h) ==
    /\ asks' = FALSE
    /\ queue' = << >>
    /\ serving' = Nobody
    /\ answer' = [answer EXCEPT ![h] = Refused]

\* The receiver is dropped: whoever is still in the channel is released with
\* no answer, and so is the Host whose request is in hand.
ReleaseEverybody(h) ==
    /\ asks' = FALSE
    /\ queue' = << >>
    /\ serving' = Nobody
    /\ answer' = [g \in Hosts |->
                     IF g = h \/ g \in Waiters THEN Refused ELSE answer[g]]

\* A request is taken.  A stopping run has nobody to type for it.
TakeRequest ==
    /\ busy = Nobody
    /\ asks
    /\ queue # << >>
    /\ \/ /\ stopped
          /\ ReleaseEverybody(Head(queue))
          /\ UNCHANGED busy
       \/ /\ ~stopped
          /\ serving' = Head(queue)
          /\ queue' = Tail(queue)
          /\ busy' = Terminal
          /\ UNCHANGED <<asks, answer>>
    /\ UNCHANGED <<hostsAndRun, interruptVars, sudo, reader, passwordVars,
                   written>>

\* A slip: the run forgets who has had its password.
UntriedByAnybody(h) == IF h \in Unique THEN NoPassword ELSE shared

\* A slip: a Host's mark does not keep the run's password from it.
UntriedByMarked(h) == IF h \in given THEN NoPassword ELSE shared

\* `untried`: a password this Host has not been given yet.  The password of a
\* Host in Unique is marked tried as it is remembered, so it has none.
Untried(h) ==
    IF h \in Unique \/ h \in given THEN NoPassword ELSE shared

\* The Host in hand is given its answer and the main task polls again.
Answered(h, a) ==
    /\ answer' = [answer EXCEPT ![h] = a]
    /\ serving' = Nobody
    /\ busy' = Nobody
    /\ UNCHANGED <<asks, queue>>

\* The run has a password for this Host: no prompt.
GiveUntried(h) ==
    /\ serving = h
    /\ Untried(h) # NoPassword
    /\ given' = given \cup {h}
    /\ Answered(h, shared)
    /\ UNCHANGED <<hostsAndRun, interruptVars, sudo, reader, shared, unique,
                   typed, fatal, written>>

PromptIsUp(h) == serving = h /\ Untried(h) = NoPassword

\* A slip: the Hosts that were given the old password count as given the new.
RememberKeepsGiven(h, n) ==
    IF h \in Unique
    THEN unique' = [unique EXCEPT ![h] = n] /\ UNCHANGED <<shared, given>>
    ELSE shared' = n /\ given' = given \cup {h} /\ UNCHANGED unique

\* `remember`: a new shared password is due to everybody but the Host that it
\* was typed for.
Remember(h, n) ==
    IF h \in Unique
    THEN unique' = [unique EXCEPT ![h] = n] /\ UNCHANGED <<shared, given>>
    ELSE shared' = n /\ given' = {h} /\ UNCHANGED unique

\* A slip: nothing typed counts as a password.
UserTypesAnything(h) ==
    /\ PromptIsUp(h)
    /\ typed < MaxTyped
    /\ typed' = typed + 1
    /\ \E n \in {NoPassword, typed + 1} : Remember(h, n) /\ Answered(h, n)
    /\ UNCHANGED <<hostsAndRun, interruptVars, sudo, reader, fatal, written>>

UserTypes(h) ==
    /\ PromptIsUp(h)
    /\ typed < MaxTyped
    /\ typed' = typed + 1
    /\ Remember(h, typed + 1)
    /\ Answered(h, typed + 1)
    /\ UNCHANGED <<hostsAndRun, interruptVars, sudo, reader, fatal, written>>

\* `trigger`: the run is stopped as Ctrl-C stops it, if it is not already.
Trigger == Begin \/ (stopped /\ UNCHANGED interruptVars)

\* A slip: a run that cannot ask does not stop.
NoTrigger == UNCHANGED interruptVars

StopForPrompt == Trigger

\* Nothing was typed, or there is nowhere to ask (fails = TRUE), or Ctrl-C was
\* typed at the prompt, which is no failure: the run stops.
UserGivesUp(h) ==
    /\ PromptIsUp(h)
    /\ \E fails \in BOOLEAN : fatal' = fails
    /\ StopForPrompt
    /\ ReleaseEverybody(h)
    /\ busy' = Nobody
    /\ UNCHANGED <<hostsAndRun, sudo, reader, shared, given, unique, typed,
                   written>>

\* A slip: a run that could not ask is over at once.
FatalExitAtOnce ==
    /\ ~Exited
    /\ fatal
    /\ busy = Nobody
    /\ exitCode' = EXIT_LOCAL
    /\ UNCHANGED <<pc, busy, step, child, held, sent, timedOut, status,
                   remoteStopped, interruptVars, privilegeVars>>

PrivilegedExit ==
    /\ Exit
    /\ ~fatal
    /\ UNCHANGED privilegeVars

\* A run that could not ask is a local failure, whatever its Hosts were.
FatalExit ==
    /\ ~Exited
    /\ fatal
    /\ busy = Nobody
    /\ \A h \in Hosts : pc[h] \in {"settled", "skipped"}
    /\ exitCode' = EXIT_LOCAL
    /\ UNCHANGED <<pc, busy, step, child, held, sent, timedOut, status,
                   remoteStopped, interruptVars, privilegeVars>>

-----------------------------------------------------------------------------
Future(h) ==
    \/ RegisterWithReader(h)
    \/ LimitExpiresOnOwnTime(h)
    \/ DrainedWithReader(h)
    \/ Unprivileged(h)

Reader(h) == ReaderAsks(h) \/ ReaderAnswered(h)

MainAsks == TakeRequest \/ \E h \in Hosts : GiveUntried(h)

User == \E h \in Hosts : UserTypes(h) \/ UserGivesUp(h)

PrivilegedNext ==
    \/ \E h \in Hosts : Future(h) \/ Reader(h)
                        \/ (Ssh(h) /\ UNCHANGED privilegeVars)
                        \/ SudoAsks(h) \/ SudoReads(h)
    \/ MainAsks
    \/ User
    \/ InterruptTask /\ UNCHANGED privilegeVars
    \/ PrivilegedExit
    \/ FatalExit
    \/ Exited /\ UNCHANGED allVars

PrivilegedSpec == PrivilegedInit /\ [][PrivilegedNext]_allVars

\* As for Run; besides, readers are tasks of the runtime, and select! polls
\* its branches in a random order, so a request is not passed over for ever.
\* Cheap to evaluate first.
Progress ==
    \/ MainAsks
    \/ PrivilegedExit \/ FatalExit
    \/ /\ \/ Escalate
          \/ \E h \in Hosts, s \in Steps : SignalTarget(h, s)
       /\ UNCHANGED privilegeVars
    \/ \E h \in Hosts :
           \/ Reader(h)
           \/ Future(h)
           \/ /\ ChildDies(h) /\ (sent[h] = "kill" \/ h \notin Stubborn)
              /\ UNCHANGED privilegeVars

\* The user answers every prompt in the end; nobody else may take for ever.
\* No step can be taken again and again (a Host, its tries, an ask and the run
\* only move on), so a behaviour that is weakly fair to all of these together
\* stops only where none of them can move: it is weakly fair to each.
AnsweringUserSpec == PrivilegedSpec /\ WF_allVars(User \/ Progress)

-----------------------------------------------------------------------------
(* Safety *)

\* Every sudo that is blocked on its stdin has somebody on its way to answer
\* it, or is being killed: a reader that has stopped asking never leaves a
\* live Host waiting for a password nobody will write.
SudoNeverAbandoned ==
    \A h \in Hosts :
        sudo[h] = "blocked" /\ child[h] = Alive =>
            Asking(h) \/ (stopped /\ h \in killed)

\* The user is asked about a Host only when the run has no password for it, or
\* has one this Host has already been given and refused: one question for the
\* run, and one more per rejected answer.
PromptedOnlyIfNeeded ==
    \A h \in Hosts :
        busy = Terminal /\ PromptIsUp(h) =>
            LET current == IF h \in Unique THEN unique[h] ELSE shared
            IN  current = NoPassword \/ current \in written[h]

\* The run's password never reaches a Host that has one of its own, and that
\* one never reaches another Host.
PasswordsKeptApart ==
    \A u \in Unique :
        /\ shared # NoPassword => shared \notin written[u]
        /\ unique[u] # NoPassword =>
               \A h \in Hosts \ {u} : unique[u] \notin written[h]

\* A run that killed a Host says so: 99, or 1 when it was stopped because
\* nobody could be asked.
KilledRunSaysSo ==
    Exited /\ killed # {} =>
        exitCode = IF fatal THEN EXIT_LOCAL ELSE EXIT_INTERRUPTED

\* A password is never written to the same Host twice: it "would only burn
\* sudo's remaining tries".
NeverWrittenTwice ==
    [][\A h \in Hosts : sudo[h] = "blocked" /\ sudo'[h] = "line" =>
           answer[h] \notin written[h]]_allVars

(* Liveness *)

\* No ask is left hanging, whether it is answered, refused, or still in the
\* channel when the run stops asking.
AskersAreReleased ==
    \A h \in Hosts : Asking(h) ~> ~Asking(h)
-----------------------------------------------------------------------------
(***************************************************************************)
(* The inductive invariant: HostsInv of Run, and what follows here.        *)
(***************************************************************************)
\* Nobody reads a Host's stderr for a password before it is registered.
BeforeReader(h) ==
    \/ pc[h] \in {"pending", "starting", "spawned", "doomed"}
    \/ step[h] = "copy"

\* A reader and a sudo are those of a command's ssh, from its registration to
\* the end of its streams.
ReaderIsInPlace ==
    \A h \in Hosts :
        /\ reader[h] # "off" =>
               /\ pc[h] \in WaitStates \cup {"reaped", "draining"}
               /\ step[h] = "run"
        /\ sudo[h] # "quiet" =>
               /\ pc[h] \in WaitStates \cup {"spawned", "doomed", "reaped",
                                             "draining"}
               /\ step[h] = "run"

\* A Host that asks is in one place only: in the channel, in the main task's
\* hand, or with its answer ready.
AsksAreSomewhere ==
    /\ \A i, j \in DOMAIN queue : queue[i] = queue[j] => i = j
    /\ \A h \in Waiters : Asking(h) /\ answer[h] = Unanswered /\ serving # h
    /\ \A h \in Hosts :
           /\ serving = h => Asking(h) /\ answer[h] = Unanswered
           /\ answer[h] # Unanswered => Asking(h)

\* The Host in hand is the one whose prompt is up, or about to be.
TerminalServes == busy = Terminal <=> serving # Nobody

\* The run stops asking only as it stops, and then it releases everybody.
ClosedMeansStopped ==
    /\ ~asks => stopped /\ queue = << >> /\ serving = Nobody
    /\ \A h \in Hosts : answer[h] = Refused => ~asks

\* Every password is one that was typed.
OnlyWhatWasTyped ==
    /\ shared <= typed
    /\ \A h \in Hosts :
           /\ unique[h] <= typed
           /\ answer[h] <= typed
           /\ \A n \in written[h] : n <= typed

\* The passwords on their way to a Host, or there.
Sent(h) == written[h] \cup {answer[h]}

\* What the run knows a Host was given: its own password, or the shared one.
GivenTo(h) ==
    IF h \in Unique THEN unique[h]
    ELSE IF h \in given THEN shared ELSE NoPassword

\* What is on record as given to a Host went there, unless its ssh is past
\* taking it; and the run's password went to nobody who is not on record.
GivenIsSent ==
    \A h \in Hosts :
        /\ GivenTo(h) # NoPassword =>
               GivenTo(h) \in Sent(h) \/ reader[h] \in {"deaf", "off"}
        /\ BeforeReader(h) => GivenTo(h) = NoPassword
        /\ shared # NoPassword /\ shared \in Sent(h) => h \in given \ Unique

\* A password that is one Host's own is nobody else's.
OwnIsOwn ==
    \A u \in Unique : unique[u] # NoPassword =>
        /\ unique[u] # shared
        /\ \A h \in Hosts \ {u} : unique[u] \notin Sent(h) \cup {unique[h]}

\* The answer on its way to a Host is news to it.
AnswersAreNews == \A h \in Hosts : answer[h] \notin written[h]

ExitCodeIsReportedOrLocal ==
    Exited => /\ exitCode = IF fatal THEN EXIT_LOCAL ELSE ExitCode(Reported)
              /\ busy = Nobody

PrivilegedInv ==
    /\ HostsInv
    /\ ReaderIsInPlace
    /\ AsksAreSomewhere
    /\ TerminalServes
    /\ ClosedMeansStopped
    /\ SudoNeverAbandoned
    /\ OnlyWhatWasTyped
    /\ GivenIsSent
    /\ OwnIsOwn
    /\ AnswersAreNews
    /\ ExitCodeIsReportedOrLocal

-----------------------------------------------------------------------------
(* Refinement *)

\* To its Hosts and to the interrupt, a main task at the prompt is one that has
\* not come back to them yet, and the local failure is an exit like any other.
AsRun == INSTANCE Run WITH
    busy <- IF busy = Terminal THEN Nobody ELSE busy,
    exitCode <- IF exitCode = EXIT_LOCAL THEN ExitCode(Reported) ELSE exitCode

\* --privilege adds nothing to what a run does to its Hosts: with the asks, the
\* prompts and the passwords left out, it is a run.
ImplementsRun == AsRun!Spec
=============================================================================

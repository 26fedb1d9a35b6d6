----------------------------- MODULE RemoteStop -----------------------------
(***************************************************************************)
(* src/remote.rs: one Host's command, wrapped in the marker that names it, *)
(* and the second connection that reads the marker and stops the tree      *)
(* below it.  Nothing orders the two but what is on the Host: a file and   *)
(* the process table.                                                      *)
(*                                                                         *)
(* The wrapper of an attached run and the payload of a detached one are    *)
(* the same shell here: both write $$, run the command in a subshell,      *)
(* remove the marker and exit.  Pids are not reused.                       *)
(***************************************************************************)
CONSTANTS
    Shell,          \* the `sh` of `marked`, whose pid is in the marker
    Sub,            \* the subshell it runs the command in
    Jobs,           \* the processes the command may start
    Deaf,           \* those that ignore SIGTERM
    Hosts,          \* the kinds of Host and of command, as records
    Init1           \* the process that orphans are handed to

Procs == {Shell, Sub} \cup Jobs

\* tmp: whether the marker can be made and written; ps: the Host has ps and awk;
\* tame: the command waits for what it starts, and nothing is started any more
\* once the tree is listed; overtaken: a stop may be there before the wrapper is
\* through its first statement, which remote.rs takes to be impossible.
HostKinds ==
    [tmp : {"writable", "full", "unwritable"}, ps : BOOLEAN, tame : BOOLEAN,
     overtaken : BOOLEAN]

ASSUME ShellAssumption == Shell # Sub /\ Shell \notin Jobs /\ Sub \notin Jobs
ASSUME DeafAssumption == Deaf \subseteq Jobs
ASSUME HostsAssumption == Hosts \subseteq HostKinds
ASSUME InitAssumption == Init1 \notin Procs

VARIABLES
    host,           \* the Host this is
    shell,          \* where the wrapper is
    alive,          \* the processes on the Host
    parent,         \* their parents; Shell stands for the parent of the unborn
    born,           \* the processes there have been
    marker,         \* the file: "none", "empty" or "pid"
    stop,           \* where the stop connection and its script are
    found,          \* what the script read in the marker
    list,           \* the pids it signals
    answer          \* what `stop` answered to the run

vars == <<host, shell, alive, parent, born, marker, stop, found, list, answer>>
onHost == <<shell, alive, parent, born>>
onStop == <<stop, found, list, answer>>

Init ==
    /\ host \in Hosts
    /\ shell = "unforked"
    /\ alive = {} /\ born = {}
    /\ parent = [p \in Procs |-> Shell]
    /\ marker = "none" /\ found = "none"
    /\ stop = "idle"
    /\ list = {}
    /\ answer = "none"

-----------------------------------------------------------------------------
(* The process table *)

\* Those whose parent is gone are handed to Init1.
Die(dead) ==
    /\ alive' = alive \ dead
    /\ parent' = [p \in Procs |->
                    IF p \in alive /\ parent[p] \in dead THEN Init1 ELSE parent[p]]

Fork(p, q) ==
    /\ alive' = alive \cup {q}
    /\ born' = born \cup {q}
    /\ parent' = [parent EXCEPT ![q] = p]

MayStart == host.tame => list = {}

Children(p) == {q \in alive \ {Shell} : parent[q] = p}

-----------------------------------------------------------------------------
(* The wrapper: echo $$ > $m; ( command ); rc=$?; rm -f $m; exit $rc *)

\* The stop has to connect and to start a shell of its own.
NotYetRead == stop \in {"idle", "connecting"}

SshdForks ==
    /\ shell = "unforked" /\ NotYetRead
    /\ Fork(Init1, Shell)
    /\ shell' = "starting"
    /\ UNCHANGED <<host, marker, onStop>>

\* The redirection makes the file, and `echo` is not run without one.
OpenMarker ==
    /\ shell = "starting"
    /\ IF host.tmp = "unwritable"
       THEN UNCHANGED marker /\ shell' = "forking"
       ELSE marker' = "empty" /\ shell' = "opened"
    /\ UNCHANGED <<host, alive, parent, born, onStop>>

\* A file that has been removed meanwhile is written all the same, unseen.
WriteMarker ==
    /\ shell = "opened"
    /\ marker' = IF marker = "empty" /\ host.tmp # "full" THEN "pid" ELSE marker
    /\ shell' = "forking"
    /\ UNCHANGED <<host, alive, parent, born, onStop>>

StartCommand ==
    /\ shell = "forking" /\ Shell \in alive /\ MayStart
    /\ Fork(Shell, Sub)
    /\ shell' = "waiting"
    /\ UNCHANGED <<host, marker, onStop>>

CommandEnded ==
    /\ shell = "waiting" /\ Shell \in alive /\ Sub \notin alive
    /\ shell' = "removing"
    /\ UNCHANGED <<host, alive, parent, born, marker, onStop>>

RemoveMarker ==
    /\ shell = "removing" /\ Shell \in alive
    /\ marker' = "none"
    /\ shell' = "leaving"
    /\ UNCHANGED <<host, alive, parent, born, onStop>>

ShellExits ==
    /\ shell = "leaving" /\ Shell \in alive
    /\ Die({Shell})
    /\ shell' = "gone"
    /\ UNCHANGED <<host, born, marker, onStop>>

Wrapper ==
    \/ SshdForks \/ OpenMarker \/ WriteMarker \/ StartCommand
    \/ CommandEnded \/ RemoveMarker \/ ShellExits

(* The command, whatever it is *)

JobForks(p, q) ==
    /\ p \in alive \ {Shell} /\ q \in Jobs \ born
    /\ MayStart
    /\ Fork(p, q)
    /\ UNCHANGED <<host, shell, marker, onStop>>

ProcessExits(p) ==
    /\ p \in alive \ {Shell}
    /\ host.tame => Children(p) = {}
    /\ Die({p})
    /\ UNCHANGED <<host, shell, born, marker, onStop>>

-----------------------------------------------------------------------------
(* stop, and the STOP script it runs on the Host *)

CutShort ==
    /\ stop = "idle"
    /\ stop' = "connecting"
    /\ UNCHANGED <<host, onHost, marker, found, list, answer>>

\* ssh cannot connect, or the Host's sudo wants a password the run has not got.
StopRefused ==
    /\ stop = "connecting"
    /\ stop' = "over"
    /\ answer' = IF answer = "none" THEN "notStopped" ELSE answer
    /\ UNCHANGED <<host, onHost, marker, found, list>>

\* A slip: the connection is over, so the stop is.
StopLimitIsTheEnd ==
    /\ stop \notin {"idle", "over"} /\ answer = "none"
    /\ answer' = "stopped"
    /\ UNCHANGED <<host, onHost, marker, stop, found, list>>

\* STOP_LIMIT: rshx gives the connection up.  A script that has started goes
\* on: killing an ssh does not stop what it started.
StopLimit ==
    /\ stop \notin {"idle", "over"} /\ answer = "none"
    /\ answer' = "notStopped"
    /\ UNCHANGED <<host, onHost, marker, stop, found, list>>

\* The wrapper's first statement is done, or there is no wrapper: "strictly more
\* work than the wrapper's first statement".
ScriptStarts ==
    /\ stop = "connecting"
    /\ host.overtaken \/ shell \notin {"starting", "opened"}
    /\ stop' = "reading"
    /\ UNCHANGED <<host, onHost, marker, found, list, answer>>

Finish ==
    /\ stop' = "over"
    /\ answer' = IF answer = "none" THEN "stopped" ELSE answer

ReadMarker ==
    /\ stop = "reading"
    /\ found' = marker
    /\ IF marker = "none" THEN Finish ELSE stop' = "unlinking" /\ UNCHANGED answer
    /\ UNCHANGED <<host, onHost, marker, list>>

\* A slip: the marker is left for the wrapper to remove.
LeaveMarker ==
    /\ stop = "unlinking"
    /\ IF found = "empty" THEN Finish ELSE stop' = "listing" /\ UNCHANGED answer
    /\ UNCHANGED <<host, onHost, marker, found, list>>

RemoveFirst ==
    /\ stop = "unlinking"
    /\ marker' = "none"
    /\ IF found = "empty" THEN Finish ELSE stop' = "listing" /\ UNCHANGED answer
    /\ UNCHANGED <<host, onHost, found, list>>

\* A slip: only the root's own children are wanted.
OneLevel == IF host.ps THEN {Shell} \cup Children(Shell) ELSE {Shell}

\* A slip: what is wanted is what is below the root.
BelowRoot == IF host.ps THEN {q \in alive \ {Shell} : parent[q] # Init1} ELSE {}

\* What awk makes of ps, round after round until nobody is added: the least set
\* that has the root and the children of everybody in it.  Without ps and awk the
\* recorded pid is all there is.
Closed(S) == Shell \in S /\ \A p \in S : Children(p) \subseteq S

Tree ==
    IF host.ps
    THEN {q \in alive \cup {Shell} : \A S \in SUBSET Procs : Closed(S) => q \in S}
    ELSE {Shell}

ListTree ==
    /\ stop = "listing"
    /\ list' = Tree
    /\ stop' = "terming"
    /\ UNCHANGED <<host, onHost, marker, found, answer>>

Term ==
    /\ stop = "terming"
    /\ Die(list \ Deaf)
    /\ stop' = "sleeping"
    /\ UNCHANGED <<host, shell, born, marker, found, list, answer>>

Kill ==
    /\ stop = "sleeping"
    /\ Die(list)
    /\ Finish
    /\ UNCHANGED <<host, shell, born, marker, found, list>>

Stop ==
    \/ CutShort \/ StopRefused \/ StopLimit \/ ScriptStarts
    \/ ReadMarker \/ RemoveFirst \/ ListTree \/ Term \/ Kill

Next ==
    \/ Wrapper
    \/ \E p \in Procs, q \in Jobs : JobForks(p, q)
    \/ \E p \in Procs : ProcessExits(p)
    \/ Stop

Spec == Init /\ [][Next]_vars

-----------------------------------------------------------------------------
(* What is expected of it *)

Listed == stop \in {"terming", "sleeping"} \/ (stop = "over" /\ list # {})

\* The type of the state; and from the listing on the recorded pid is among
\* those signalled, whatever ps said (`out = root` in STOP's awk).
RemoteTypeOK ==
    /\ host \in HostKinds
    /\ shell \in {"unforked", "starting", "opened", "forking", "waiting",
                  "removing", "leaving", "gone"}
    /\ alive \subseteq born /\ born \subseteq Procs
    /\ parent \in [Procs -> Procs \cup {Init1}]
    /\ marker \in {"none", "empty", "pid"}
    /\ stop \in {"idle", "connecting", "reading", "unlinking", "listing",
                 "terming", "sleeping", "over"}
    /\ found \in {"none", "empty", "pid"}
    /\ list \subseteq Procs /\ (Listed => Shell \in list)
    /\ answer \in {"none", "stopped", "notStopped"}

\* "a stop that arrives as the command ends finds either a live pid or nothing
\* at all": a marker on the Host names a shell that is still running, whoever
\* of the wrapper and the stop removed it and whoever ended the shell.  It is
\* also why a run leaves no marker behind once its shell is gone.
MarkerNamesALiveShell == marker # "none" => Shell \in alive

\* A Host that took the marker and has ps, and a command that neither leaves
\* orphans nor starts anything once the tree is listed: when the stop is reported as done,
\* nothing of the command is running, not even what ignores SIGTERM.  The marker
\* was there to be read, if a connection is more work than the wrapper's first
\* statement (src/remote.rs:258-263).
TameCommandIsStopped ==
    (/\ host.tmp = "writable" /\ host.ps /\ host.tame /\ ~host.overtaken
     /\ answer = "stopped")
        => alive \subseteq {Shell}

\* "A missing marker therefore means the Host never got as far as forking the
\* wrapper, or the wrapper has already removed it, and in both cases nothing
\* rshx started is still running."
MissingMarkerMeansNothingRuns ==
    answer = "stopped" /\ found = "none" => alive \subseteq {Shell}
=============================================================================

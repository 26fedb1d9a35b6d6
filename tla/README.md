# A verification of rshx

rshx runs one command, or one script, on many Hosts over ssh. This directory
models the parts of it that decide what happens and in which order: which Hosts
a run touches, how many ssh connections it opens, what an interrupt, a limit
and a password prompt do to Hosts that are at different points of their life,
what is reported and which exit code comes of it, and what is left running on a
Host that was cut short.

Paths are those of the repository; `run.rs` is `src/run.rs`.

## Inventory

| Component | State it keeps | Operations | What makes it correct |
|---|---|---|---|
| Interrupt (`interrupt.rs`) | `Children` under one lock: `stopped`, `running`, `killed` | `register`, `deregister`, `begin` (Ctrl-C or `trigger`), `escalate`, `wait_bounded` | no ssh in flight is missed by an interrupt, whichever side of the lock it starts on; what is killed is recorded |
| Run loop (`run.rs`) | the window of futures, outcomes, `asks`, `fatal` | start a Host, report it, answer an ask, exit | each Host started and reported at most once, never more than `--fanout` connections, an exit code made of what was reported |
| One Host's ssh (`run/ssh.rs`, `run/command.rs`) | the child, its pipes, its limit | spawn, register, wait, deregister, drain, verdict, stop connection | the kill and the limit outrank what the child's death looked like |
| Script (`run/script.rs`) | the step a Host is on | copy, then run | no run after a copy that was cut short |
| Detached launch (`run/detach.rs`) | – | `launched` | `running` only with a pid |
| Outcomes (`run/outcome.rs`, `lib.rs`) | – | `from_exit_code`, `exit_code` | two independent bits, outranked by an interrupt |
| Prompts (`run/prompt.rs`) | the readers, the ask channel, one oneshot per ask | ask, serve, answer, release | nobody who asked waits for ever |
| Passwords (`privilege.rs`) | the shared password and who was given it, one password per unique Host | `untried`, `remember`, `ask` | one question for the run and one per rejection; no password where it does not belong |
| Prompt clock and limit (`privilege.rs`, `interrupt.rs`) | per Host: when its ask went out, what it has spent waiting; the wait's start and deadline | `asking_now`, the mark's drop, `wait_out_prompt`, `wait_bounded`, `own_time` | a Host has all of its limit and no more, its own asks not counted |
| Marker filter, stream capture (`privilege.rs`, `run/stream.rs`) | what is held back, what is kept, whether something was dropped | `push`, `finish`, `read_capped` | no marker missed, imagined or shown, whatever the reads are; the cap is exact |
| Heartbeat (`heartbeat.rs`) | running Hosts, how many are done, the bar | `start`, `finish`, `tick`, `suspend`, `pause`, `resume`, `clear` | nothing is drawn over a prompt or a result line; what it shows is true |
| Report (`report.rs`) | – | `outcome`, `summary` | counts that add up, notes that are true, truncation that is said |
| Host file (`host.rs`) | declared Hosts with their fields, groups | `expand`, `parse`, `select` | each name once, no Host nobody asked for, cycles refused |
| Listing (`run/list.rs`) | – | `table` | each field under its header |
| Remote side (`remote.rs`) | marker file and process table of a Host | the wrapper, the launcher, `stop` and its script | the marker names a live shell; a command that can be stopped is stopped |
| Cause, command line | – | – | not modelled, see below |

How they interact. One main task polls every Host's future and the ask channel;
it owns the terminal. The interrupt task shares `Children` with the Hosts'
futures under a lock. Each ssh is a process beside rshx, and each Host's
streams are read by tasks of their own, which send their asks to the main task
and get a password back over a oneshot. A Host that was cut short opens a
second connection, whose script meets the first one's wrapper only through the
marker and the process table on the Host.

Hard behaviours: a Host starting while an interrupt is collecting the ones in
flight; a kill recorded by one task and read much later by another; a limit
that pauses while its own Host's ask is out; an ask that is still in the
channel when the run stops asking; an ssh that ignores SIGTERM, exits 255 on
it, or leaves a helper with its pipes; a marker split over reads; a timer, the
end of an ssh and a notification that are ready at once; a prompt between two
redraws of the progress line; a stop that reads the marker while the command
ends. `PROJECT.json` lists each of them at its line, with the
properties about it.

## Modules

| Module | Models | Uses |
|---|---|---|
| `Outcome` | `Status`, the status match of `run_remote_command`, `launched`, `exit_code` | – |
| `Interrupt` | `Children` and the escalation, as action operators | – |
| `AllGone` | `all_gone` with the notification it waits for, and its theorem | – |
| `Run` | a run without `--privilege`: window, ssh children, limit, script, stop connection, interrupt | `Outcome`, `Interrupt` |
| `RunReport` | what a run promises, whatever its children do | `Outcome` |
| `PrivilegedRun` | a run with `--privilege`: `Run` with sudos, readers, asks, terminal and passwords | `Run` |
| `MarkerFilter` | the reading of one stderr: sudo's marker and the cap, as action operators | – |
| `PromptedHost` | one ssh under a limit, with time: its stderr, its ask, `wait_bounded`, the prompts of other Hosts | `MarkerFilter` |
| `RunOutput` | what the user sees of a run: heartbeat, prompt, result lines, summary | `RunReport` |
| `HostFile` | expansion, duplicates, fields, groups, selection, the listing | – |
| `RemoteStop` | wrapper, command, stop script on one Host | – |
| `RunProofs`, `PrivilegedRunProofs`, `PromptedHostProofs`, `RunOutputProofs`, `RemoteStopProofs`, `HostFileProofs` | theorems; the first two end with the refinements of `RunReport` and of `Run` | the module they name; `PrivilegedRunProofs` extends `RunProofs` |
| `Folding` | what a loop over a sequence computes, one step at a time, for a constant operator `Step` | instantiated by `HostFileProofs`, once per loop |
| `MCRun`, `MCPrivilegedRun`, `MCPromptedHost`, `MCRunOutput`, `MCHostFile`, `MCRemoteStop` | values for TLC | |

Operators that begin with `\* A slip:` are mistakes this code could have made
(a dropped guard, a missing reset). The specifications do not use them. They
stand beside the definition they spoil, and each property is known to fail with
one of them in its place.

### Run

A Host's future is `pc[h]`, one value per stretch between two awaits or two
calls that touch `Children`. The main task is single: `busy` names the Host in
the middle of a poll, and no other Host moves until it reaches an await. The
interrupt task, the ssh children and their helpers move at any point, also
during a poll: that is why `Spawn`, `RegisterChild` and `SignalDoomed` are three
actions.

| Code | Model |
|---|---|
| `buffer_unordered(fanout)`, `is_stopped` before a start | `HasSlot`, `Dispatch` |
| `settle`: spawn, `register`, signal a doomed child, wait, `deregister`, drain | `Spawn`, `RegisterChild`, `SignalDoomed`, `WaitReturns`, `DeregisterChild`, `Drained` |
| `wait_bounded`: limit, SIGTERM, `GRACE`, SIGKILL | `LimitExpires`, `GraceExpires` |
| the status match, `was_killed` | `Verdict`, `StatusOf` |
| `remote::stop` | `StopReturns` here (its answer only); in full in `RemoteStop` |
| `begin`, `escalate` | `CtrlC`, `SignalTarget`, `Escalate` over `Interrupt`'s operators |
| `exit_code` when the stream ends | `Exit` |

`running`, `killed` and `stopped` are `Children`'s fields. A pid is a Host and
a step: numbers are not reused. `held` says whether anything but ssh itself has
its pipes open. Time is not counted: an armed timer may fire at any moment.

### AllGone

In `Interrupt` the grace period ends early by one step, possible whenever no ssh
is in flight. `AllGone` is what makes it so: `Remove` takes a Host's entry from the
map under the lock and `Notify` tells of it afterwards, while all_gone may be
anywhere between its registration (`Enable`), its look at the map (`Look`) and its
sleep (`Await`). `listens` is whether `notify_waiters` reaches it at that moment. The
interrupt may find the main task between the two halves of a `deregister`. The
module is a page with a theorem about it, and no run.

### PrivilegedRun

`sudo[h]` is the remote sudo, `reader[h]` the task on ssh's stderr, `queue` the
ask channel, `answer[h]` the oneshot. A password is the number of the entry the
user typed, so which entry went where can be told and its bytes cannot. While
the prompt is up `busy = Terminal` and no Host is polled, because `serve` is
awaited inside the handler of `select!`. `FatalExit` is the exit 1 of a run that
could not ask. `AsRun` is the module seen as a `Run`: the prompt maps to a main
task that is between two polls, and the exit 1 to the exit code of what was
reported.

### PromptedHost

`PrivilegedRun` lets a limit expire at any moment at which its Host's ask is not
out; `PromptedHost` asks whether the code's clock achieves that. It has one Host
and counts time. `now` moves by units and nothing happens promptly: any task may
be late by any number of them. `since` and `spent` are `Waiting`, `started`,
`before` and `deadline` are `wait_bounded`'s, and `wait` is the await it is at.
`heard` says whether `changed` has fired since this await registered for it:
`Listen` is a registration, so a notification before it is lost, which is what
`notify_waiters` does. The select! is armed in a step of its own (`Arm`) after
the deadline was computed, because `changed` registers when it is first polled.
While any prompt is up `prompt # "none"` and no step of `wait_bounded` is
possible; when it is over, all that is ready meanwhile may be taken in any
order. `own` is the measure the code does not have: the units in which the Host
was not asking. It is a history variable, no guard reads it.

The stream is a sequence over two symbols and the marker is `"r", "s"`; a read
returns any part of what is there. `visible` is what the remote side printed
beside the markers, so `KeptAsPrinted` compares the report with what was meant,
not with another way of filtering. The module assumes of the marker that no end
of it starts another one, which is so of `rshx-password:` and
is why stripping from left to right loses nothing.

| Code | Model |
|---|---|
| `push`, `finish`, `safe_prefix`, `read_capped` | `Push`, `FinishFilter`, `SafePrefix`, `ReadCapped` |
| `asking_now`, the drop of `Asking` | `AskGoesOut`, `AskComesBack` |
| `ask_for_password`, `Ask::answer` | `Asks`, `ReaderAnswered` |
| `wait_out_prompt` at 217 and 232 | `hold`, `asleep` and `recheck`, `asleepAgain` |
| the select! | `Arm`, then `ChildSeen`, `SleepOver` or `PromptChanged` |
| 229-241, then SIGTERM | `Recheck` |

### RunOutput

Every step is a step of `RunReport` with what the main task draws and writes in
it, or a step of output alone, so whatever `Run` can report is reported here. The
terminal is its last line: free, the bar's, or a prompt's. indicatif's bar is
external and modelled by what `heartbeat.rs` says of it: a bar that is finished
draws nothing, `reset` makes it draw again and zeroes its position, every setter
draws. `garbled` records a line drawn or written over another. An outcome is a
status, how much was printed, whether rshx stopped the command, and whether it
said that it could not.

### RemoteStop

`shell` is the wrapper's place in `echo $$ > m; ( command ); rm m; exit`, `stop`
the script's in `cat m; rm m; ps | awk; kill -TERM; sleep; kill -KILL`. The
payload of a detached run is the same shell. `alive` and `parent` are the process
table; the command forks and ends as it likes. That the script never reads while
the wrapper has not done its first statement is an assumption of `remote.rs`
(258-263), and a property of the Host here: `remote_stop` has also those on which
it is wrong (`overtaken`). A file that is removed while the wrapper has it open is
written unseen. A *tame* command waits
for what it starts and starts nothing once the tree is listed (nor does the wrapper
fork its subshell that late).

### HostFile

A name is a number and its written width; text around it plays no role. A bound
above `MaxBound`, which is `u32::MAX`, is refused, and sums are not taken in its width. An entry
sets some of `user`, `port`, `ip` and its own password, and each Host carries its
entry's. The loops of `host.rs` are folds that stop at their first error;
`expand_group` is a recursive function of the group and the path that led to it,
which it returns as the code's `&mut visiting` does. They are checked against a
declarative reading: `Declares`, `WellFormed` and `NamedOnce` speak of all the
places in which a name stands for a Host, and `Reached` of the least set of groups
closed under naming, so none of them has an order of evaluation or a path. `Cells`
pushes a row's cells one by one as `table` does, and `ListedUnderItsHeader` finds
each of them by its header.

## Runs

| Run | Instance | Shows |
|---|---|---|
| `command_run` | 3 Hosts, fanout 2, limit, helpers on every Host | the interrupt's promises, the window, exit 99, `RunReport` is implemented |
| `script_run` | 2 Hosts, fanout 1, detached script under `--privilege`, limit, stubborn ssh, foreign signals | no run after a cut copy; a run with a limit ends; `Run` is implemented |
| `privileged_run` | 2 Hosts, 2 tries, 2 passwords, no limit | one question per run and per rejection; no sudo abandoned |
| `asks_end` | 2 Hosts, one with a password of its own, one whose ssh is stubborn, no limit | passwords kept apart; every ask released; an interrupt alone ends the run |
| `prompted_host` | 1 Host, limit 2, grace 1, one ask, one other Host's prompt, a stream of up to 2 symbols and a marker, cap 1, 4 units of time | marker and cap; all of the limit and no more |
| `run_output` | 3 Hosts with a limit, all options, output below and above the cap | the terminal, the counts, the notes |
| `host_file` | all files of 2 entries, all of 2 groups of 2 selectors, all shapes of 3 groups, all sets of fields of 2 entries | loading, selection, listing |
| `remote_stop` | subshell and 3 processes, 2 of which ignore SIGTERM, 24 kinds of Host | the marker, the tree |
| `late_child_outlives`, `interrupted_exits_zero`, `ended_host_times_out`, `unmarked_command_runs` | small instances | what the code does against what it says, below |

Why the bounds are enough. Two Hosts are one before and one after any point of
an interrupt; the third of `command_run` is the one still waiting for a slot
when two are in flight. Each Host has one record per table and no action relates
more than two Hosts. Two typed passwords and two tries give a rejection, a
correction, and a Host that was given the old password. Three groups give cycles
of length one, two and three and a group shared by two. A subshell, a child and
a grandchild need two rounds of awk's loop. A limit of two units can be cut by an
ask in its middle, and four units leave an ask, another Host's prompt and a grace
period room beside it; two symbols make every marker, every start of one and
every text that is neither. Three Hosts are one that has settled, one at its
prompt and one that was never started. `MaxTyped`, `Tries`, `MaxExpansion`,
`MaxBound`, `Children`, `MaxVisible`, `MaxOthers`, `MaxTime`, `Prints` and the sets of processes and
files are the only bounds on what can happen. `MaxTime` does not stop the clock
within a grace period, so a signalled ssh is always seen to its end.

`script_run` checks what a script adds, and what a limit adds under `--privilege`;
the invariants of every run are checked by `command_run`, and proved for scripts
as for commands, with `--privilege` and without.

Symmetry over Hosts is used in safety runs where no constant tells them
apart (`Stubborn` and `Clinging` empty or all Hosts, `Unique` empty).
The runs of `RemoteStop` do not check for deadlock: a Host
where everything has ended has nothing left to do. The other modules have an
explicit final step, so a deadlock there is an error.

### Fairness

Liveness is stated under weak fairness of: each Host's future (tokio polls a
future that is ready, timers fire, `GRACE` and `STOP_LIMIT` are finite); the
interrupt task; the death of an ssh that was sent SIGKILL, or SIGTERM when it is
not stubborn; the main task taking asks and exiting; each reader. `select!`
polls its branches in random order, so an ask is not passed over for ever by
outcomes. Nothing obliges an ssh to end on its own, a helper to let go of a
pipe, or the user to press Ctrl-C. `script_run`, `asks_end` and `prompted_host` assume
that the user answers a prompt: while one is up nothing else is polled, so without an
answer no limit and no interrupt ends anything that still has to be polled.
`prompted_host` assumes besides that time passes.

`PrivilegedRun` and `PromptedHost` ask for weak fairness of all these steps
together rather than of each. It is the same there: no step can be taken again
and again, since an ask, a try, a Host and the clock only move on, so a behaviour
that is fair to their disjunction stops only where none of them is possible.

## What the code does against what it says

* `late_child_outlives`: an ssh that registers after the escalation collected
  the survivors gets one SIGTERM. If it ignores it, and there is no limit, it
  holds the run open for ever. `EscalationKills` and `InterruptedRunExits` say
  what does hold.
* `interrupted_exits_zero`: a run interrupted while nothing is in flight leaves
  out the Hosts that are left and exits 0. `KilledRunExits99` is what holds: an
  interrupt that killed a Host is never lost.
* `ended_host_times_out`: a prompt keeps the main task from every Host, as
  `serve` is awaited in the handler of the select!. An ssh that ends within its
  limit meanwhile is looked at together with its expired timer, which may win.
* `unmarked_command_runs`: without a marker, because `/tmp` did not take it or
  because the subshell ended before its background jobs, a stop reports success.

Met while modelling and not kept as runs; where a property is named, the bullet says
what its run takes for granted:

* What `remote.rs` calls an ordering (258-263) is a matter of speed. With an
  `overtaken` wrapper, a script that finds no marker, or the empty file between its
  opening and its writing, reports success, and the wrapper goes on to run the
  command. `TameCommandIsStopped` holds where this cannot happen.
* A stop that read its marker has not stopped what was in no list: a job whose
  parent had ended, or a process forked after ps was read, which can be the
  command's own subshell. `TameCommandIsStopped` excludes both.
* `run/ssh.rs:85-88` says that once the child is gone its pipes close. A helper
  that shares them (a ProxyCommand, a ControlPersist master) keeps the two reads, and
  with them the run, open past every limit: `LimitedRunExits` fails with one `Clinging`.
* A signal from somebody else makes a Host `cancelled` and the run exit 99, and
  `NinetyNineMeansInterrupted` fails with `ForeignSignal`. No stop is attempted for such
  a Host and nothing is said on its line, so the note "except where it says
  otherwise above" is not true of it: `NoteIsTrue` fails as well.
* An empty line at a later prompt fails the run with the words for a run in which
  nothing was written to any Host.
* While a prompt is up no limit of any Host expires at all. `README.md:577-578`
  says that another Host "keeps counting, and can still time out"; it does so
  when the user answers (`NeverOverslept` speaks of the moments in which the main
  task is free).
* Ctrl-C at the prompt returns before the newline that every other end of it
  writes (`privilege.rs:488`, `502-504`). The progress line, or the next line of
  the report, follows the prompt's text. `ScreenIsKept` says that nothing else
  does.
* `password_for` may hand a stop connection a password its Host was never given.

## Proofs

All theorems hold for every value of the constants that satisfies the modules'
`ASSUME`s: any finite set of Hosts, any fanout, any combination of options, any
set of stubborn ssh children, helpers and exit statuses; any host files and any
cap of an expansion, where `FilesAssumption` says what TOML and the parser of a
name let through.

`RunProofs`. `TypeCorrect` first. None of the safety properties is inductive:
`NoHostSlipsThrough` needs to know that `running` is set exactly from register to
deregister; `KilledRunExits99` that a killed Host has nowhere to go but
`cancelled`, and that its verdict is made before its slot is free; `NoneMissed`
that an ssh waited for while the run is stopping was either signalled or has its
pid in the hands of the escalation. `HostsInv` is the conjunction of such facts,
each named after what it says, with one lemma per action; `Inv` adds that the
exit code is that of what was reported, which is kept apart because a run under
`--privilege` may exit otherwise. From `Inv`: `NoHostSlips`, `NobodyMissed`,
`SignalledIsNeverBlamed`, `KillIsReported` and, as an action property,
`CutCopyIsTheEnd`. `WindowNeverOverfills` bounds the futures in flight by
counting finite sets, and `ConnectionsAreBounded` bounds the connections by it.
`NinetyNine` is proved from `~ForeignSignal`, its only additional assumption.

`RunKeepsTheContract`, at the end of `RunProofs`, is the refinement of `RunReport`: a Host with a
verdict that is still on its stop connection maps to one in flight, every step of
a Host inside its life to a stutter, and each of `Dispatch`, settling, `CtrlC` and
`Exit` to one step of `RunReport`.

`PrivilegedRunProofs`. A step under `--privilege` is a step of `Run`, about which
`RunProofs`' lemmas are cited, or one that changes only asks and passwords, so
`HostsInv` comes with it. What is new in `PrivilegedInv` is where an ask is and
which password is where. `AsksAreSomewhere`: a Host that asks is in the channel
once, in the main task's hand, or has its answer ready, and in one place only;
with `ClosedMeansStopped` this makes `SudoIsNeverAbandoned`. `GivenIsSent`: what is
on record as given to a Host is written there or on its way, or its reader is past
writing; so `untried` offers only what is news (`AnswersAreNews`), which gives
`NoPasswordTwice` and `NoNeedlessPrompt`. `OwnIsOwn`: the number of an entry is
larger than any before it (`OnlyWhatWasTyped`), so an entry that was one Host's own
is nobody else's, which gives `PasswordsStayApart`. `KillOrFailureIsReported` is
`Run`'s `KillIsReported` with the exit 1 of a run that could not ask.

What `RunProofs` shows of a run is shown again of one under `--privilege`, from
the same lemmas: `InterruptUnderPrivilege`, `CutCopyIsTheEndUnderPrivilege` (which
`script_run` checks), `ConnectionsUnderPrivilege` and `NinetyNineUnderPrivilege`.

`PrivilegeRefinesRun`, at the end of `PrivilegedRunProofs`: with asks, prompts and passwords
left out, every step is one of `Run` or none. What needs an argument is the main
task, which `Run` sees polling nobody while a prompt is up, and `FatalExit`, which
`Run` sees as its own exit because it waits for every Host to be settled. What is
proved of every behaviour of `Run` is therefore so of a run under `--privilege`.

`RemoteStopProofs`. `MarkerIsAlive` needs the order of the two sides (`Ordered`):
a script that has read a pid found a wrapper past its first statement; once anything
is listed the marker is gone for good; so only a shell without a marker is ever
killed. `TameIsStopped` needs besides that everybody alive is in the tree that is listed. `Descended` says this without the depth of anybody: whoever is alive is in
every set that holds the shell and the children of its members. A fork keeps it
because the child's parent is in the set, an end because a tame command leaves no
orphans, and the listed tree is such a set, so it holds everybody. The rest of
`TameInv` says that the marker is there to be found while there is anybody to be
stopped.

`AllGone`'s `LastIsNotSleptThrough`: all_gone listens from before its look on, so an
entry that is removed after the look is heard of (`ListensFromItsLookOn`).

`PromptedHostProofs` begins with sequences, for every marker that does not overlap
itself. What is left of a text is defined by numbering the places beside its
markers; `KthIsNumbered` shows that the numbering is one to one, by counting sets.
From that, `LeftOverOfBoth`: where no marker lies across the seam, the left-overs
of two texts are those of their concatenation. `Held` says what a filter holds back:
the longest end of the text that starts a marker. `NothingAcross` shows that what
is let through then ends at no marker's middle, and `PushedOn`, that after `push`
all of this is so of the longer text; here a marker that does not overlap itself is
needed, because a start of the next one may not reach into the last. `KeepIsCapped`
says that text kept piece by piece is the beginning of all of it.

Then the limit. `AllOfItsLimit` and `NoMoreThanItsLimit` are two readings of
one sum: from the wait's first step to its last, `own_time` is the time that was
the Host's own (`OwnTimeIsOwn`), whatever asks were out before it began. That is
not enough for the sleep, which is decided on before the select! listens:
`SleepIsShort` says that a deadline in force never lies beyond what is left, also
after notifications nobody heard, because time that turns out to be an ask's only
makes it too early. `AskWakes` is the order of `wait_out_prompt`: whoever sleeps
through an ask and has heard nothing is right to. Nothing is assumed of the
marker's text, the stream, or how long anything takes.

The stream has an invariant of its own, `StreamInv`. `KeptSoFar` says at every read
what the filter has done with the text so far, by the lemmas about sequences, and at the
end that it is all that was printed: `StderrIsKept`. `OneMarkerAtATime` says that a
marker not yet read is the last thing in the stream and that its sudo waits, which
is why one request per chunk is enough: `SudoIsAskedFor`.

`RunOutputProofs`. `OutputInv` says who owns the last line of the terminal at each
moment, and that the heartbeat's own count is the number of reported Hosts; the
progress line follows from it because every path that makes the bar visible
again sets its position from that count. `ScreenStaysKept` and `BarIsTrue` hold
for every finite set of Hosts and every choice of options. `ReportInv` matches
outcomes with reported Hosts one to one, so that counting the first counts the
second: `SummaryIsComplete`. `NotesAreTrue` is proved from `~ForeignSignal`, without
which it is false (see above), and `CutsAreSaid` from the fold limit being below
the cap, which are the values in `report.rs` and `run/stream.rs`.

`HostFileProofs` is about loops and a recursion over data of any size, for which
no induction theorem with an operator for its hypothesis can be cited. `Folding`
declares the body of a loop as a constant operator instead. `StepByStep` says that a
fold has a sequence of accumulators, the first the loop's initial value and the
last its result, each one step from the one before; its proof inducts over a set
of numbers (`UpTo`), which needs no operator. `HostFileProofs` instantiates it for each
loop and then proves a loop invariant as it would an invariant of actions:
`ItemsSoFar` (`expand`), `HostsSoFar` (the names of one entry), `EntriesSoFar`
(`parse`), `SelectorsSoFar` (one group) and `KeptSoFar` (`select`).

* `AlwaysLoadedAsDeclared`: `Numbered` is a bijection between the places of a
  pattern and the list that `expand` makes of it. It counts the places, which gives
  the cap, and as no name stands in two places it counts the declared Hosts.
* `AlwaysSelectsWhatWasAsked`: `expand_group` is defined by a recursive equation, so
  its value is not known before the equation is shown to have a solution.
  `SomeSolution` gives one, `Answer`, which says without recursion what a
  group adds up to when nothing it reaches is on the path or in a cycle;
  `OneSolution` shows that there is no other, by induction on the number of
  groups that are not on the path. `ExpandGroupIs` is the consequence, from which
  it follows that only a cycle is refused and never a group that is shared.
* `AlwaysListedUnderItsHeader`: headers and cells are the same loop under the same
  conditions, so what is pushed at each step is a header and the cell below it.

`HostFileInv`, the inductive invariant (`AlwaysOfTheFile`), says that the file is one of
`Files` and that what has been parsed and selected is what `parse` and `select`
make of it.

Model-checked only: all liveness properties (`InterruptedRunExits`,
`LimitedRunExits`, `EscalationKills`, `AskersAreReleased` and those of
`PromptedHost`), which need fairness and `ENABLED`. Every invariant and every
safety action property of a passing run is a theorem.

## Not modelled

* `cli.rs`, `main.rs`: declarations a library interprets.
* `cause.rs`: classification of text; no state, and nothing is decided by it.
* In `report.rs`, `heartbeat.rs` and `run/list.rs`: colour, alignment, durations,
  the Host that has run longest, JSON encoding, the heading and the warnings
  before a run.
* In `privilege.rs`: the terminal's raw mode, the zeroing of passwords, the words
  put under sudo, and `password_for`, whose password matters only to a sudo that
  `RemoteStop` does not have.
* In `host.rs`: where a file is looked for, TOML itself, which characters a name
  may have, a group whose own name is written with brackets.
* In `run/stream.rs` and `report.rs`: the truncation line of stderr, which unlike
  stdout's cannot be folded away.
* A read error, which ends a stream as its end does. That a stream ends only when
  everybody has let go of it is modelled (`held`).
* Reuse of pids, the quoting of remote
  commands, ps that is not a snapshot.

## Plan

1. Done: `Outcome`, `Interrupt`, `Run` with `RunReport` and their proofs;
   `PrivilegedRun`, its proofs and that it implements `Run`; `HostFile` with
   fields, listing and proofs; `RemoteStop` and its proofs; `MarkerFilter` and
   `PromptedHost` with the proofs of the stream and of the limit; `RunOutput` with
   the proofs of the terminal and of the report.
2. Done: `AllGone`, the last ssh's notification and the theorem that it is not lost.
3. Passwords with a verdict: the stop connection's `password_for`.

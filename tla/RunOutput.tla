----------------------------- MODULE RunOutput -----------------------------
(***************************************************************************)
(* What the user of a run sees: the progress line (src/heartbeat.rs), the  *)
(* prompt that takes its place, one line per Host and the summary          *)
(* (src/report.rs), as the main loop of src/run.rs orders them.            *)
(*                                                                         *)
(* The run itself is RunReport; every step here is one of its steps with   *)
(* what the main task draws and writes in that step, or a step of output   *)
(* alone.  The window of RunReport is not narrowed: any number of Hosts    *)
(* may be in flight.                                                       *)
(***************************************************************************)
EXTENDS RunReport, FiniteSets

CONSTANTS
    FoldLimit,      \* FOLD_LIMIT
    Cap,            \* CAP of src/run/stream.rs
    Prints          \* what a command may print: [bytes, lines]

\* A stream that lost bytes to the cap is too long to fold.
ASSUME CapAssumption == FoldLimit \in Nat /\ Cap \in Nat /\ FoldLimit < Cap

ASSUME HostsAssumption == IsFiniteSet(Hosts)

ASSUME PrintsAssumption == Prints \subseteq [bytes : Nat, lines : Nat]

VARIABLES
    options,        \* [chrome, json, stdout, stderr]: Reporter and its Detail
    main,           \* the main task: "looping", or blocked at a "prompt"
    asks,           \* is the ask channel open? Only --privilege makes one
    fatal,          \* the run has nobody to ask
    abandoned,      \* a prompt was left standing, by Ctrl-C
    heartbeat,      \* State: [running, done]
    screen,         \* the last line of the terminal, and the bar's own state
    outcomes,       \* the outcomes of the Hosts that settled
    lines,          \* what the report says of each of them
    notStarted,
    summary

outputVars == <<options, main, asks, fatal, abandoned, heartbeat, screen,
                outcomes, lines, notStarted, summary>>
allVars == <<vars, outputVars>>

Options ==
    {o \in [chrome : BOOLEAN, json : BOOLEAN, stdout : BOOLEAN, stderr : BOOLEAN] :
        ~(o.json /\ o.chrome)}

CutShort == {"timeout", "cancelled"}

NoSummary == [note |-> "unwritten"]

-----------------------------------------------------------------------------
(* indicatif's bar: external, as heartbeat.rs relies on it *)

\* A bar that is hidden, or finished and cleared, draws nothing.  What is drawn
\* over a prompt, and what is written over the bar, is garbled.
Draw(s) ==
    IF options.chrome /\ s.live
    THEN [s EXCEPT !.line = "bar", !.garbled = @ \/ s.line = "prompt"]
    ELSE s

Erase(s) == [s EXCEPT !.line = IF @ = "bar" THEN "free" ELSE @]

Write(s) == [s EXCEPT !.garbled = @ \/ s.line # "free", !.line = "free"]

WritePrompt(s) == [Write(s) EXCEPT !.line = "prompt"]

finish_and_clear(s) == [Erase(s) EXCEPT !.live = FALSE]

\* The position is zeroed.
reset(s) == Draw([s EXCEPT !.live = TRUE, !.pos = 0])

set_position(s, n) == Draw([s EXCEPT !.pos = n])

set_message(s, n) == Draw([s EXCEPT !.inFlight = n])

-----------------------------------------------------------------------------
(* Heartbeat *)

redraw(s, hb) == set_message(s, Cardinality(hb.running))

\* A slip: a Host that settled is still counted among the running ones.
CountWithoutRemoving(hb, h) == [hb EXCEPT !.done = @ + 1]

\* `finish`, what it records.
CountSettled(hb, h) ==
    [running |-> hb.running \ {h}, done |-> hb.done + 1]

\* `finish`, what it draws, and the line of the report after it.
DrawSettled(s, hb) == redraw(set_position(s, hb.done), hb)

suspend(s) == Draw(Write(Erase(s)))

tick(s, hb) == Draw(redraw(s, hb))

\* A slip: the bar is hidden, which leaves its last line standing.
PauseHides(s) == [s EXCEPT !.live = FALSE]

pause(s) == finish_and_clear(s)

\* A slip: the bar starts again from nothing.
ResumeFromZero(s, hb) == redraw(reset(s), hb)

resume(s, hb) == redraw(set_position(reset(s), hb.done), hb)

-----------------------------------------------------------------------------
(* One Host's line *)

\* read_capped: the first Cap bytes.
Kept(print) ==
    [bytes |-> IF print.bytes > Cap THEN Cap ELSE print.bytes,
     lines |-> print.lines,
     truncated |-> print.bytes > Cap]

\* A slip: any single line is folded onto the Host's own.
FoldsAnyLine(stream) == stream.lines = 1

\* single_line
Folds(stream) == stream.bytes <= FoldLimit /\ stream.lines = 1

\* A slip: the stderr of a Host is shown when it is asked for.
ShowsStderrIfAsked(outcome) == options.stderr

ShowsStderr(outcome) == options.stderr \/ outcome.status # "ok"
ShowsStdout(outcome) == options.stdout \/ outcome.status # "ok"

\* `plain` and `json`: does the line carry the Host's stdout, does it say that
\* some of it is missing, and does it say that the command was not stopped?
Line(outcome) ==
    IF options.json
    THEN [host |-> outcome.host, stdout |-> TRUE,
          saysTruncated |-> outcome.stdout.truncated,
          saysUnstopped |-> ~outcome.remoteStopped]
    ELSE [host |-> outcome.host, stdout |-> ShowsStdout(outcome),
          saysTruncated |-> /\ ShowsStdout(outcome)
                            /\ ~Folds(outcome.stdout)
                            /\ outcome.stdout.truncated,
          saysUnstopped |-> ShowsStderr(outcome) /\ outcome.stopFailed]

-----------------------------------------------------------------------------
(* The summary *)

HowMany(status) == Cardinality({o \in outcomes : o.status = status})

\* Which note is owed: some of the Hosts cut short were not stopped.
Note(count, stopped) ==
    IF stopped = count THEN "none"
    ELSE IF stopped = 0 THEN "unfinished" ELSE "partly"

Summary ==
    LET cut == {o \in outcomes : o.status \in CutShort}
    IN  [counts |-> [s \in Status |-> HowMany(s)],
         notStarted |-> notStarted,
         note |-> Note(Cardinality(cut),
                       Cardinality({o \in cut : o.remoteStopped}))]

-----------------------------------------------------------------------------
OutputInit ==
    /\ Init
    /\ options \in Options
    /\ main = "looping"
    /\ asks \in BOOLEAN
    /\ fatal = FALSE /\ abandoned = FALSE
    /\ heartbeat = [running |-> {}, done |-> 0]
    /\ screen = redraw([line |-> "free", live |-> TRUE, pos |-> 0,
                        inFlight |-> 0, garbled |-> FALSE], heartbeat)
    /\ outcomes = {}
    /\ lines = {}
    /\ notStarted = 0
    /\ summary = NoSummary

\* The future of a Host is polled for the first time.
StartHost(h) ==
    /\ main = "looping"
    /\ Start(h)
    /\ heartbeat' = [heartbeat EXCEPT !.running = @ \cup {h}]
    /\ UNCHANGED <<options, main, asks, fatal, abandoned, screen, outcomes,
                   lines, notStarted, summary>>

\* A slip: a Host that is left out is left out of the counts as well.
SkipUncounted(h) ==
    /\ main = "looping"
    /\ LeaveOut(h)
    /\ UNCHANGED outputVars

Skip(h) ==
    /\ main = "looping"
    /\ LeaveOut(h)
    /\ notStarted' = notStarted + 1
    /\ UNCHANGED <<options, main, asks, fatal, abandoned, heartbeat, screen,
                   outcomes, lines, summary>>

\* How the stop of a Host ended: it is attempted for a Host rshx itself cut
\* short, and a failure is told in the Host's stderr.
Stops(status) ==
    LET tried == {[stopped |-> b, failed |-> ~b] : b \in BOOLEAN}
        none == {[stopped |-> FALSE, failed |-> FALSE]}
    IN  CASE status = "timeout" -> tried
          [] status = "cancelled" -> (IF interrupted THEN tried ELSE {})
                                     \cup (IF ForeignSignal THEN none ELSE {})
          [] OTHER -> none

\* A Host settles: it is counted, drawn, and reported under a suspended bar.
Settle(h) ==
    /\ main = "looping"
    /\ Report(h)
    /\ heartbeat' = CountSettled(heartbeat, h)
    /\ screen' = suspend(DrawSettled(screen, heartbeat'))
    /\ \E print \in Prints, stop \in Stops(verdict'[h]) :
           LET outcome == [host |-> h, status |-> verdict'[h],
                           stdout |-> Kept(print),
                           remoteStopped |-> stop.stopped,
                           stopFailed |-> stop.failed]
           IN  /\ outcomes' = outcomes \cup {outcome}
               /\ lines' = lines \cup {Line(outcome)}
    /\ UNCHANGED <<options, main, asks, fatal, abandoned, notStarted, summary>>

Running == \E h \in Hosts : phase[h] \notin {"reported", "leftOut"}

Tick ==
    /\ main = "looping"
    /\ Running
    /\ screen' = tick(screen, heartbeat)
    /\ UNCHANGED <<vars, options, main, asks, fatal, abandoned, heartbeat,
                   outcomes, lines, notStarted, summary>>

\* The run cannot ask: it stops, as an interrupt stops it.
CannotAsk(failed) ==
    /\ asks' = FALSE
    /\ fatal' = failed
    /\ interrupted' = TRUE
    /\ UNCHANGED <<phase, verdict, exitCode>>

\* A Host asks.  No prompt is written when the run has its password, or when
\* there is no terminal; the main task looks at nothing else until it has served
\* the request.
Serve ==
    /\ main = "looping"
    /\ asks
    /\ ~interrupted
    /\ \E h \in Hosts : phase[h] = "inflight"
    /\ \/ /\ screen' = resume(pause(screen), heartbeat)
          /\ CannotAsk(TRUE) \/ UNCHANGED <<vars, asks, fatal>>
          /\ UNCHANGED main
       \/ /\ screen' = WritePrompt(pause(screen))
          /\ main' = "prompt"
          /\ UNCHANGED <<vars, asks, fatal>>
    /\ UNCHANGED <<options, abandoned, heartbeat, outcomes, lines, notStarted,
                   summary>>

\* Nobody types for a run that is stopping, and nobody asks once it is over.
StopAsking ==
    /\ main = "looping"
    /\ asks
    /\ interrupted
    /\ asks' = FALSE
    /\ UNCHANGED <<vars, options, main, fatal, abandoned, heartbeat, screen,
                   outcomes, lines, notStarted, summary>>

\* The prompt is over: a line was typed, or none and the run cannot ask.  The
\* prompt ends its own line, but not on Ctrl-C.
PromptDone ==
    /\ main = "prompt"
    /\ main' = "looping"
    /\ \/ /\ screen' = resume([screen EXCEPT !.line = "free"], heartbeat)
          /\ CannotAsk(TRUE) \/ UNCHANGED <<vars, asks, fatal>>
          /\ UNCHANGED abandoned
       \/ /\ screen' = resume(screen, heartbeat)
          /\ CannotAsk(FALSE)
          /\ abandoned' = TRUE
    /\ UNCHANGED <<options, heartbeat, outcomes, lines, notStarted, summary>>

CtrlC == Interrupt /\ UNCHANGED outputVars

\* The run's end as a local failure.
FailLocally ==
    /\ exitCode = NotExited
    /\ ~Running
    /\ exitCode' = EXIT_LOCAL
    /\ UNCHANGED <<phase, verdict, interrupted>>

\* The bar is cleared, then the reason of a failure and the summary are written.
Conclude ==
    /\ main = "looping"
    /\ IF fatal THEN FailLocally ELSE Finish
    /\ screen' = Write(finish_and_clear(screen))
    /\ summary' = Summary
    /\ UNCHANGED <<options, main, asks, fatal, abandoned, heartbeat, outcomes,
                   lines, notStarted>>

Concluded == exitCode # NotExited /\ UNCHANGED allVars

OutputNext ==
    \/ \E h \in Hosts : StartHost(h) \/ Skip(h) \/ Settle(h)
    \/ Tick
    \/ Serve
    \/ StopAsking
    \/ PromptDone
    \/ CtrlC
    \/ Conclude
    \/ Concluded

OutputSpec == OutputInit /\ [][OutputNext]_allVars

-----------------------------------------------------------------------------
(* Safety *)

ReportedHosts == {h \in Hosts : phase[h] = "reported"}
InFlight == {h \in Hosts : phase[h] = "inflight"}

OutputTypeOK ==
    /\ options \in Options
    /\ main \in {"looping", "prompt"}
    /\ asks \in BOOLEAN
    /\ {fatal, abandoned} \subseteq BOOLEAN
    /\ heartbeat.running \subseteq Hosts
    /\ heartbeat.done + Cardinality(heartbeat.running) \in 0..Cardinality(Hosts)
    /\ screen \in [line : {"free", "bar", "prompt"}, live : BOOLEAN,
                   pos : 0..Cardinality(Hosts), inFlight : 0..Cardinality(Hosts),
                   garbled : BOOLEAN]
    /\ {o.host : o \in outcomes} = {l.host : l \in lines}
    /\ notStarted \in 0..Cardinality(Hosts)

\* Nothing is ever written over the progress line and the progress line is
\* never drawn over a prompt, in whatever order Hosts settle, ask and are
\* interrupted, unless Ctrl-C left a prompt without the end of its line; and
\* nothing is left above the summary on its own line.
ScreenIsKept ==
    /\ screen.garbled => abandoned
    /\ main = "prompt" => screen.line = "prompt"
    /\ summary # NoSummary => screen.line = "free"

\* Whenever the progress line is to be seen its position is the number of Hosts
\* reported so far, prompts or not, and it names no more Hosts as running than
\* are in flight.
BarTellsTheTruth ==
    screen.line = "bar" =>
        /\ screen.pos = Cardinality(ReportedHosts)
        /\ screen.inFlight <= Cardinality(InFlight)

\* The summary accounts for every Host that was selected, and explains the exit
\* code: a run that exits 0 without having run everywhere says so.
SummaryAddsUp ==
    summary # NoSummary =>
        /\ \A s \in Status :
               summary.counts[s] = Cardinality({h \in Hosts : verdict[h] = s})
        /\ summary.notStarted + Cardinality(outcomes) = Cardinality(Hosts)
        /\ exitCode = EXIT_OK =>
               summary.counts["ok"] + summary.counts["running"]
                   + summary.notStarted = Cardinality(Hosts)

\* The note under the summary is never a false comfort: without one, every
\* command that was cut short has been stopped; when it says "except where it
\* says otherwise above", every Host that was not stopped does say so above,
\* whatever streams the user asked to see.
NoteIsTrue ==
    summary # NoSummary =>
        LET left == {o \in outcomes : o.status \in CutShort /\ ~o.remoteStopped}
        IN  /\ summary.note = "none" <=> left = {}
            /\ summary.note = "partly" =>
                   \A o \in left :
                       \E l \in lines : l.host = o.host /\ l.saysUnstopped

\* Output that is shown and lost bytes to the cap says that it did.
TruncationIsSaid ==
    \A o \in outcomes : o.stdout.truncated =>
        \E l \in lines : l.host = o.host /\ (l.stdout => l.saysTruncated)
=============================================================================

---------------------------- MODULE PromptedHost ----------------------------
(***************************************************************************)
(* One ssh and the two tasks around it, with time: the reader of its       *)
(* stderr (read_stderr and ask_for_password of src/run/prompt.rs, the      *)
(* PromptClock of src/privilege.rs) and the main task's wait for it under  *)
(* a limit (wait_bounded of src/interrupt.rs).  The reader runs beside the *)
(* main task; the main task polls nothing while any prompt is up.          *)
(*                                                                         *)
(* Time is counted in whole units; nothing happens promptly, a task that   *)
(* could run may be late by any number of them.                            *)
(***************************************************************************)
EXTENDS MarkerFilter

CONSTANTS
    Symbols,    \* what a stream is made of
    Limit,      \* --timeout
    Grace,      \* GRACE
    Tries,      \* the times the remote sudo asks
    MaxVisible, \* bound: what is printed beside the markers
    MaxOthers,  \* bound: the prompts of other Hosts
    MaxTime     \* bound: the last unit of time, but for a grace period

ASSUME TimeAssumption ==
    /\ Marker \in Seq(Symbols)
    /\ {Limit, Grace} \subseteq Nat
    /\ {Tries, MaxVisible, MaxOthers, MaxTime} \subseteq Nat

NotAsking == -1

VARIABLES
    prompted,   \* does anybody watch for the marker? (--privilege, no copy)
    child,      \* the ssh: "alive", or "ended"
    sent,       \* the last signal wait_bounded sent it
    sudo,       \* the remote sudo: "quiet", or "blocked" on its stdin
    tries,      \* how often it asked
    stream,     \* all that came over stderr
    visible,    \* of this, what is not sudo's marker
    reader,     \* the task that reads it: "reading", "asking", "ended"
    read,       \* how much of the stream it has read
    answerable, \* may it still ask?
    open,       \* the main task's end of the ask channel
    request,    \* this Host's request: none, queued, or answered somehow
    prompt,     \* whose prompt is up: "none", "mine" or "other"
    others,     \* the other Hosts' prompts so far
    now,
    since,      \* Waiting.since
    spent,      \* Waiting.spent
    wait,       \* where wait_bounded is
    started, before, deadline,
    heard,      \* has `changed` fired since this await registered for it?
    timedOut,
    own         \* the units that were this Host's own, since it started

readerVars == <<filterVars, reader, read, answerable>>
remoteVars == <<prompted, child, sudo, tries, stream, visible>>
askVars == <<open, request, prompt, others>>
clockVars == <<since, spent>>
waitVars == <<sent, wait, started, before, deadline, timedOut>>
vars == <<readerVars, remoteVars, askVars, now, clockVars, waitVars, heard, own>>

Waits == {"unstarted", "hold", "asleep", "arm", "select", "recheck", "asleepAgain",
          "grace", "reap", "over"}

TypeOK ==
    /\ {prompted, answerable, open, heard, timedOut} \subseteq BOOLEAN
    /\ child \in {"alive", "ended"}
    /\ sent \in {"none", "term", "kill"}
    /\ sudo \in {"quiet", "blocked"}
    /\ stream \in Seq(Symbols)
    /\ Len(heldBack) < Len(Marker)
    /\ Len(kept) <= Cap
    /\ read \in 0..Len(stream)
    /\ reader \in {"reading", "asking", "ended"}
    /\ request \in {"none", "queued", "given", "refused"}
    /\ prompt \in {"none", "mine", "other"}
    /\ since \in {NotAsking} \cup 0..now
    /\ {spent, started, before, own} \subseteq 0..now
    /\ wait \in Waits

Init ==
    /\ FilterInit
    /\ prompted \in BOOLEAN
    /\ child = "alive" /\ sent = "none"
    /\ sudo = "quiet" /\ tries = 0
    /\ stream = << >> /\ visible = << >>
    /\ reader = "reading" /\ read = 0
    /\ answerable = TRUE /\ open = TRUE
    /\ request = "none" /\ prompt = "none" /\ others = 0
    /\ now = 0 /\ since = NotAsking /\ spent = 0
    /\ wait = "unstarted"
    /\ started = 0 /\ before = 0 /\ deadline = 0
    /\ heard = FALSE /\ timedOut = FALSE /\ own = 0

-----------------------------------------------------------------------------
(* The remote side: external, as the marker and the caps expect it *)

\* The command or ssh itself prints something.  What it prints is never rshx's
\* marker: a command that prints that is taken for sudo.
Prints ==
    /\ child = "alive"
    /\ sudo = "quiet"
    /\ Len(visible) < MaxVisible
    /\ \E s \in Symbols :
           /\ ~IsSuffix(Marker, Append(stream, s))
           /\ stream' = Append(stream, s)
           /\ visible' = Append(visible, s)
    /\ UNCHANGED <<prompted, child, sudo, tries, readerVars, askVars, now,
                   clockVars, waitVars, heard, own>>

\* sudo asks, and reads nothing but its stdin until it has a line.
SudoAsks ==
    /\ prompted
    /\ child = "alive"
    /\ sudo = "quiet"
    /\ tries < Tries
    /\ stream' = stream \o Marker
    /\ sudo' = "blocked"
    /\ tries' = tries + 1
    /\ UNCHANGED <<prompted, child, visible, readerVars, askVars, now,
                   clockVars, waitVars, heard, own>>

\* The ssh ends on its own, or of the signal it was sent.
Ends ==
    /\ child = "alive"
    /\ child' = "ended"
    /\ UNCHANGED <<prompted, sudo, tries, stream, visible, readerVars, askVars,
                   now, clockVars, waitVars, heard, own>>

-----------------------------------------------------------------------------
(* The reader: read_stderr, ask_for_password, Ask::answer *)

\* The clock: asking_now, and Asking's drop.  Both wake whoever listens.
AskGoesOut ==
    /\ since' = now
    /\ heard' = TRUE
    /\ UNCHANGED spent

\* A slip: only the ask that goes out is told.
AskComesBackUnheard ==
    /\ since' = NotAsking
    /\ spent' = spent + (now - since)
    /\ UNCHANGED heard

AskComesBack ==
    /\ since' = NotAsking
    /\ spent' = spent + (now - since)
    /\ heard' = TRUE

\* With the channel closed, the ask comes back as it goes out.
Asks ==
    \/ /\ open
       /\ reader' = "asking"
       /\ request' = "queued"
       /\ AskGoesOut
       /\ UNCHANGED answerable
    \/ /\ ~open
       /\ answerable' = FALSE
       /\ heard' = TRUE
       /\ UNCHANGED <<reader, request, clockVars>>

\* One read returns any part of what is there.
ReadChunk ==
    /\ reader = "reading"
    /\ \E n \in (read + 1)..Len(stream) :
           LET chunk == SubSeq(stream, read + 1, n)
           IN  /\ read' = n
               /\ IF prompted THEN Push(chunk) ELSE ReadCapped(chunk)
               /\ IF prompted /\ Asked(chunk) /\ answerable THEN Asks
                  ELSE UNCHANGED <<reader, answerable, request, clockVars, heard>>
    /\ UNCHANGED <<remoteVars, open, prompt, others, now, waitVars, own>>

\* The answer is back.  It is written to the ssh, if that still takes it.
ReaderAnswered ==
    /\ reader = "asking"
    /\ request \in {"given", "refused"}
    /\ AskComesBack
    /\ reader' = "reading"
    /\ request' = "none"
    /\ answerable' = (request = "given" /\ child = "alive")
    /\ sudo' = IF answerable' THEN "quiet" ELSE sudo
    /\ UNCHANGED <<filterVars, read, prompted, child, tries, stream, visible,
                   open, prompt, others, now, waitVars, own>>

StreamEnds ==
    /\ reader = "reading"
    /\ child = "ended"
    /\ read = Len(stream)
    /\ FinishFilter
    /\ reader' = "ended"
    /\ UNCHANGED <<read, answerable, remoteVars, askVars, now, clockVars,
                   waitVars, heard, own>>

-----------------------------------------------------------------------------
(* The main task: the terminal *)

\* The request of this Host is taken: a password the run has, a prompt, or a
\* run that is stopping and drops its end of the channel.
TakeRequest ==
    /\ prompt = "none"
    /\ request = "queued"
    /\ \/ prompt' = "mine" /\ UNCHANGED <<request, open>>
       \/ request' = "given" /\ UNCHANGED <<prompt, open>>
       \/ request' = "refused" /\ open' = FALSE /\ UNCHANGED prompt
    /\ UNCHANGED <<readerVars, remoteVars, others, now, clockVars, waitVars,
                   heard, own>>

\* `changed` is the whole run's: another Host's ask fires it as well.
Overheard == heard' = (heard \/ prompted)

OtherPrompt ==
    /\ prompt = "none"
    /\ others < MaxOthers
    /\ open
    /\ prompt' = "other"
    /\ others' = others + 1
    /\ Overheard
    /\ UNCHANGED <<readerVars, remoteVars, open, request, now, clockVars,
                   waitVars, own>>

\* The user types something, or nothing: then the run asks nobody any more, and
\* a request still in the channel is released.
PromptEnds ==
    /\ prompt # "none"
    /\ prompt' = "none"
    /\ \/ /\ request' = IF prompt = "mine" THEN "given" ELSE request
          /\ UNCHANGED open
       \/ /\ request' = IF request = "queued" THEN "refused" ELSE request
          /\ open' = FALSE
    /\ IF prompt = "other" THEN Overheard ELSE UNCHANGED heard
    /\ UNCHANGED <<readerVars, remoteVars, others, now, clockVars, waitVars,
                   own>>

-----------------------------------------------------------------------------
(* The main task: wait_bounded *)

Polled == prompt = "none"

Asking == since # NotAsking

SpentBy == IF Asking THEN spent + (now - since) ELSE spent

\* A slip: the limit starts with a credit, what was spent before it.
OwnTimeWithCredit == (now - started) - SpentBy

OwnTime == (now - started) - (SpentBy - before)

Goto(w) == wait' = w /\ UNCHANGED <<sent, timedOut>>

\* wait_out_prompt: it listens first, and looks then.
Listen(w) == Goto(w) /\ heard' = FALSE

waitRest == <<readerVars, remoteVars, askVars, now, clockVars, own>>

Begins ==
    /\ wait = "unstarted"
    /\ Polled
    /\ started' = now
    /\ before' = SpentBy
    /\ Listen("hold")
    /\ UNCHANGED <<waitRest, deadline>>

\* Its own ask is not its time: while it is out the wait sleeps until told.
HoldForAsk ==
    /\ Polled
    /\ \/ wait = "hold" /\ Asking /\ Goto("asleep")
       \/ wait = "recheck" /\ Asking /\ Goto("asleepAgain")
    /\ UNCHANGED <<waitRest, heard, started, before, deadline>>

Woken ==
    /\ Polled
    /\ heard
    /\ \/ wait = "asleep" /\ Listen("hold")
       \/ wait = "asleepAgain" /\ Listen("recheck")
    /\ UNCHANGED <<waitRest, started, before, deadline>>

\* What is left of the limit is slept for.
Decide ==
    /\ Polled
    /\ wait = "hold"
    /\ ~Asking
    /\ \/ /\ OwnTime < Limit
          /\ deadline' = now + (Limit - OwnTime)
          /\ Goto("arm")
          /\ UNCHANGED heard
       \/ /\ OwnTime >= Limit
          /\ Listen("recheck")
          /\ UNCHANGED deadline
    /\ UNCHANGED <<waitRest, started, before>>

\* The select! is polled, and only now it listens for the next ask.
Arm ==
    /\ Polled
    /\ wait = "arm"
    /\ Listen("select")
    /\ UNCHANGED <<waitRest, started, before, deadline>>

ChildSeen ==
    /\ Polled
    /\ wait \in {"select", "grace", "reap"}
    /\ child = "ended"
    /\ Goto("over")
    /\ UNCHANGED <<waitRest, started, before, deadline, heard>>

SleepOver ==
    /\ Polled
    /\ wait = "select"
    /\ now >= deadline
    /\ Listen("recheck")
    /\ UNCHANGED <<waitRest, started, before, deadline>>

\* An ask went out or came back: the deadline moves.
PromptChanged ==
    /\ Polled
    /\ wait = "select"
    /\ heard
    /\ Listen("hold")
    /\ UNCHANGED <<waitRest, started, before, deadline>>

TermSent ==
    /\ wait' = "grace"
    /\ sent' = "term"
    /\ timedOut' = TRUE
    /\ deadline' = now + Grace

\* A slip: the sleep is believed.
RecheckBelievesSleep ==
    /\ Polled
    /\ wait = "recheck"
    /\ ~Asking
    /\ TermSent
    /\ UNCHANGED <<waitRest, heard, started, before>>

\* The sleep cannot tell whose time ran out: it is decided again.
Recheck ==
    /\ Polled
    /\ wait = "recheck"
    /\ ~Asking
    /\ \/ /\ OwnTime < Limit
          /\ Listen("hold")
          /\ UNCHANGED deadline
       \/ /\ OwnTime >= Limit
          /\ TermSent
          /\ UNCHANGED heard
    /\ UNCHANGED <<waitRest, started, before>>

GraceOver ==
    /\ Polled
    /\ wait = "grace"
    /\ child = "alive"
    /\ now >= deadline
    /\ wait' = "reap"
    /\ sent' = "kill"
    /\ UNCHANGED <<waitRest, heard, started, before, deadline, timedOut>>

-----------------------------------------------------------------------------
\* A unit passes.  It is the Host's own unless its own ask is out.
Tick ==
    /\ now < MaxTime \/ (wait = "grace" /\ now < deadline)
    /\ now' = now + 1
    /\ own' = IF wait \in {"unstarted", "over"} \/ Asking THEN own ELSE own + 1
    /\ UNCHANGED <<readerVars, remoteVars, askVars, clockVars, waitVars, heard>>

Wait == Begins \/ HoldForAsk \/ Woken \/ Decide \/ Arm \/ ChildSeen \/ SleepOver
        \/ PromptChanged \/ Recheck \/ GraceOver

Reader == ReadChunk \/ ReaderAnswered \/ StreamEnds

Next ==
    \/ Prints \/ SudoAsks \/ Ends
    \/ Reader
    \/ TakeRequest \/ OtherPrompt \/ PromptEnds
    \/ Wait
    \/ Tick
    \/ wait = "over" /\ reader = "ended" /\ UNCHANGED vars

Spec == Init /\ [][Next]_vars

\* The tasks run, time passes, SIGKILL kills and the user answers.  No step can
\* be taken for ever, so it is enough that none is left undone.
Fairness ==
    WF_vars(\/ Tick \/ TakeRequest \/ PromptEnds \/ Wait \/ Reader
            \/ Ends /\ sent = "kill")

FairSpec == Spec /\ Fairness

-----------------------------------------------------------------------------
(* Properties *)

\* A Host has all of its limit: it is never cut short before that many units
\* were its own, whichever asks went out and came back around its timer.
NeverCutEarly ==
    [][sent = "none" /\ sent' # "none" => own >= Limit]_vars

\* A Host has no more than its limit: whenever the main task sits in the wait
\* with nothing to wake it, the Host is at its prompt or has time left.  An ask
\* that comes back unheard, or a sleep of the wrong length, would break it.
NeverOverslept ==
    LET idle == \/ wait \in {"asleep", "asleepAgain"} /\ ~heard
                \/ wait = "select" /\ child = "alive" /\ ~heard /\ now < deadline
    IN  Polled /\ idle => Asking \/ own < Limit

\* What the report shows of stderr is what was printed beside the markers, up
\* to the cap, and says so when it is not all of it: whatever the reads were.
KeptAsPrinted ==
    reader = "ended" =>
        LET shown == SubSeq(visible, 1, Min({Cap, Len(visible)}))
        IN  kept = shown /\ truncated = (shown # visible)

\* No marker is missed and none is imagined: a sudo whose marker has been read
\* is asked for, unless nobody can be asked any more, and nobody is asked for
\* without a sudo that waits.
AskedAsSudoAsks ==
    /\ sudo = "blocked" /\ read = Len(stream) /\ child = "alive" =>
           reader = "asking" \/ ~answerable
    /\ reader = "asking" => sudo = "blocked"

\* A Host whose own time is used up ends, if the user answers the prompts that
\* keep the main task: its ssh on its own, by SIGTERM or by SIGKILL.
LimitEnds == wait # "unstarted" /\ own >= Limit ~> wait = "over"

(* What the code's documentation says, and the code does not do *)

\* src/interrupt.rs:195 says "A Host that timed out is rshx's kill, not ssh's own
\* exit".  An ssh that ends within its limit while another Host's prompt is up
\* would not be a timeout.
EndedIsNotTimedOut ==
    [](wait = "select" /\ child = "ended" /\ now < deadline /\ prompt = "other"
           => []~timedOut)
=============================================================================

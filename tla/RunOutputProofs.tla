--------------------------- MODULE RunOutputProofs ---------------------------
(***************************************************************************)
(* What RunOutput says of the terminal, for every finite set of Hosts and  *)
(* all options: the prompt and the progress line never meet before a       *)
(* prompt is abandoned, and the progress line is true whenever it is to be *)
(* seen.  And of the report: its counts add up, its note is true of every  *)
(* Host, and what lost output says so.                                     *)
(***************************************************************************)
EXTENDS RunOutput, FiniteSetTheorems, TLAPS

Phases == {"waiting", "inflight", "reported", "leftOut"}

\* How many Hosts there may be of a kind.
Counts == 0..Cardinality(Hosts)

\* A bar that stands on the terminal is not hidden.
Screens ==
    {s \in [line : {"free", "bar", "prompt"}, live : BOOLEAN, pos : Counts,
            inFlight : Counts, garbled : BOOLEAN] : s.line = "bar" => s.live}

OutputTypes ==
    /\ phase \in [Hosts -> Phases]
    /\ main \in {"looping", "prompt"}
    /\ heartbeat \in [running : SUBSET Hosts, done : Nat]
    /\ screen \in Screens

\* The heartbeat's own count is the run's, step by step.
Counted ==
    /\ heartbeat.running = InFlight
    /\ heartbeat.done = Cardinality(ReportedHosts)

\* A bar that can be drawn holds the counts; one that is old names fewer Hosts
\* as running than there are, for a start redraws nothing.
BarIsCurrent(s) ==
    s.live => /\ s.pos = heartbeat.done
              /\ s.inFlight <= Cardinality(heartbeat.running)

\* Whose the last line of the terminal is.
Owned ==
    /\ screen.garbled => abandoned
    /\ abandoned => main = "looping" /\ ~asks
    /\ main = "prompt" => screen.line = "prompt" /\ ~screen.live
    /\ main = "looping" /\ ~abandoned => screen.line \in {"free", "bar"}

\* Once the summary is written nothing can move that would draw.
SummaryIsLast ==
    summary # NoSummary =>
        /\ main = "looping"
        /\ screen.line = "free"
        /\ ~Running

OutputInv ==
    /\ OutputTypes
    /\ Counted
    /\ BarIsCurrent(screen)
    /\ Owned
    /\ SummaryIsLast

-----------------------------------------------------------------------------
LEMMA CountsAreNumbers ==
    /\ \A S \in SUBSET Hosts : IsFiniteSet(S) /\ Cardinality(S) \in Counts
    /\ \A n \in Counts : n \in Nat
    /\ 0 \in Counts
<1>1. Cardinality(Hosts) \in Nat
  BY HostsAssumption, FS_CardinalityType
<1>2. ASSUME NEW S \in SUBSET Hosts
      PROVE  IsFiniteSet(S) /\ Cardinality(S) \in Counts
  <2>1. IsFiniteSet(S) /\ Cardinality(S) <= Cardinality(Hosts)
    BY HostsAssumption, FS_Subset
  <2>2. Cardinality(S) \in Nat
    BY <2>1, FS_CardinalityType
  <2> QED BY <1>1, <2>1, <2>2 DEF Counts
<1> QED
  BY <1>1, <1>2 DEF Counts

LEMMA NumbersOfHosts ==
    ASSUME OutputTypes, Counted
    PROVE  /\ heartbeat.done \in Counts
           /\ Cardinality(heartbeat.running) \in Counts
BY CountsAreNumbers DEF OutputTypes, Counted, ReportedHosts

-----------------------------------------------------------------------------
(* The bar *)

\* Drawing, erasing and writing below keep the shape of the screen.
LEMMA Drawn ==
    ASSUME NEW s \in Screens
    PROVE  /\ Draw(s) \in Screens
           /\ Draw(s).pos = s.pos /\ Draw(s).inFlight = s.inFlight
           /\ Draw(s).live = s.live
           /\ s.line \in {"free", "bar"} =>
                  Draw(s).garbled = s.garbled /\ Draw(s).line \in {"free", "bar"}
           /\ ~s.live => Draw(s) = s
BY DEF Draw, Screens

\* A bar that takes its position from the heartbeat: what `tick`, `finish` and
\* `resume` end with.  Over anything but a prompt it garbles nothing.
LEMMA Redrawn ==
    ASSUME NEW s \in Screens, NEW n \in Counts, NEW r \in Counts
    PROVE  LET t == set_message(set_position(s, n), r)
           IN  /\ t \in Screens
               /\ t.pos = n /\ t.inFlight = r
               /\ s.line \in {"free", "bar"} =>
                      t.garbled = s.garbled /\ t.line \in {"free", "bar"}
<1> DEFINE s1 == [s EXCEPT !.pos = n]
           s2 == [Draw(s1) EXCEPT !.inFlight = r]
<1>1. s1 \in Screens /\ s1.line = s.line /\ s1.garbled = s.garbled /\ s1.pos = n
  BY DEF Screens
<1> DEFINE clean(t) == s.line \in {"free", "bar"} =>
                           t.garbled = s.garbled /\ t.line \in {"free", "bar"}
<1>2. Draw(s1) \in Screens /\ Draw(s1).pos = n /\ clean(Draw(s1))
  <2> HIDE DEF s1
  <2> QED BY <1>1, Drawn
<1>3. s2 \in Screens /\ s2.pos = n /\ s2.inFlight = r /\ clean(s2)
  <2> DEFINE d == Draw(s1)
  <2>1. d \in Screens /\ d.pos = n /\ clean(d)
    BY <1>2
  <2>2. s2 = [d EXCEPT !.inFlight = r]
    OBVIOUS
  <2> HIDE DEF d, s2
  <2> QED BY <2>1, <2>2 DEF Screens
<1>4. /\ Draw(s2) \in Screens /\ Draw(s2).pos = n /\ Draw(s2).inFlight = r
      /\ clean(Draw(s2))
  <2> HIDE DEF s2
  <2> QED BY <1>3, Drawn
<1> QED
  BY <1>4 DEF set_message, set_position

\* Pausing leaves the line free and the bar unable to draw.
LEMMA Paused ==
    ASSUME NEW s \in Screens, s.line \in {"free", "bar"}
    PROVE  /\ pause(s) \in Screens
           /\ pause(s).line = "free" /\ ~pause(s).live
           /\ pause(s).garbled = s.garbled
BY DEF pause, finish_and_clear, Erase, Screens

\* Resuming tells the truth, and garbles nothing on a free line.
LEMMA Resumed ==
    ASSUME OutputTypes, Counted, NEW s \in Screens
    PROVE  LET t == resume(s, heartbeat)
           IN  /\ t \in Screens
               /\ s.line = "free" =>
                      t.garbled = s.garbled /\ t.line \in {"free", "bar"}
               /\ BarIsCurrent(t)
<1> DEFINE s1 == [s EXCEPT !.live = TRUE, !.pos = 0]
           clean(t) == s.line = "free" =>
                           t.garbled = s.garbled /\ t.line \in {"free", "bar"}
<1>1. s1 \in Screens /\ s1.line = s.line /\ clean(s1)
  BY CountsAreNumbers DEF Screens
<1>2. reset(s) \in Screens /\ clean(reset(s))
  <2>1. reset(s) = Draw(s1) BY DEF reset
  <2> HIDE DEF s1
  <2> QED BY <1>1, <2>1, Drawn
<1>3. heartbeat.done \in Counts /\ Cardinality(heartbeat.running) \in Counts
  BY NumbersOfHosts
<1> DEFINE n == heartbeat.done
           r == Cardinality(heartbeat.running)
           t == set_message(set_position(reset(s), n), r)
<1>4. t \in Screens /\ t.pos = n /\ t.inFlight = r /\ clean(t)
  <2>1. n \in Counts /\ r \in Counts
    BY <1>3
  <2> HIDE DEF n, r
  <2> QED BY <1>2, <2>1, Redrawn
<1>5. t = resume(s, heartbeat)
  BY DEF resume, redraw
<1>6. BarIsCurrent(t)
  <2> HIDE DEF t
  <2> QED BY <1>3, <1>4, CountsAreNumbers DEF BarIsCurrent
<1> HIDE DEF t
<1> QED
  BY <1>4, <1>5, <1>6

\* A line of the report is written on a free line, and the bar comes back as it
\* was.
LEMMA Suspended ==
    ASSUME NEW s \in Screens
    PROVE  /\ suspend(s) \in Screens
           /\ suspend(s).line \in {"free", "bar"}
           /\ s.line \in {"free", "bar"} => suspend(s).garbled = s.garbled
           /\ suspend(s).pos = s.pos /\ suspend(s).inFlight = s.inFlight
<1> DEFINE w == Write(Erase(s))
<1>1. /\ w \in Screens /\ w.line = "free"
      /\ s.line \in {"free", "bar"} => w.garbled = s.garbled
      /\ w.pos = s.pos /\ w.inFlight = s.inFlight
  BY DEF Write, Erase, Screens
<1>2. suspend(s) = Draw(w)
  BY DEF suspend
<1> HIDE DEF w
<1> QED
  BY <1>1, <1>2, Drawn

-----------------------------------------------------------------------------
(* One lemma per action *)

LEMMA OutputInvInit == OutputInit => OutputInv
<1> SUFFICES ASSUME OutputInit
             PROVE  OutputInv
  OBVIOUS
<1> DEFINE s == [line |-> "free", live |-> TRUE, pos |-> 0, inFlight |-> 0,
                 garbled |-> FALSE]
<1>1. 0 \in Counts
  BY CountsAreNumbers
<1>2. heartbeat.running = {} /\ heartbeat.done = 0
  BY DEF OutputInit
<1>3. Cardinality({}) = 0
  BY FS_EmptySet
<1>4. ReportedHosts = {} /\ InFlight = {}
  BY DEF OutputInit, Init, ReportedHosts, InFlight
<1> DEFINE s0 == [s EXCEPT !.inFlight = 0]
<1>5. s0 \in Screens /\ s0.line = "free" /\ s0.pos = 0 /\ s0.inFlight = 0
      /\ s0.garbled = FALSE
  BY <1>1 DEF Screens
<1>6. screen = Draw(s0)
  BY <1>2, <1>3 DEF OutputInit, redraw, set_message
<1>7. /\ screen \in Screens /\ screen.line \in {"free", "bar"}
      /\ ~screen.garbled /\ screen.pos = 0 /\ screen.inFlight = 0
  <2> HIDE DEF s0
  <2> QED BY <1>5, <1>6, Drawn
<1>8. OutputTypes
  BY <1>7 DEF OutputInit, Init, OutputTypes, Phases
<1>9. main = "looping" /\ summary = NoSummary /\ ~abandoned
  BY DEF OutputInit
<1> QED
  BY <1>2, <1>3, <1>4, <1>7, <1>8, <1>9 DEF OutputInv, Counted, BarIsCurrent,
     Owned, SummaryIsLast

LEMMA StartHostKeepsInv ==
    ASSUME OutputInv, NEW h \in Hosts, StartHost(h)
    PROVE  OutputInv'
<1> USE DEF OutputInv
<1>1. /\ phase[h] = "waiting"
      /\ phase' = [phase EXCEPT ![h] = "inflight"]
      /\ heartbeat' = [heartbeat EXCEPT !.running = @ \cup {h}]
      /\ UNCHANGED <<main, asks, abandoned, screen, summary>>
  BY DEF StartHost, Start
<1>2. OutputTypes'
  BY <1>1 DEF OutputTypes, Phases
<1>3. ReportedHosts' = ReportedHosts /\ InFlight' = InFlight \cup {h}
  BY <1>1 DEF OutputTypes, ReportedHosts, InFlight
<1>4. heartbeat'.running = heartbeat.running \cup {h} /\ heartbeat'.done = heartbeat.done
  BY <1>1 DEF OutputTypes
<1> DEFINE some == heartbeat.running
<1>5. /\ Cardinality(some) \in Nat /\ Cardinality(some \cup {h}) \in Nat
      /\ Cardinality(some) <= Cardinality(some \cup {h})
  <2>1. IsFiniteSet(some) /\ Cardinality(some) \in Nat
    BY CountsAreNumbers DEF OutputTypes
  <2> HIDE DEF some
  <2> QED BY <2>1, FS_AddElement
<1>6. BarIsCurrent(screen)'
  <2>1. screen.inFlight \in Nat
    BY CountsAreNumbers DEF OutputTypes, Screens
  <2> QED BY <2>1, <1>1, <1>4, <1>5 DEF BarIsCurrent
<1>7. summary = NoSummary
  BY <1>1 DEF SummaryIsLast, Running
<1> QED
  BY <1>1, <1>2, <1>3, <1>4, <1>6, <1>7 DEF Counted, Owned, SummaryIsLast

LEMMA SkipKeepsInv ==
    ASSUME OutputInv, NEW h \in Hosts, Skip(h)
    PROVE  OutputInv'
<1> USE DEF OutputInv
<1>1. /\ phase[h] = "waiting"
      /\ phase' = [phase EXCEPT ![h] = "leftOut"]
      /\ UNCHANGED <<main, asks, abandoned, screen, summary, heartbeat>>
  BY DEF Skip, LeaveOut
<1>2. OutputTypes'
  BY <1>1 DEF OutputTypes, Phases
<1>3. ReportedHosts' = ReportedHosts /\ InFlight' = InFlight
  BY <1>1 DEF OutputTypes, ReportedHosts, InFlight
<1>4. summary = NoSummary
  BY <1>1 DEF SummaryIsLast, Running
<1> QED
  BY <1>1, <1>2, <1>3, <1>4 DEF Counted, BarIsCurrent, Owned, SummaryIsLast

LEMMA SettleKeepsInv ==
    ASSUME OutputInv, NEW h \in Hosts, Settle(h)
    PROVE  OutputInv'
<1> USE DEF OutputInv
<1>1. /\ phase[h] = "inflight"
      /\ phase' = [phase EXCEPT ![h] = "reported"]
      /\ heartbeat' = CountSettled(heartbeat, h)
      /\ screen' = suspend(DrawSettled(screen, heartbeat'))
      /\ main = "looping"
      /\ UNCHANGED <<main, asks, abandoned, summary>>
  BY DEF Settle, Report
<1>2. heartbeat' \in [running : SUBSET Hosts, done : Nat]
      /\ heartbeat'.running = heartbeat.running \ {h}
      /\ heartbeat'.done = heartbeat.done + 1
  BY <1>1 DEF OutputTypes, CountSettled
<1>3. ReportedHosts' = ReportedHosts \cup {h} /\ InFlight' = InFlight \ {h}
      /\ h \notin ReportedHosts
  BY <1>1 DEF OutputTypes, ReportedHosts, InFlight, Phases
<1>4. Counted'
  <2>1. Cardinality(ReportedHosts \cup {h}) = Cardinality(ReportedHosts) + 1
    <3>1. IsFiniteSet(ReportedHosts)
      BY CountsAreNumbers DEF ReportedHosts
    <3> QED BY <1>3, <3>1, FS_AddElement
  <2> QED BY <1>2, <1>3, <2>1 DEF Counted
<1> DEFINE n == heartbeat'.done
           r == Cardinality(heartbeat'.running)
           t == set_message(set_position(screen, n), r)
<1>5. n \in Counts /\ r \in Counts
  BY <1>2, <1>4, CountsAreNumbers DEF Counted, ReportedHosts
<1>6. /\ t \in Screens /\ t.pos = n /\ t.inFlight = r
      /\ screen.line \in {"free", "bar"} =>
             t.garbled = screen.garbled /\ t.line \in {"free", "bar"}
  <2>1. screen \in Screens
    BY DEF OutputTypes
  <2> HIDE DEF n, r
  <2> QED BY <1>5, <2>1, Redrawn
<1>7. screen' = suspend(t)
  BY <1>1 DEF DrawSettled, redraw
<1>8. /\ screen' \in Screens /\ screen'.pos = n /\ screen'.inFlight = r
      /\ screen'.line \in {"free", "bar"}
      /\ screen.line \in {"free", "bar"} => screen'.garbled = screen.garbled
  <2> HIDE DEF t
  <2> QED BY <1>6, <1>7, Suspended
<1>9. OutputTypes'
  BY <1>1, <1>2, <1>8 DEF OutputTypes, Phases
<1>10. summary = NoSummary
  BY <1>1 DEF SummaryIsLast, Running
<1> QED
  BY <1>1, <1>4, <1>5, <1>8, <1>9, <1>10, CountsAreNumbers
  DEF BarIsCurrent, Owned, SummaryIsLast

LEMMA TickKeepsInv ==
    ASSUME OutputInv, Tick
    PROVE  OutputInv'
<1> USE DEF OutputInv
<1>1. /\ main = "looping" /\ Running
      /\ screen' = tick(screen, heartbeat)
      /\ UNCHANGED <<phase, main, asks, abandoned, heartbeat, summary>>
  BY DEF Tick, vars
<1> DEFINE r == Cardinality(heartbeat.running)
           s1 == [screen EXCEPT !.inFlight = r]
<1>2. screen \in Screens /\ r \in Counts /\ heartbeat.done \in Counts
  BY NumbersOfHosts DEF OutputTypes
<1>3. /\ s1 \in Screens /\ s1.pos = screen.pos /\ s1.inFlight = r
      /\ s1.line = screen.line /\ s1.garbled = screen.garbled
      /\ s1.live = screen.live
  <2> HIDE DEF r
  <2> QED BY <1>2 DEF Screens
<1>4. screen' = Draw(Draw(s1))
  BY <1>1 DEF tick, redraw, set_message
<1> DEFINE kept(t) ==
        /\ t \in Screens /\ t.pos = screen.pos /\ t.inFlight = r
        /\ t.live = screen.live
        /\ screen.line \in {"free", "bar"} =>
               t.garbled = screen.garbled /\ t.line \in {"free", "bar"}
<1>5. kept(screen')
  <2>1. kept(Draw(s1))
    <3> HIDE DEF s1, r
    <3> QED BY <1>2, <1>3, Drawn
  <2> DEFINE d == Draw(s1)
  <2>2. screen' = Draw(d)
    BY <1>4
  <2>3. kept(d)
    BY <2>1
  <2> HIDE DEF d, r
  <2> QED BY <2>2, <2>3, Drawn
<1>6. OutputTypes' /\ Counted'
  BY <1>1, <1>5 DEF OutputTypes, Counted, ReportedHosts, InFlight
<1>7. BarIsCurrent(screen)'
  BY <1>1, <1>2, <1>5, CountsAreNumbers DEF BarIsCurrent
<1>8. Owned'
  BY <1>1, <1>5 DEF Owned
<1>9. summary = NoSummary
  BY <1>1 DEF SummaryIsLast
<1> QED
  BY <1>1, <1>6, <1>7, <1>8, <1>9 DEF SummaryIsLast

LEMMA ServeKeepsInv ==
    ASSUME OutputInv, Serve
    PROVE  OutputInv'
<1> USE DEF OutputInv
<1>1. /\ main = "looping" /\ Running
      /\ UNCHANGED <<phase, abandoned, heartbeat, summary>>
      /\ ~abandoned
  BY DEF Serve, Running, vars, CannotAsk, Owned
<1>2. screen \in Screens /\ screen.line \in {"free", "bar"} /\ ~screen.garbled
  BY <1>1 DEF OutputTypes, Owned
<1> DEFINE p == pause(screen)
<1>3. p \in Screens /\ p.line = "free" /\ ~p.live /\ ~p.garbled
  BY <1>2, Paused
<1>4. summary = NoSummary
  BY <1>1 DEF SummaryIsLast
<1>5. Counted'
  BY <1>1 DEF Counted, ReportedHosts, InFlight
<1>6. CASE screen' = resume(p, heartbeat) /\ main' = main
  <2>1. /\ screen' \in Screens /\ screen'.line \in {"free", "bar"}
        /\ ~screen'.garbled /\ BarIsCurrent(screen')
    <3> HIDE DEF p
    <3> QED BY <1>3, <1>6, Resumed
  <2>2. OutputTypes' /\ Owned' /\ BarIsCurrent(screen)'
    BY <1>1, <1>6, <2>1 DEF OutputTypes, Owned, BarIsCurrent
  <2> QED BY <1>1, <1>4, <1>5, <2>2 DEF SummaryIsLast
<1>7. CASE screen' = WritePrompt(p) /\ main' = "prompt"
  <2>1. /\ screen' \in Screens /\ screen'.line = "prompt"
        /\ ~screen'.garbled /\ ~screen'.live
    <3> HIDE DEF p
    <3> QED BY <1>3, <1>7 DEF WritePrompt, Write, Screens
  <2>2. OutputTypes' /\ Owned' /\ BarIsCurrent(screen)'
    BY <1>1, <1>7, <2>1 DEF OutputTypes, Owned, BarIsCurrent
  <2> QED BY <1>1, <1>4, <1>5, <2>2 DEF SummaryIsLast
<1> QED
  BY <1>6, <1>7 DEF Serve

LEMMA PromptDoneKeepsInv ==
    ASSUME OutputInv, PromptDone
    PROVE  OutputInv'
<1> USE DEF OutputInv
<1>1. /\ main = "prompt" /\ main' = "looping"
      /\ UNCHANGED <<phase, heartbeat, summary>>
  BY DEF PromptDone, CannotAsk, vars
<1>2. summary = NoSummary
  BY <1>1 DEF SummaryIsLast
<1>3. Counted'
  BY <1>1 DEF Counted, ReportedHosts, InFlight
<1>4. ~abandoned /\ ~screen.garbled
  BY <1>1 DEF Owned
<1>5. CASE /\ screen' = resume([screen EXCEPT !.line = "free"], heartbeat)
           /\ UNCHANGED abandoned
  <2> DEFINE s == [screen EXCEPT !.line = "free"]
  <2>1. s \in Screens /\ s.line = "free" /\ ~s.garbled
    BY <1>1, <1>4 DEF OutputTypes, Screens
  <2>2. /\ screen' \in Screens /\ screen'.line \in {"free", "bar"}
        /\ ~screen'.garbled /\ BarIsCurrent(screen')
    <3>1. screen' = resume(s, heartbeat)
      BY <1>5
    <3> HIDE DEF s
    <3> QED BY <2>1, <3>1, Resumed
  <2>3. OutputTypes' /\ Owned' /\ BarIsCurrent(screen)'
    BY <1>1, <1>4, <1>5, <2>2 DEF OutputTypes, Owned, BarIsCurrent
  <2> QED BY <1>1, <1>2, <1>3, <2>3 DEF SummaryIsLast
<1>6. CASE /\ screen' = resume(screen, heartbeat)
           /\ CannotAsk(FALSE) /\ abandoned' = TRUE
  <2>1. screen' \in Screens /\ BarIsCurrent(screen')
    BY <1>6, Resumed DEF OutputTypes
  <2>2. OutputTypes' /\ Owned' /\ BarIsCurrent(screen)'
    BY <1>1, <1>6, <2>1 DEF OutputTypes, Owned, BarIsCurrent, CannotAsk
  <2> QED BY <1>1, <1>2, <1>3, <2>2 DEF SummaryIsLast
<1> QED
  BY <1>5, <1>6 DEF PromptDone

LEMMA ConcludeKeepsInv ==
    ASSUME OutputInv, Conclude
    PROVE  OutputInv'
<1> USE DEF OutputInv
<1>1. /\ main = "looping"
      /\ UNCHANGED <<phase, main, asks, abandoned, heartbeat>>
      /\ screen' = Write(finish_and_clear(screen))
  BY DEF Conclude, Finish, FailLocally
<1>2. ~Running
  BY DEF Conclude, Finish, FailLocally, Running
<1>3. screen \in Screens
  BY DEF OutputTypes
<1>4. /\ screen' \in Screens /\ screen'.line = "free" /\ ~screen'.live
      /\ screen.line \in {"free", "bar"} => screen'.garbled = screen.garbled
  BY <1>1, <1>3 DEF Write, finish_and_clear, Erase, Screens
<1>5. OutputTypes' /\ Owned' /\ BarIsCurrent(screen)'
  BY <1>1, <1>4 DEF OutputTypes, Owned, BarIsCurrent
<1>6. Counted'
  BY <1>1 DEF Counted, ReportedHosts, InFlight
<1>7. SummaryIsLast'
  BY <1>1, <1>2, <1>4 DEF SummaryIsLast, Running
<1> QED
  BY <1>5, <1>6, <1>7

\* Neither an interrupt nor the end of the asks touches the terminal.
LEMMA OthersKeepInv ==
    ASSUME OutputInv, StopAsking \/ CtrlC \/ Concluded \/ UNCHANGED allVars
    PROVE  OutputInv'
<1>1. /\ UNCHANGED <<phase, main, abandoned, heartbeat, screen, summary>>
      /\ asks' => asks
  BY DEF StopAsking, CtrlC, Interrupt, Concluded, allVars, vars, outputVars
<1> QED
  BY <1>1 DEF OutputInv, OutputTypes, Counted, ReportedHosts, InFlight,
     BarIsCurrent, Owned, SummaryIsLast, Running

-----------------------------------------------------------------------------
\* The heartbeat's counts are the run's, and the line belongs to whoever is
\* using it.
THEOREM OutputInvHolds == OutputSpec => []OutputInv
<1>1. OutputInv /\ [OutputNext]_allVars => OutputInv'
  BY StartHostKeepsInv, SkipKeepsInv, SettleKeepsInv, TickKeepsInv, ServeKeepsInv,
     PromptDoneKeepsInv, ConcludeKeepsInv, OthersKeepInv DEF OutputNext
<1> QED
  BY OutputInvInit, <1>1, PTL DEF OutputSpec

\* The progress line, the prompt and the report never overwrite one another,
\* before Ctrl-C leaves a prompt standing.
THEOREM ScreenStaysKept == OutputSpec => []ScreenIsKept
<1>1. OutputInv => ScreenIsKept
  BY DEF OutputInv, Owned, SummaryIsLast, ScreenIsKept
<1> QED
  BY OutputInvHolds, <1>1, PTL

\* Whatever the progress line shows is what has been reported by then.
THEOREM BarIsTrue == OutputSpec => []BarTellsTheTruth
<1>1. OutputInv => BarTellsTheTruth
  BY DEF OutputInv, OutputTypes, Screens, Counted, BarIsCurrent, BarTellsTheTruth
<1> QED
  BY OutputInvHolds, <1>1, PTL

-----------------------------------------------------------------------------
(* The report *)

LeftOutHosts == {h \in Hosts : phase[h] = "leftOut"}

\* A Host has a verdict, and an outcome that says the same, from its report on.
OutcomesAreReports ==
    /\ verdict \in [Hosts -> Status \cup {NoVerdict}]
    /\ \A h \in Hosts : verdict[h] # NoVerdict <=> h \in ReportedHosts
    /\ \A o \in outcomes : o.host \in ReportedHosts /\ o.status = verdict[o.host]
    /\ \A h \in ReportedHosts : \E o \in outcomes : o.host = h
    /\ \A o, p \in outcomes : o.host = p.host => o = p

\* What the report says of a Host is made of its outcome and nothing else.
LinesAreOutcomes ==
    /\ options \in Options
    /\ lines = {Line(o) : o \in outcomes}

\* What the lines and the notes are drawn from: a stop that did not work has said
\* so, and a stream lost something only to the cap.
OutcomesAreTold ==
    \A o \in outcomes :
        /\ o.remoteStopped \in BOOLEAN /\ o.stdout.truncated \in BOOLEAN
        /\ o.status \in CutShort /\ ~o.remoteStopped =>
               o.stopFailed = TRUE \/ ForeignSignal
        /\ o.stdout.truncated => o.stdout.bytes = Cap

LeftOutAreCounted == notStarted = Cardinality(LeftOutHosts)

\* The summary is written as the run exits, and nothing it sums up moves again.
SummaryIsTheEnd ==
    /\ summary = NoSummary <=> exitCode = NotExited
    /\ summary # NoSummary =>
           /\ summary = Summary
           /\ ~Running
           /\ exitCode \in {EXIT_LOCAL, ExitCode({verdict[h] : h \in ReportedHosts})}

ReportInv ==
    /\ OutcomesAreReports
    /\ LinesAreOutcomes
    /\ OutcomesAreTold
    /\ LeftOutAreCounted
    /\ SummaryIsTheEnd

LEMMA ExitCodes ==
    \A statuses : ExitCode(statuses) \in Nat
BY DEF ExitCode, EXIT_OK, EXIT_FAILED, EXIT_UNREACHABLE, EXIT_INTERRUPTED

\* A run with a Host left to account for has written no summary.
LEMMA NotWrittenYet ==
    ASSUME ReportInv, Running
    PROVE  summary = NoSummary /\ exitCode = NotExited
BY DEF ReportInv, SummaryIsTheEnd

\* A summary, once written, is one.
LEMMA Written == Summary.note # "unwritten" /\ Summary # NoSummary
<1>1. Summary.note \in {"none", "unfinished", "partly"}
  BY DEF Summary, Note
<1> QED
  BY <1>1 DEF NoSummary

LEMMA SummaryIsOf == UNCHANGED <<outcomes, notStarted>> => UNCHANGED Summary
BY DEF Summary, HowMany

LEMMA ReportInvInit == OutputInit => ReportInv
<1> SUFFICES ASSUME OutputInit
             PROVE  ReportInv
  OBVIOUS
<1>1. ReportedHosts = {} /\ LeftOutHosts = {} /\ outcomes = {} /\ lines = {}
  BY DEF OutputInit, Init, ReportedHosts, LeftOutHosts
<1>2. OutcomesAreReports
  BY <1>1 DEF OutputInit, Init, OutcomesAreReports
<1>3. LeftOutAreCounted
  BY <1>1, FS_EmptySet DEF OutputInit, LeftOutAreCounted
<1> QED
  BY <1>1, <1>2, <1>3 DEF ReportInv, LinesAreOutcomes, OutcomesAreTold,
     SummaryIsTheEnd, OutputInit, Init

LEMMA StartHostKeepsReport ==
    ASSUME OutputTypes, ReportInv, NEW h \in Hosts, StartHost(h)
    PROVE  ReportInv'
<1>1. /\ phase[h] = "waiting"
      /\ phase' = [phase EXCEPT ![h] = "inflight"]
      /\ UNCHANGED <<verdict, exitCode, options, outcomes, lines, notStarted, summary>>
  BY DEF StartHost, Start
<1>2. ReportedHosts' = ReportedHosts /\ LeftOutHosts' = LeftOutHosts
  BY <1>1 DEF OutputTypes, ReportedHosts, LeftOutHosts
<1>3. summary = NoSummary /\ exitCode = NotExited
  BY <1>1, NotWrittenYet DEF Running
<1>4. OutcomesAreReports' /\ OutcomesAreTold' /\ LeftOutAreCounted'
  BY <1>1, <1>2 DEF ReportInv, OutcomesAreReports, OutcomesAreTold,
     LeftOutAreCounted
<1>5. LinesAreOutcomes'
  BY <1>1 DEF ReportInv, LinesAreOutcomes, Line, ShowsStdout, ShowsStderr
<1> QED
  BY <1>1, <1>3, <1>4, <1>5 DEF ReportInv, SummaryIsTheEnd

LEMMA SkipKeepsReport ==
    ASSUME OutputTypes, ReportInv, NEW h \in Hosts, Skip(h)
    PROVE  ReportInv'
<1>1. /\ phase[h] = "waiting"
      /\ phase' = [phase EXCEPT ![h] = "leftOut"]
      /\ notStarted' = notStarted + 1
      /\ UNCHANGED <<verdict, exitCode, options, outcomes, lines, summary>>
  BY DEF Skip, LeaveOut
<1>2. /\ ReportedHosts' = ReportedHosts /\ h \notin LeftOutHosts
      /\ LeftOutHosts' = LeftOutHosts \cup {h}
  BY <1>1 DEF OutputTypes, ReportedHosts, LeftOutHosts
<1>3. summary = NoSummary /\ exitCode = NotExited
  BY <1>1, NotWrittenYet DEF Running
<1>4. LeftOutAreCounted'
  <2>1. IsFiniteSet(LeftOutHosts)
    BY CountsAreNumbers DEF LeftOutHosts
  <2>2. Cardinality(LeftOutHosts \cup {h}) = Cardinality(LeftOutHosts) + 1
    BY <1>2, <2>1, FS_AddElement
  <2> QED BY <1>1, <1>2, <2>2 DEF ReportInv, LeftOutAreCounted
<1>5. OutcomesAreReports' /\ OutcomesAreTold'
  BY <1>1, <1>2 DEF ReportInv, OutcomesAreReports, OutcomesAreTold
<1>6. LinesAreOutcomes'
  BY <1>1 DEF ReportInv, LinesAreOutcomes, Line, ShowsStdout, ShowsStderr
<1> QED
  BY <1>1, <1>3, <1>4, <1>5, <1>6 DEF ReportInv, SummaryIsTheEnd

\* A stop that was tried and failed has said so.
LEMMA StopsTell ==
    ASSUME NEW status, NEW stop \in Stops(status)
    PROVE  /\ stop.stopped \in BOOLEAN
           /\ status \in CutShort /\ ~stop.stopped =>
                  stop.failed = TRUE \/ ForeignSignal
<1> DEFINE tried == {[stopped |-> b, failed |-> ~b] : b \in BOOLEAN}
           none == {[stopped |-> FALSE, failed |-> FALSE]}
<1>1. \A s \in tried : s.stopped \in BOOLEAN /\ (~s.stopped => s.failed = TRUE)
  <2> TAKE s \in tried
  <2>1. PICK b \in BOOLEAN : s = [stopped |-> b, failed |-> ~b]
    OBVIOUS
  <2>2. s.stopped = b /\ s.failed = ~b
    BY <2>1
  <2> QED BY <2>2
<1>2. \A s \in none : s.stopped \in BOOLEAN
  <2>1. [stopped |-> FALSE, failed |-> FALSE].stopped = FALSE
    OBVIOUS
  <2> QED BY <2>1
<1>3. CASE status = "timeout"
  <2>1. Stops(status) = tried
    BY <1>3 DEF Stops
  <2> QED BY <1>1, <2>1
<1>4. CASE status = "cancelled"
  <2>1. stop \in tried \/ (stop \in none /\ ForeignSignal)
    <3>1. Stops(status) = (IF interrupted THEN tried ELSE {})
                          \cup (IF ForeignSignal THEN none ELSE {})
      BY <1>4 DEF Stops
    <3> HIDE DEF tried, none
    <3> QED BY <3>1
  <2> HIDE DEF tried, none
  <2> QED BY <1>1, <1>2, <2>1
<1>5. CASE status \notin CutShort
  <2>1. Stops(status) = none
    BY <1>5 DEF Stops, CutShort
  <2> QED BY <1>2, <1>5, <2>1
<1> QED
  BY <1>3, <1>4, <1>5 DEF CutShort

\* What a settled Host is reported with: its verdict, and a stop and a stream
\* that tell what befell them.
LEMMA SettlesWith ==
    ASSUME OutputTypes, ReportInv, NEW h \in Hosts, Settle(h)
    PROVE  /\ phase[h] = "inflight"
           /\ phase' = [phase EXCEPT ![h] = "reported"]
           /\ \E v \in Status : verdict' = [verdict EXCEPT ![h] = v]
           /\ \E o : /\ outcomes' = outcomes \cup {o}
                     /\ lines' = lines \cup {Line(o)}
                     /\ o.host = h /\ o.status = verdict'[h]
                     /\ o.remoteStopped \in BOOLEAN
                     /\ o.stdout.truncated \in BOOLEAN
                     /\ o.status \in CutShort /\ ~o.remoteStopped =>
                            o.stopFailed = TRUE \/ ForeignSignal
                     /\ o.stdout.truncated => o.stdout.bytes = Cap
           /\ UNCHANGED <<exitCode, options, notStarted, summary>>
<1>1. PICK print \in Prints, stop \in Stops(verdict'[h]) :
          LET outcome == [host |-> h, status |-> verdict'[h],
                          stdout |-> Kept(print),
                          remoteStopped |-> stop.stopped,
                          stopFailed |-> stop.failed]
          IN  /\ outcomes' = outcomes \cup {outcome}
              /\ lines' = lines \cup {Line(outcome)}
  BY DEF Settle
<1> DEFINE o == [host |-> h, status |-> verdict'[h], stdout |-> Kept(print),
                 remoteStopped |-> stop.stopped, stopFailed |-> stop.failed]
<1>2. Kept(print).truncated \in BOOLEAN
      /\ (Kept(print).truncated => Kept(print).bytes = Cap)
  <2>1. print.bytes \in Nat
    BY PrintsAssumption
  <2>2. /\ Kept(print).truncated = (print.bytes > Cap)
        /\ Kept(print).bytes = IF print.bytes > Cap THEN Cap ELSE print.bytes
    BY DEF Kept
  <2>3. (print.bytes > Cap) \in BOOLEAN
    BY <2>1, CapAssumption
  <2> QED BY <2>2, <2>3
<1>3. /\ stop.stopped \in BOOLEAN
      /\ verdict'[h] \in CutShort /\ ~stop.stopped =>
             stop.failed = TRUE \/ ForeignSignal
  BY StopsTell
<1>4. /\ outcomes' = outcomes \cup {o} /\ lines' = lines \cup {Line(o)}
  BY <1>1
<1>5. /\ o.host = h /\ o.status = verdict'[h]
      /\ o.remoteStopped \in BOOLEAN /\ o.stdout.truncated \in BOOLEAN
      /\ o.status \in CutShort /\ ~o.remoteStopped =>
             o.stopFailed = TRUE \/ ForeignSignal
      /\ o.stdout.truncated => o.stdout.bytes = Cap
  BY <1>2, <1>3
<1>6. \E v \in Status : verdict' = [verdict EXCEPT ![h] = v]
  BY DEF Settle, Report, Verdicts, Status
<1> HIDE DEF o
<1> QED
  BY <1>4, <1>5, <1>6 DEF Settle, Report

LEMMA SettleKeepsReport ==
    ASSUME OutputTypes, ReportInv, NEW h \in Hosts, Settle(h)
    PROVE  ReportInv'
<1>1. PICK o :
          /\ outcomes' = outcomes \cup {o}
          /\ lines' = lines \cup {Line(o)}
          /\ o.host = h /\ o.status = verdict'[h]
          /\ o.remoteStopped \in BOOLEAN
          /\ o.stdout.truncated \in BOOLEAN
          /\ o.status \in CutShort /\ ~o.remoteStopped =>
                 o.stopFailed = TRUE \/ ForeignSignal
          /\ o.stdout.truncated => o.stdout.bytes = Cap
  BY SettlesWith
<1>2. PICK v \in Status : verdict' = [verdict EXCEPT ![h] = v]
  BY SettlesWith
<1>3. /\ phase[h] = "inflight"
      /\ phase' = [phase EXCEPT ![h] = "reported"]
      /\ UNCHANGED <<exitCode, options, notStarted, summary>>
  BY SettlesWith
<1>4. /\ ReportedHosts' = ReportedHosts \cup {h} /\ h \notin ReportedHosts
      /\ LeftOutHosts' = LeftOutHosts
  BY <1>3 DEF OutputTypes, ReportedHosts, LeftOutHosts
<1>5. summary = NoSummary /\ exitCode = NotExited
  BY <1>3, NotWrittenYet DEF Running
<1>6. OutcomesAreReports'
  <2> USE DEF ReportInv, OutcomesAreReports
  <2>1. /\ verdict' \in [Hosts -> Status \cup {NoVerdict}]
        /\ \A g \in Hosts : verdict'[g] # NoVerdict <=> g \in ReportedHosts'
    BY <1>2, <1>4 DEF Status, NoVerdict
  <2>2. \A p \in outcomes' : p.host \in ReportedHosts' /\ p.status = verdict'[p.host]
    BY <1>1, <1>2, <1>4
  <2>3. \A g \in ReportedHosts' : \E p \in outcomes' : p.host = g
    BY <1>1, <1>4
  <2>4. \A p, q \in outcomes' : p.host = q.host => p = q
    BY <1>1, <1>4
  <2> QED BY <2>1, <2>2, <2>3, <2>4
<1>7. OutcomesAreTold' /\ LeftOutAreCounted'
  BY <1>1, <1>3, <1>4 DEF ReportInv, OutcomesAreTold, LeftOutAreCounted
<1>8. LinesAreOutcomes'
  <2>1. lines' = {Line(p) : p \in outcomes'} /\ options' \in Options
    BY <1>1, <1>3 DEF ReportInv, LinesAreOutcomes
  <2> QED BY <1>3, <2>1 DEF LinesAreOutcomes, Line, ShowsStdout, ShowsStderr
<1> QED
  BY <1>3, <1>5, <1>6, <1>7, <1>8 DEF ReportInv, SummaryIsTheEnd

LEMMA ConcludeKeepsReport ==
    ASSUME OutputTypes, ReportInv, Conclude
    PROVE  ReportInv'
<1>1. /\ UNCHANGED <<phase, verdict, options, outcomes, lines, notStarted>>
      /\ summary' = Summary /\ ~Running
      /\ exitCode' \in {EXIT_LOCAL, ExitCode({verdict[h] : h \in ReportedHosts})}
  BY DEF Conclude, FailLocally, Finish, Running, ReportedHosts
<1>2. ReportedHosts' = ReportedHosts /\ LeftOutHosts' = LeftOutHosts
  BY <1>1 DEF ReportedHosts, LeftOutHosts
<1>3. exitCode' # NotExited
  BY <1>1, ExitCodes DEF EXIT_LOCAL, NotExited
<1>4. summary' = Summary' /\ summary' # NoSummary /\ ~Running'
  BY <1>1, SummaryIsOf, Written DEF Running
<1>5. OutcomesAreReports' /\ OutcomesAreTold' /\ LeftOutAreCounted'
  BY <1>1, <1>2 DEF ReportInv, OutcomesAreReports, OutcomesAreTold,
     LeftOutAreCounted
<1>6. LinesAreOutcomes'
  BY <1>1 DEF ReportInv, LinesAreOutcomes, Line, ShowsStdout, ShowsStderr
<1>7. {verdict[h] : h \in ReportedHosts}' = {verdict[h] : h \in ReportedHosts}
  BY <1>1, <1>2
<1>8. NoSummary' = NoSummary
  BY DEF NoSummary
<1> QED
  BY <1>1, <1>3, <1>4, <1>5, <1>6, <1>7, <1>8 DEF ReportInv, SummaryIsTheEnd

\* Drawing, asking and being interrupted settle nothing.
LEMMA OthersKeepReport ==
    ASSUME OutputTypes, ReportInv,
           Tick \/ Serve \/ StopAsking \/ PromptDone \/ CtrlC \/ Concluded
               \/ UNCHANGED allVars
    PROVE  ReportInv'
<1>1. UNCHANGED <<phase, verdict, exitCode, options, outcomes, lines, notStarted,
                  summary>>
  BY DEF Tick, Serve, StopAsking, PromptDone, CannotAsk, CtrlC, Interrupt,
     Concluded, allVars, vars, outputVars
<1>2. ReportedHosts' = ReportedHosts /\ LeftOutHosts' = LeftOutHosts
  BY <1>1 DEF ReportedHosts, LeftOutHosts
<1>3. OutcomesAreReports' /\ OutcomesAreTold' /\ LeftOutAreCounted'
  BY <1>1, <1>2 DEF ReportInv, OutcomesAreReports, OutcomesAreTold,
     LeftOutAreCounted
<1>4. LinesAreOutcomes'
  BY <1>1 DEF ReportInv, LinesAreOutcomes, Line, ShowsStdout, ShowsStderr
<1>5. SummaryIsTheEnd'
  BY <1>1, <1>2, SummaryIsOf DEF ReportInv, SummaryIsTheEnd, Running, NoSummary
<1> QED
  BY <1>3, <1>4, <1>5 DEF ReportInv

\* The report is made of outcomes, and an outcome of what befell its Host.
THEOREM ReportInvHolds == OutputSpec => []ReportInv
<1>1. OutputInv /\ ReportInv /\ [OutputNext]_allVars => ReportInv'
  BY StartHostKeepsReport, SkipKeepsReport, SettleKeepsReport,
     ConcludeKeepsReport, OthersKeepReport DEF OutputInv, OutputNext
<1> QED
  BY OutputInvHolds, ReportInvInit, <1>1, PTL DEF OutputSpec

-----------------------------------------------------------------------------
(* What the report and the summary say *)

\* Hosts and what is said of them, one by one, are as many.
LEMMA AsManyHosts ==
    ASSUME NEW said, NEW some \in SUBSET Hosts,
           \A o \in said : o.host \in some,
           \A h \in some : \E o \in said : o.host = h,
           \A o, p \in said : o.host = p.host => o = p
    PROVE  IsFiniteSet(said) /\ Cardinality(said) = Cardinality(some)
<1> DEFINE f == [o \in said |-> o.host]
<1>1. IsFiniteSet(some)
  BY CountsAreNumbers
<1>2. f \in Injection(said, some)
  <2>1. f \in [said -> some] /\ \A o, p \in said : f[o] = f[p] => o = p
    OBVIOUS
  <2> HIDE DEF f
  <2> QED BY <2>1 DEF Injection, IsInjective
<1>3. f \in Surjection(said, some)
  <2>1. f \in [said -> some] /\ \A h \in some : \E o \in said : f[o] = h
    OBVIOUS
  <2> HIDE DEF f
  <2> QED BY <2>1 DEF Surjection
<1> HIDE DEF f
<1> QED
  BY <1>1, <1>2, <1>3, FS_Injection

LEMMA DisjointUnion ==
    ASSUME NEW S, NEW T, IsFiniteSet(S), IsFiniteSet(T), S \cap T = {}
    PROVE  Cardinality(S \cup T) = Cardinality(S) + Cardinality(T)
<1>1. Cardinality(S) \in Nat /\ Cardinality(T) \in Nat
  BY FS_CardinalityType
<1>2. Cardinality(S \cup T) =
          Cardinality(S) + Cardinality(T) - Cardinality(S \cap T)
  BY FS_Union
<1>3. Cardinality(S \cap T) = 0
  BY FS_EmptySet
<1> QED
  BY <1>1, <1>2, <1>3

\* Every reported Host has its outcome, and every status its Hosts.
LEMMA OutcomesAreCounted ==
    ASSUME OutputTypes, ReportInv
    PROVE  /\ IsFiniteSet(outcomes)
           /\ Cardinality(outcomes) = Cardinality(ReportedHosts)
           /\ \A s \in Status : HowMany(s) = Cardinality({h \in Hosts : verdict[h] = s})
<1> USE DEF ReportInv, OutcomesAreReports
<1>1. IsFiniteSet(outcomes) /\ Cardinality(outcomes) = Cardinality(ReportedHosts)
  <2>1. ReportedHosts \in SUBSET Hosts
    BY DEF ReportedHosts
  <2> QED BY <2>1, AsManyHosts
<1>2. ASSUME NEW s \in Status
      PROVE  HowMany(s) = Cardinality({h \in Hosts : verdict[h] = s})
  <2> DEFINE said == {o \in outcomes : o.status = s}
             some == {h \in Hosts : verdict[h] = s}
  <2>1. \A h \in some : h \in ReportedHosts
    BY DEF Status, NoVerdict
  <2>2. /\ \A o \in said : o.host \in some
        /\ \A h \in some : \E o \in said : o.host = h
        /\ \A o, p \in said : o.host = p.host => o = p
    BY <2>1 DEF ReportedHosts
  <2>3. some \in SUBSET Hosts
    OBVIOUS
  <2>4. HowMany(s) = Cardinality(said)
    BY DEF HowMany
  <2>5. Cardinality(said) = Cardinality(some)
    <3> HIDE DEF said, some
    <3> QED BY <2>2, <2>3, AsManyHosts
  <2> QED BY <2>4, <2>5
<1> QED
  BY <1>1, <1>2

\* Once nobody runs, every Host is reported or counted as left out.
LEMMA EveryHostIsAccountedFor ==
    ASSUME OutputTypes, ReportInv, ~Running
    PROVE  notStarted + Cardinality(outcomes) = Cardinality(Hosts)
<1>1. /\ Hosts = LeftOutHosts \cup ReportedHosts
      /\ LeftOutHosts \cap ReportedHosts = {}
  BY DEF Running, LeftOutHosts, ReportedHosts
<1>2. /\ IsFiniteSet(LeftOutHosts) /\ Cardinality(LeftOutHosts) \in Nat
      /\ IsFiniteSet(ReportedHosts) /\ Cardinality(ReportedHosts) \in Nat
  BY CountsAreNumbers DEF LeftOutHosts, ReportedHosts
<1>3. Cardinality(Hosts) = Cardinality(LeftOutHosts) + Cardinality(ReportedHosts)
  BY <1>1, <1>2, DisjointUnion
<1> QED
  BY <1>3, OutcomesAreCounted DEF ReportInv, LeftOutAreCounted

\* A run that exits 0 reported nothing but what worked and what was left
\* running.
LEMMA ExitOkMeans ==
    ASSUME NEW statuses \in SUBSET Status, ExitCode(statuses) = EXIT_OK
    PROVE  statuses \subseteq {"ok", "running"}
BY DEF ExitCode, EXIT_OK, EXIT_FAILED, EXIT_UNREACHABLE, EXIT_INTERRUPTED, Status

\* The summary is complete, and explains an exit code of 0.
THEOREM SummaryIsComplete == OutputSpec => []SummaryAddsUp
<1>1. ASSUME OutputTypes, ReportInv
      PROVE  SummaryAddsUp
  <2> USE <1>1
  <2> SUFFICES ASSUME summary # NoSummary
               PROVE  SummaryAddsUp
    BY DEF SummaryAddsUp
  <2>1. /\ ~Running
        /\ exitCode \in {EXIT_LOCAL, ExitCode({verdict[h] : h \in ReportedHosts})}
        /\ summary.counts = [s \in Status |-> HowMany(s)]
        /\ summary.notStarted = notStarted
    BY DEF ReportInv, SummaryIsTheEnd, Summary
  <2>2. summary.notStarted + Cardinality(outcomes) = Cardinality(Hosts)
    BY <2>1, EveryHostIsAccountedFor
  <2>3. \A s \in Status :
            summary.counts[s] = Cardinality({h \in Hosts : verdict[h] = s})
    BY <2>1, OutcomesAreCounted
  <2>4. ASSUME exitCode = EXIT_OK
        PROVE  summary.counts["ok"] + summary.counts["running"]
                   + summary.notStarted = Cardinality(Hosts)
    <3> DEFINE given == {verdict[h] : h \in ReportedHosts}
               Of(s) == {o \in outcomes : o.status = s}
    <3>1. given \in SUBSET Status
      BY DEF ReportInv, OutcomesAreReports, ReportedHosts
    <3>2. given \subseteq {"ok", "running"}
      <4>1. ExitCode(given) = EXIT_OK
        BY <2>1, <2>4 DEF EXIT_OK, EXIT_LOCAL
      <4> HIDE DEF given
      <4> QED BY <3>1, <4>1, ExitOkMeans
    <3>3. \A o \in outcomes : o.status \in {"ok", "running"}
      BY <3>2 DEF ReportInv, OutcomesAreReports
    <3>4. outcomes = Of("ok") \cup Of("running") /\ Of("ok") \cap Of("running") = {}
      BY <3>3
    <3>5. IsFiniteSet(outcomes)
      BY OutcomesAreCounted
    <3>6. IsFiniteSet(Of("ok")) /\ IsFiniteSet(Of("running"))
      BY <3>5, FS_Subset
    <3>7. Cardinality(outcomes) = Cardinality(Of("ok")) + Cardinality(Of("running"))
      <4> DEFINE a == Of("ok")
                 b == Of("running")
      <4>1. IsFiniteSet(a) /\ IsFiniteSet(b) /\ outcomes = a \cup b /\ a \cap b = {}
        BY <3>4, <3>6
      <4>2. Cardinality(a \cup b) = Cardinality(a) + Cardinality(b)
        <5> HIDE DEF a, b
        <5> QED BY <4>1, DisjointUnion
      <4> QED BY <4>1, <4>2
    <3>8. /\ summary.counts["ok"] = Cardinality(Of("ok"))
          /\ summary.counts["running"] = Cardinality(Of("running"))
      BY <2>1 DEF HowMany, Status
    <3>9. /\ Cardinality(Of("ok")) \in Nat /\ Cardinality(Of("running")) \in Nat
          /\ summary.notStarted \in Nat
      BY <2>1, <3>6, FS_CardinalityType, CountsAreNumbers
      DEF ReportInv, LeftOutAreCounted, LeftOutHosts
    <3> HIDE DEF Of
    <3> QED BY <2>2, <3>7, <3>8, <3>9
  <2> QED BY <2>2, <2>3, <2>4 DEF SummaryAddsUp
<1> QED
  BY OutputInvHolds, ReportInvHolds, <1>1, PTL DEF OutputInv

\* The notes under the summary are true, where nothing but rshx kills an ssh: a
\* child that died of a foreign signal is `cancelled` without a stop having been
\* tried, and nothing says so of it.
THEOREM NotesAreTrue == ~ForeignSignal => (OutputSpec => []NoteIsTrue)
<1> SUFFICES ASSUME ~ForeignSignal
             PROVE  OutputSpec => []NoteIsTrue
  OBVIOUS
<1>1. ASSUME OutputTypes, ReportInv
      PROVE  NoteIsTrue
  <2> USE <1>1
  <2> SUFFICES ASSUME summary # NoSummary
               PROVE  NoteIsTrue
    BY DEF NoteIsTrue
  <2> DEFINE cut == {o \in outcomes : o.status \in CutShort}
             stopped == {o \in cut : o.remoteStopped}
             left == {o \in outcomes : o.status \in CutShort /\ ~o.remoteStopped}
  <2>1. summary.note = Note(Cardinality(cut), Cardinality(stopped))
    BY DEF ReportInv, SummaryIsTheEnd, Summary
  <2>2. Cardinality(stopped) = Cardinality(cut) <=> stopped = cut
    <3>1. IsFiniteSet(outcomes) /\ cut \in SUBSET outcomes /\ stopped \in SUBSET cut
      BY OutcomesAreCounted
    <3> HIDE DEF cut, stopped
    <3>2. IsFiniteSet(cut)
      BY <3>1, FS_Subset
    <3> QED BY <3>1, <3>2, FS_Subset
  <2>3. stopped = cut <=> left = {}
    OBVIOUS
  <2>4. summary.note = "none" <=> left = {}
    <3> HIDE DEF cut, stopped, left
    <3> QED BY <2>1, <2>2, <2>3 DEF Note
  <2>5. ASSUME NEW o \in left
        PROVE  \E l \in lines : l.host = o.host /\ l.saysUnstopped
    <3> USE <2>5
    <3>1. /\ o.status # "ok" /\ o.stopFailed = TRUE /\ o.remoteStopped = FALSE
          /\ Line(o) \in lines
      BY DEF ReportInv, OutcomesAreTold, LinesAreOutcomes, CutShort
    <3>2. Line(o).host = o.host /\ Line(o).saysUnstopped
      BY <3>1 DEF Line, ShowsStderr
    <3> QED BY <3>1, <3>2
  <2> QED BY <2>4, <2>5 DEF NoteIsTrue
<1> QED
  BY OutputInvHolds, ReportInvHolds, <1>1, PTL DEF OutputInv

\* Nothing that was cut at the cap is shown as if it were whole: it is too long
\* to be folded, and what is not folded says so.
THEOREM CutsAreSaid == OutputSpec => []TruncationIsSaid
<1>1. ASSUME ReportInv
      PROVE  TruncationIsSaid
  <2> USE <1>1
  <2> SUFFICES ASSUME NEW o \in outcomes, o.stdout.truncated
               PROVE  \E l \in lines :
                          l.host = o.host /\ (l.stdout => l.saysTruncated)
    BY DEF TruncationIsSaid
  <2>1. Line(o) \in lines /\ o.stdout.bytes = Cap
    BY DEF ReportInv, LinesAreOutcomes, OutcomesAreTold
  <2>2. ~Folds(o.stdout)
    BY <2>1, CapAssumption DEF Folds
  <2>3. Line(o).host = o.host /\ (Line(o).stdout => Line(o).saysTruncated)
    BY <2>2 DEF Line
  <2> QED BY <2>1, <2>3
<1> QED
  BY ReportInvHolds, <1>1, PTL

-----------------------------------------------------------------------------
(* Types *)

\* The rest of the main task's flags.
Flags == asks \in BOOLEAN /\ fatal \in BOOLEAN /\ abandoned \in BOOLEAN

\* What the main task keeps has its type, and the heartbeat never counts a Host
\* twice.
THEOREM OutputTypeCorrect == OutputSpec => []OutputTypeOK
<1>1. OutputInit => Flags
  BY DEF OutputInit, Flags
<1>2. Flags /\ [OutputNext]_allVars => Flags'
  BY DEF Flags, OutputNext, StartHost, Skip, Settle, Tick, Serve, StopAsking,
     PromptDone, CannotAsk, CtrlC, Conclude, Concluded, allVars, outputVars
<1>3. ASSUME OutputTypes, Counted, ReportInv, Flags
      PROVE  OutputTypeOK
  <2> USE <1>3
  <2>1. heartbeat.done + Cardinality(heartbeat.running) \in Counts
    <3>1. /\ IsFiniteSet(ReportedHosts) /\ Cardinality(ReportedHosts) \in Nat
          /\ IsFiniteSet(InFlight) /\ Cardinality(InFlight) \in Nat
      BY CountsAreNumbers DEF ReportedHosts, InFlight
    <3>2. /\ ReportedHosts \cap InFlight = {}
          /\ ReportedHosts \cup InFlight \in SUBSET Hosts
      BY DEF ReportedHosts, InFlight
    <3>3. Cardinality(ReportedHosts \cup InFlight) =
              Cardinality(ReportedHosts) + Cardinality(InFlight)
      BY <3>1, <3>2, DisjointUnion
    <3> QED BY <3>2, <3>3, CountsAreNumbers DEF Counted
  <2>2. {o.host : o \in outcomes} = {l.host : l \in lines}
    <3>1. \A o \in outcomes : Line(o).host = o.host
      BY DEF Line
    <3> QED BY <3>1 DEF ReportInv, LinesAreOutcomes
  <2>3. notStarted \in Counts
    BY CountsAreNumbers DEF ReportInv, LeftOutAreCounted, LeftOutHosts
  <2> QED
    BY <2>1, <2>2, <2>3 DEF OutputTypeOK, OutputTypes, Screens, Counts, Flags,
       ReportInv, LinesAreOutcomes
<1> QED
  BY OutputInvHolds, ReportInvHolds, <1>1, <1>2, <1>3, PTL DEF OutputSpec, OutputInv
=============================================================================

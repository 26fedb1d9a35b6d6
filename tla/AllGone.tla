------------------------------ MODULE AllGone ------------------------------
(***************************************************************************)
(* all_gone of src/interrupt.rs: how the grace period learns that no ssh   *)
(* is in flight.  Interrupt has it as one step, possible whenever nothing  *)
(* is; here it has to be told.  It runs beside the main task, in which a   *)
(* Host's entry is removed under the lock and the notification sent after. *)
(* The other branches of its select! may drop it, and are left out.        *)
(*                                                                         *)
(* tokio's Notify is external: notify_waiters reaches those that listen at *)
(* that moment, whether they wait already or not, and is lost on others.   *)
(***************************************************************************)
EXTENDS TLAPS

CONSTANT Hosts

VARIABLES
    running,        \* the Hosts in Children.running
    removed,        \* a Host's entry is removed, and nobody notified of it yet
    task,           \* where all_gone is
    listens,        \* its Notified is one that notify_waiters reaches
    heard           \* and has been reached

vars == <<running, removed, task, listens, heard>>

\* The interrupt may come at any moment of the main task.
Init ==
    /\ running \in SUBSET Hosts
    /\ removed \in BOOLEAN
    /\ task = "looping"
    /\ listens = FALSE
    /\ heard = FALSE

-----------------------------------------------------------------------------
(* The main task *)

Register(h) ==
    /\ ~removed
    /\ h \notin running
    /\ running' = running \cup {h}
    /\ UNCHANGED <<removed, task, listens, heard>>

\* `deregister`, under the lock.
Remove(h) ==
    /\ ~removed
    /\ h \in running
    /\ running' = running \ {h}
    /\ removed' = TRUE
    /\ UNCHANGED <<task, listens, heard>>

\* `deregister`, once the lock is free again.
Notify ==
    /\ removed
    /\ removed' = FALSE
    /\ heard' = (heard \/ listens)
    /\ UNCHANGED <<running, task, listens>>

-----------------------------------------------------------------------------
(* all_gone *)

\* A new Notified, enabled before anything is looked at.
Enable ==
    /\ task = "looping"
    /\ task' = "listening"
    /\ listens' = TRUE
    /\ heard' = FALSE
    /\ UNCHANGED <<running, removed>>

\* Under the lock: is anybody in flight?
Look ==
    /\ task = "listening"
    /\ task' = IF running = {} THEN "over" ELSE "looked"
    /\ UNCHANGED <<running, removed, listens, heard>>

\* The first poll of the Notified.
Await ==
    /\ task = "looked"
    /\ task' = "sleeping"
    /\ listens' = TRUE
    /\ UNCHANGED <<running, removed, heard>>

Wake ==
    /\ task = "sleeping"
    /\ heard
    /\ task' = "looping"
    /\ UNCHANGED <<running, removed, listens, heard>>

-----------------------------------------------------------------------------
Next ==
    \/ \E h \in Hosts : Register(h) \/ Remove(h)
    \/ Notify
    \/ Enable \/ Look \/ Await \/ Wake

Spec == Init /\ [][Next]_vars

-----------------------------------------------------------------------------
\* all_gone never sleeps through the last ssh: when nobody is in flight and it
\* sleeps, it has been notified or is about to be, wherever it was between its
\* look at the map and its sleep when that ssh went.
NobodySleepsThroughTheLast ==
    task = "sleeping" /\ running = {} => heard \/ removed

-----------------------------------------------------------------------------
\* From before its look all_gone listens, so that an entry removed after the look
\* is heard of.
ListensFromItsLookOn ==
    /\ task \in {"listening", "looked", "sleeping"} => listens
    /\ task \in {"looked", "sleeping"} /\ running = {} => heard \/ removed

\* Any number of Hosts and of ssh children, one after another.
THEOREM LastIsNotSleptThrough == Spec => []NobodySleepsThroughTheLast
<1> USE DEF ListensFromItsLookOn
<1>1. Init => ListensFromItsLookOn
    BY DEF Init
<1>2. ListensFromItsLookOn /\ [Next]_vars => ListensFromItsLookOn'
  <2> SUFFICES ASSUME ListensFromItsLookOn, [Next]_vars
               PROVE  ListensFromItsLookOn'
      OBVIOUS
  <2>1. ASSUME NEW h \in Hosts, Register(h) PROVE ListensFromItsLookOn'
      BY <2>1 DEF Register
  <2>2. ASSUME NEW h \in Hosts, Remove(h) PROVE ListensFromItsLookOn'
      BY <2>2 DEF Remove
  <2>3. CASE Notify
      BY <2>3 DEF Notify
  <2>4. CASE Enable \/ Look \/ Await \/ Wake
      BY <2>4 DEF Enable, Look, Await, Wake
  <2>5. CASE UNCHANGED vars
      BY <2>5 DEF vars
  <2> QED BY <2>1, <2>2, <2>3, <2>4, <2>5 DEF Next
<1>3. ListensFromItsLookOn => NobodySleepsThroughTheLast
    BY DEF NobodySleepsThroughTheLast
<1> QED BY <1>1, <1>2, <1>3, PTL DEF Spec
=============================================================================

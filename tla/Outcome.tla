------------------------------ MODULE Outcome ------------------------------
(***************************************************************************)
(* What one Host's command did, and what a run's outcomes make of its exit *)
(* code: src/run/outcome.rs, the status match of src/run/ssh.rs and the    *)
(* exit codes of src/lib.rs.  Constant operators only.                     *)
(***************************************************************************)
EXTENDS Integers

Status ==
    {"ok", "failed", "running", "unreachable", "timeout", "cancelled"}

\* How an ssh child ended: its exit status, or one of these two.  Signalled is
\* `status.code()` being None, Unreadable is `wait` answering Err.
Signalled == -1
Unreadable == -2

\* ssh's own "I could not connect".
ConnectFailed == 255

EXIT_OK == 0
EXIT_LOCAL == 1
EXIT_FAILED == 2
EXIT_UNREACHABLE == 4
EXIT_INTERRUPTED == 99

from_exit_code(code) ==
    CASE code = 0 -> "ok"
      [] code = ConnectFailed -> "unreachable"
      [] OTHER -> "failed"

-----------------------------------------------------------------------------
\* A slip: a child that died of a signal is taken for an interrupted one before
\* the limit is asked about.
SignalFirst(killed, timedOut, end) ==
    CASE killed \/ end = Signalled -> "cancelled"
      [] ~killed /\ end # Signalled /\ timedOut -> "timeout"
      [] ~killed /\ ~timedOut /\ end = Unreadable -> "unreachable"
      [] OTHER -> from_exit_code(end)

\* The match of `run_remote_command`: rshx's own kill outranks its own limit,
\* and both outrank whatever the child's death looked like.
StatusOf(killed, timedOut, end) ==
    CASE killed -> "cancelled"
      [] ~killed /\ timedOut -> "timeout"
      [] ~killed /\ ~timedOut /\ end = Signalled -> "cancelled"
      [] ~killed /\ ~timedOut /\ end = Unreadable -> "unreachable"
      [] OTHER -> from_exit_code(end)

\* A slip: a timeout adds its bit to the one of the unreachable Hosts.
ExitCodeAddsTwice(statuses) ==
    IF "cancelled" \in statuses THEN EXIT_INTERRUPTED
    ELSE (IF "failed" \in statuses THEN EXIT_FAILED ELSE EXIT_OK)
       + (IF "unreachable" \in statuses THEN EXIT_UNREACHABLE ELSE EXIT_OK)
       + (IF "timeout" \in statuses THEN EXIT_UNREACHABLE ELSE EXIT_OK)

\* A slip: an interrupt no longer outranks the bits.
ExitCodeWithoutInterrupt(statuses) ==
    (IF "failed" \in statuses THEN EXIT_FAILED ELSE 0)
    + (IF statuses \cap {"unreachable", "timeout"} # {}
       THEN EXIT_UNREACHABLE ELSE 0)

\* `exit_code`, of the set of statuses a run reported.  The two bits are
\* independent, so or-ing them is adding each of them once.
ExitCode(statuses) ==
    IF "cancelled" \in statuses THEN EXIT_INTERRUPTED
    ELSE (IF "failed" \in statuses THEN EXIT_FAILED ELSE EXIT_OK)
       + (IF statuses \cap {"unreachable", "timeout"} # {}
          THEN EXIT_UNREACHABLE ELSE EXIT_OK)

\* `launched`: a detached launch that ended well is a command left running, if
\* the Host printed the pid of the shell that runs it.
Launched(status, printedPid) ==
    IF status # "ok" THEN status
    ELSE IF printedPid THEN "running" ELSE "unreachable"
=============================================================================

------------------------------ MODULE CliClient ------------------------------
(***************************************************************************)
(* cli.py: one process per command, sequential.  create prints an id and   *)
(* ends; delete ends a session by its id; interactive creates a session    *)
(* and deletes it when its loop is left.  The commands that only read or   *)
(* stream (chat, files, upload, download, approve) change no session, and  *)
(* in the loop they are one step that returns (a stutter) or raises.       *)
(***************************************************************************)
EXTENDS SessionService

VARIABLES
  cli,    \* the process: "none", "creating", "prompt", "deleting"
  runs,   \* its command: "create", "interactive" or "delete"
  holds   \* session_id

cliVars == <<cli, runs, holds>>

CliTypeOK ==
  /\ cli \in {"none", "creating", "prompt", "deleting"}
  /\ runs \in {"create", "interactive", "delete"}
  /\ holds \in Sessions \cup {NoSession}

CliInit == cli = "none" /\ runs = "create" /\ holds = NoSession

CliExit == cli' = "none" /\ runs' = "create" /\ holds' = NoSession

\* What the process will delete itself, or hand to its user.
CliHolds == IF runs = "delete" THEN {} ELSE {holds} \ {NoSession}

\* create and interactive begin with a POST; one that is refused ends them.
CliCreate(s) ==
  /\ cli = "none"
  /\ Created(s)
  /\ cli' = "creating" /\ holds' = s
  /\ runs' \in {"create", "interactive"}

\* The client's 10 seconds are over, or the user interrupts the POST.
CliUnanswered ==
  /\ "lost" \in Faults
  /\ cli = "creating"
  /\ GivenUp({holds}, "unanswered")
  /\ CliExit

\* The id is printed; create ends here, and leaves the session to its user.
CliAnswered ==
  /\ cli = "creating"
  /\ IF runs = "create"
     THEN GivenUp({holds}, "printed") /\ CliExit
     ELSE cli' = "prompt" /\ UNCHANGED <<serviceVars, runs, holds>>

(***************************************************************************)
(* A message, /files or /upload fails with an HTTP error, a timeout or a   *)
(* missing file.  Only KeyboardInterrupt is caught, so the process ends    *)
(* without the DELETE that follows the loop.                               *)
(***************************************************************************)
CliRaises ==
  /\ cli = "prompt"
  /\ GivenUp({holds}, "raised")
  /\ CliExit

\* /quit, the end of the input, or an interrupt in the loop.
CliQuit ==
  /\ cli = "prompt"
  /\ cli' = "deleting"
  /\ UNCHANGED <<serviceVars, runs, holds>>

\* The command delete, of a session whose id is or was on a screen.
CliStartDelete(s) ==
  /\ cli = "none" /\ s \in issued
  /\ cli' = "deleting" /\ runs' = "delete" /\ holds' = s
  /\ UNCHANGED serviceVars

\* A DELETE that fails is not repeated.
CliDelete ==
  /\ cli = "deleting"
  /\ \/ Deleted(holds)
     \/ "delete" \in Faults /\ GivenUp(CliHolds, "failed")
  /\ CliExit

CliNext ==
  \/ \E s \in Sessions : CliCreate(s)
  \/ CliUnanswered \/ CliAnswered \/ CliRaises
  \/ CliQuit
  \/ \E s \in Sessions : CliStartDelete(s)
  \/ CliDelete
=============================================================================

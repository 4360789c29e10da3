------------------------------ MODULE TuiClient ------------------------------
(***************************************************************************)
(* tui.py: the user interface, whose handlers run one at a time on the UI  *)
(* thread, and its worker threads, which run at any time between them and  *)
(* share session_id, container_id and _streaming without a lock.  A        *)
(* worker's call_from_thread runs on the UI thread and waits for it.       *)
(*                                                                         *)
(* Next to it, in another terminal, runs cli.py.                           *)
(***************************************************************************)
EXTENDS CliClient, Naturals, FiniteSets

CONSTANTS
  Workers     \* worker threads: bounds how many are running at once

VARIABLES
  session,    \* self.session_id
  container,  \* self.container_id: the session it was created for
  streaming,  \* self._streaming
  disabled,   \* the prompt does not take input
  bar,        \* the session and container the top bar shows
  ui,         \* the UI thread: "free", "deleting", "cleared", "quitting", "exited"
  doomed,     \* sid, in action_delete_session and action_quit_app
  renew,      \* action_new_session called action_delete_session
  job,        \* worker -> "none", "create", "send", "delete"; a send that raises: "fail"
  at,         \* worker -> the statement it is at
  id,         \* worker -> the id in its response or its argument
  hasty       \* history: the user acted before the last action had shown

screenVars == <<disabled, bar, ui, doomed, renew, hasty>>
workerVars == <<job, at, id>>
sharedVars == <<session, container, streaming>>
vars == <<serviceVars, cliVars, sharedVars, screenVars, workerVars>>

\* Where a worker is: creating a session, telling the interface, streaming.
Creating  == {"post", "answered", "named", "paired", "shown"}
Preparing == {"check", "flag", "disable"}
Ending    == {"clear", "enable"}
Stages    == {"none", "open", "stream", "fail", "delete"} \cup Creating \cup Preparing \cup Ending

MaybeSession == Sessions \cup {NoSession}

TypeOK ==
  /\ ServiceTypeOK /\ CliTypeOK
  /\ session \in MaybeSession /\ container \in MaybeSession
  /\ streaming \in BOOLEAN /\ disabled \in BOOLEAN
  /\ bar \in MaybeSession \X MaybeSession
  /\ ui \in {"free", "deleting", "cleared", "quitting", "exited"}
  /\ doomed \in MaybeSession
  /\ renew \in BOOLEAN
  /\ job \in [Workers -> {"none", "create", "send", "delete", "fail"}]
  /\ at \in [Workers -> Stages]
  /\ id \in [Workers -> MaybeSession]
  /\ hasty \in BOOLEAN

Init ==
  /\ ServiceInit /\ CliInit
  /\ session = NoSession /\ container = NoSession
  /\ streaming = FALSE /\ disabled = FALSE
  /\ bar = <<NoSession, NoSession>>
  /\ ui = "free" /\ doomed = NoSession /\ renew = FALSE
  /\ job = [w \in Workers |-> "none"]
  /\ at = [w \in Workers |-> "none"]
  /\ id = [w \in Workers |-> NoSession]
  /\ hasty = FALSE

-----------------------------------------------------------------------------
Idle == {w \in Workers : job[w] = "none"}

\* The interface has not reacted yet to something the user started.
Unseen == \E w \in Workers : at[w] \in Creating \cup Preparing

StartWorker(w, kind, where, sid) ==
  /\ w \in Idle
  /\ job' = [job EXCEPT ![w] = kind]
  /\ at' = [at EXCEPT ![w] = where]
  /\ id' = [id EXCEPT ![w] = sid]

\* The worker goes on to the statement where, its local id unchanged.
Goto(w, where) == at' = [at EXCEPT ![w] = where] /\ UNCHANGED <<job, id>>

Finish(w) ==
  /\ job' = [job EXCEPT ![w] = "none"]
  /\ at' = [at EXCEPT ![w] = "none"]
  /\ id' = [id EXCEPT ![w] = NoSession]

\* What self.session_id holds now and nobody is about to delete.
Overwritten == {session} \ {NoSession, doomed}

\* Mutant of TopBar: the case of no session is left out.
TopBarKept == IF session' = NoSession THEN bar ELSE <<session', container'>>

TopBar == IF session' = NoSession THEN <<NoSession, NoSession>>
                                  ELSE <<session', container'>>

UiFree == ui = "free"

-----------------------------------------------------------------------------
(* Handlers of the UI thread. *)

\* on_input_submitted; refused while a response streams, to no effect.
Submit(w) ==
  /\ UiFree /\ ~disabled /\ ~streaming
  /\ StartWorker(w, "send", "check", NoSession)
  /\ hasty' = (hasty \/ Unseen)
  /\ UNCHANGED <<serviceVars, cliVars, sharedVars, disabled, bar, ui, doomed, renew>>

\* action_new_session without a session.
NewSession(w) ==
  /\ UiFree /\ session = NoSession
  /\ StartWorker(w, "create", "post", NoSession)
  /\ hasty' = (hasty \/ Unseen)
  /\ UNCHANGED <<serviceVars, cliVars, sharedVars, disabled, bar, ui, doomed, renew>>

\* action_delete_session up to sid = self.session_id; again: for a new session.
DeleteReads(again) ==
  /\ UiFree /\ session # NoSession
  /\ Cardinality(Idle) > IF again THEN 1 ELSE 0
  /\ ui' = "deleting"
  /\ doomed' = session
  /\ renew' = again
  /\ hasty' = (hasty \/ (again /\ Unseen))
  /\ UNCHANGED <<serviceVars, cliVars, sharedVars, disabled, bar, workerVars>>

DeleteClears ==
  /\ ui = "deleting"
  /\ ui' = "cleared"
  /\ session' = NoSession
  /\ GivenUp(Overwritten, "raced")
  /\ UNCHANGED <<cliVars, container, streaming, disabled, bar, doomed, renew, hasty,
                 workerVars>>

\* container_id, the top bar, the worker that deletes, and the one that creates.
DeleteEnds ==
  /\ ui = "cleared"
  /\ ui' = "free"
  /\ container' = NoSession
  /\ UNCHANGED session
  /\ bar' = TopBar
  /\ IF renew
     THEN \E w, x \in Idle :
            /\ w # x
            /\ job' = [job EXCEPT ![w] = "delete", ![x] = "create"]
            /\ at' = [at EXCEPT ![w] = "delete", ![x] = "post"]
            /\ id' = [id EXCEPT ![w] = doomed]
     ELSE \E w \in Idle : StartWorker(w, "delete", "delete", doomed)
  /\ doomed' = NoSession /\ renew' = FALSE
  /\ UNCHANGED <<serviceVars, cliVars, streaming, disabled, hasty>>

\* Mutant of Quit: the session is not deleted.
QuitAtOnce ==
  /\ UiFree
  /\ ui' = "exited"
  /\ UNCHANGED <<serviceVars, cliVars, sharedVars, disabled, bar, doomed, renew, hasty,
                 workerVars>>

\* action_quit_app: the UI thread waits for the DELETE, the workers do not.
Quit ==
  /\ UiFree
  /\ IF session = NoSession
     THEN ui' = "exited" /\ UNCHANGED doomed
     ELSE ui' = "quitting" /\ doomed' = session
  /\ UNCHANGED <<serviceVars, cliVars, sharedVars, disabled, bar, renew, hasty,
                 workerVars>>

QuitEnds ==
  /\ ui = "quitting"
  /\ ui' = "exited"
  /\ doomed' = NoSession
  /\ UNCHANGED issued
  /\ \/ live' = live \ {doomed} /\ Left(Overwritten, "quit")
     \/ "delete" \in Faults /\ UNCHANGED live /\ Left(Overwritten \cup {doomed}, "failed")
  /\ UNCHANGED <<cliVars, sharedVars, disabled, bar, renew, hasty, workerVars>>

-----------------------------------------------------------------------------
(* _create_session_sync, on a worker thread. *)

Served(w, s) ==
  /\ at[w] = "post"
  /\ Created(s)
  /\ at' = [at EXCEPT ![w] = "answered"]
  /\ id' = [id EXCEPT ![w] = s]
  /\ UNCHANGED <<cliVars, sharedVars, screenVars, job>>

\* No connection, 409 or 503: a message that waited for the session is dropped.
Refused(w) ==
  /\ at[w] = "post"
  /\ Finish(w)
  /\ UNCHANGED <<serviceVars, cliVars, sharedVars, screenVars>>

\* The client's 10 seconds are over before the response is there.
Unanswered(w) ==
  /\ "lost" \in Faults
  /\ at[w] = "answered"
  /\ GivenUp({id[w]}, "unanswered")
  /\ Finish(w)
  /\ UNCHANGED <<cliVars, sharedVars, screenVars>>

Name(w) ==
  /\ at[w] = "answered"
  /\ session' = id[w]
  /\ IF ui = "exited" THEN GivenUp({id[w]}, "quit") ELSE GivenUp(Overwritten, "raced")
  /\ Goto(w, "named")
  /\ UNCHANGED <<cliVars, container, streaming, screenVars>>

\* Mutant of Pair: the whole response is kept, not its container_id.
PairWhole(w) ==
  /\ at[w] = "named"
  /\ container' = [container_id |-> id[w]]
  /\ Goto(w, "paired")
  /\ UNCHANGED <<serviceVars, cliVars, session, streaming, screenVars>>

Pair(w) ==
  /\ at[w] = "named"
  /\ container' = id[w]
  /\ Goto(w, "paired")
  /\ UNCHANGED <<serviceVars, cliVars, session, streaming, screenVars>>

\* _update_session_display, on the UI thread.
Show(w) ==
  /\ at[w] = "paired" /\ UiFree
  /\ UNCHANGED sharedVars
  /\ bar' = TopBar
  /\ Goto(w, "shown")
  /\ UNCHANGED <<serviceVars, cliVars, disabled, ui, doomed, renew, hasty>>

(***************************************************************************)
(* self.session_id is read once more, for the log.  If the user has        *)
(* deleted the session, slicing None raises, the creation is reported as   *)
(* failed, and the message that asked for it is not sent.                  *)
(***************************************************************************)
Report(w) ==
  /\ at[w] = "shown" /\ UiFree
  /\ IF session = NoSession \/ job[w] = "create"
     THEN Finish(w)
     ELSE /\ at' = [at EXCEPT ![w] = "flag"]
          /\ id' = [id EXCEPT ![w] = NoSession]
          /\ UNCHANGED job
  /\ UNCHANGED <<serviceVars, cliVars, sharedVars, screenVars>>

-----------------------------------------------------------------------------
(* _send_message, on a worker thread. *)

CheckSession(w) ==
  /\ at[w] = "check"
  /\ Goto(w, IF session = NoSession THEN "post" ELSE "flag")
  /\ UNCHANGED <<serviceVars, cliVars, sharedVars, screenVars>>

\* Mutant of Flag: the stream is opened without telling the interface.
FlagSkipped(w) ==
  /\ at[w] = "flag"
  /\ Goto(w, "open")
  /\ UNCHANGED <<serviceVars, cliVars, sharedVars, screenVars>>

Flag(w) ==
  /\ at[w] = "flag"
  /\ streaming' = TRUE
  /\ Goto(w, "disable")
  /\ UNCHANGED <<serviceVars, cliVars, session, container, screenVars>>

\* _set_streaming(True), on the UI thread.
Disable(w) ==
  /\ at[w] = "disable" /\ UiFree
  /\ disabled' = TRUE
  /\ Goto(w, "open")
  /\ UNCHANGED <<serviceVars, cliVars, sharedVars, bar, ui, doomed, renew, hasty>>

(***************************************************************************)
(* The URL is made from self.session_id as it is now.  A lost connection   *)
(* is reported; but the report of a 404 reads the text of a response that  *)
(* was not read, which raises in the except clause, past its call.         *)
(***************************************************************************)
Open(w) ==
  /\ at[w] = "open"
  /\ \/ /\ session \in live
        /\ at' = [at EXCEPT ![w] = "stream"] /\ job' = job
     \/ at' = [at EXCEPT ![w] = "clear"] /\ job' = job
     \/ /\ session \notin live
        /\ at' = [at EXCEPT ![w] = "clear"] /\ job' = [job EXCEPT ![w] = "fail"]
  /\ UNCHANGED <<serviceVars, cliVars, sharedVars, screenVars, id>>

\* Mutant of StreamEnds: a stream that breaks ends the worker.
StreamBreaks(w) ==
  /\ at[w] = "stream"
  /\ \/ Goto(w, "clear")
     \/ Finish(w)
  /\ UNCHANGED <<serviceVars, cliVars, sharedVars, screenVars>>

\* The server is done, or the connection breaks: the finally block either way.
StreamEnds(w) ==
  /\ at[w] = "stream"
  /\ Goto(w, "clear")
  /\ UNCHANGED <<serviceVars, cliVars, sharedVars, screenVars>>

Clear(w) ==
  /\ at[w] = "clear"
  /\ streaming' = FALSE
  /\ Goto(w, "enable")
  /\ UNCHANGED <<serviceVars, cliVars, session, container, screenVars>>

\* _set_streaming(False), on the UI thread; what was raised goes on afterwards.
Enable(w) ==
  /\ at[w] = "enable" /\ UiFree
  /\ disabled' = FALSE
  /\ IF job[w] = "fail" THEN Goto(w, "fail") ELSE Finish(w)
  /\ UNCHANGED <<serviceVars, cliVars, sharedVars, bar, ui, doomed, renew, hasty>>

\* A worker that fails ends the app, which deletes nothing.
Fails(w) ==
  /\ at[w] = "fail" /\ UiFree
  /\ ui' = "exited"
  /\ GivenUp({session} \ {NoSession}, "crashed")
  /\ Finish(w)
  /\ UNCHANGED <<cliVars, sharedVars, disabled, bar, doomed, renew, hasty>>

-----------------------------------------------------------------------------
\* _delete_session_bg: no failure is retried.
DeleteInBackground(w) ==
  /\ at[w] = "delete"
  /\ \/ Deleted(id[w])
     \/ "delete" \in Faults /\ GivenUp({id[w]}, "failed")
  /\ Finish(w)
  /\ UNCHANGED <<cliVars, sharedVars, screenVars>>

\* call_from_thread after the app has ended raises out of the worker.
EndsWithApp(w) ==
  /\ ui = "exited"
  /\ at[w] \in {"paired", "shown", "disable", "enable", "fail"}
  /\ Finish(w)
  /\ UNCHANGED <<serviceVars, cliVars, sharedVars, screenVars>>

WorkerStep(w) ==
  \/ \E s \in Sessions : Served(w, s)
  \/ Refused(w) \/ Unanswered(w)
  \/ Name(w) \/ Pair(w) \/ Show(w) \/ Report(w)
  \/ CheckSession(w) \/ Flag(w) \/ Disable(w)
  \/ Open(w) \/ StreamEnds(w) \/ Clear(w) \/ Enable(w) \/ Fails(w)
  \/ DeleteInBackground(w)
  \/ EndsWithApp(w)

UiStep ==
  \/ \E again \in BOOLEAN : DeleteReads(again)
  \/ DeleteClears
  \/ DeleteEnds
  \/ Quit
  \/ QuitEnds

Next ==
  \/ \E w \in Workers : Submit(w)
  \/ \E w \in Workers : NewSession(w)
  \/ UiStep
  \/ \E w \in Workers : WorkerStep(w)
  \/ CliNext /\ UNCHANGED <<sharedVars, screenVars, workerVars>>

Spec == Init /\ [][Next]_vars

(***************************************************************************)
(* Threads run, requests are answered or given up by the client, and a     *)
(* stream ends because every turn does.                                    *)
(***************************************************************************)
FairSpec ==
  /\ Spec
  /\ \A w \in Workers : WF_vars(WorkerStep(w))
  /\ WF_vars(DeleteClears \/ DeleteEnds \/ QuitEnds)

-----------------------------------------------------------------------------
TuiHolds ==
  ((IF ui = "exited" THEN {} ELSE {session, doomed})
     \cup {id[w] : w \in {x \in Workers : at[x] \in {"answered", "delete"}}})
  \ {NoSession}

(***************************************************************************)
(* No session is forgotten: one that lives on the server is held by a      *)
(* client that will still delete it, or was left behind for one of the     *)
(* Reasons; and threads overwrite one another's session only if the user   *)
(* acted again before the interface showed the last action.                *)
(***************************************************************************)
NoneForgotten ==
  /\ \A s \in live : s \in TuiHolds \cup CliHolds \/ left[s] # ""
  /\ \A s \in Sessions : left[s] = "raced" => hasty

(***************************************************************************)
(* One response streams at a time ("Wait for the current response to       *)
(* finish"), if the user waits until the interface shows what he started:  *)
(* requests of a session do not overlap.                                   *)
(***************************************************************************)
OneStream ==
  ~hasty => \A w, x \in Workers : at[w] = "stream" /\ at[x] = "stream" => w = x

(***************************************************************************)
(* When nothing is being created the top bar shows the session that        *)
(* messages go to, never with the container of another one, although the   *)
(* UI thread and the workers write the two one by one.                     *)
(***************************************************************************)
TopBarTruthful ==
  ~hasty /\ UiFree /\ ~Unseen =>
    /\ bar[1] = session
    /\ session # NoSession => {container, bar[2]} \subseteq {session, NoSession}

(***************************************************************************)
(* The prompt always comes back, whatever ends the stream.                 *)
(***************************************************************************)
PromptReturns == disabled ~> ~disabled \/ ui = "exited"
=============================================================================

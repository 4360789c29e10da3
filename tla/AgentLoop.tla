------------------------------ MODULE AgentLoop ------------------------------
(***************************************************************************)
(* One turn of a session: AgentLoop.run of src/agent.py as it is consumed  *)
(* by event_generator of src/api.py, the tool calls that run as tasks of   *)
(* the same event loop, the client that answers approvals, and, external,  *)
(* the agent CLI whose messages the SDK's stream delivers.                 *)
(*                                                                         *)
(* The generator runs from one yield to the next.  Other tasks run at a    *)
(* yield only if the SSE send suspends there (SlowClient); otherwise only  *)
(* while it awaits the next message.                                       *)
(***************************************************************************)
EXTENDS PermissionManager, Naturals, Sequences

CONSTANT SlowClient   \* sending an SSE event may suspend: the socket buffer fills

ASSUME AgentAssumption == SlowClient \in BOOLEAN

VARIABLES
  cli,        \* the CLI: "thinking", "tools" or "done"
  asked,      \* calls the model has made
  reported,   \* calls whose result the CLI has put into a message
  stream,     \* messages the SDK has received and run() has not
  pc,         \* run(): "receive", "events", "results", "done", "aborted"
  message,    \* the message run() is at
  queue,      \* _event_queue: the calls of its permission requests
  results,    \* _tool_results: the calls of its entries
  task,       \* call -> its task, one of TaskStates
  ran,        \* calls dispatched to the sandbox
  announced,  \* calls whose permission_request was sent to the client
  streamed,   \* calls whose tool_result was sent to the client
  answers,    \* history: the answers the API acknowledged, per call
  blocked     \* the event loop's thread waits for a lock it holds itself

cliVars  == <<cli, asked, reported>>
sentVars == <<announced, streamed>>
loopVars == <<pc, message>>
vars == <<permissionVars, cliVars, stream, loopVars, queue, results, task, ran,
          sentVars, answers, blocked>>

NoMessage == "none"
Messages == {"assistant", "user", "result"}

\* "done": _run_tool returned a result; "raised": the dispatch raised.
TaskStates == {"none", "waiting", "done", "raised", "cancelled"}
Ended(c) == task[c] \in {"done", "raised"}

TypeOK ==
  /\ PermissionTypeOK
  /\ cli \in {"thinking", "tools", "done"}
  /\ asked \subseteq Calls /\ reported \subseteq asked
  /\ stream \in Seq(Messages)
  /\ pc \in {"receive", "events", "results", "done", "aborted"}
  /\ message \in Messages \cup {NoMessage, "end"}
  /\ queue \in Seq(Calls) /\ results \in Seq(Calls)
  /\ task \in [Calls -> TaskStates]
  /\ ran \subseteq Calls
  /\ announced \subseteq Calls /\ streamed \subseteq Calls
  /\ answers \in [Calls -> SUBSET Answers]
  /\ blocked \in BOOLEAN

Init ==
  /\ PermissionInit
  /\ cli = "thinking" /\ asked = {} /\ reported = {}
  /\ stream = <<>>
  /\ pc = "receive" /\ message = NoMessage
  /\ queue = <<>> /\ results = <<>>
  /\ task = [c \in Calls |-> "none"]
  /\ ran = {}
  /\ announced = {} /\ streamed = {}
  /\ answers = [c \in Calls |-> {}]
  /\ blocked = FALSE

Over == pc \in {"done", "aborted"}

\* When another task of the event loop can run.
LoopFree == ~blocked /\ (pc = "receive" \/ Over \/ SlowClient)

\* Mutant of LockHeld: the with block is around the loop over the messages.
LockHeldThroughout == ~Over

\* _tool_results_lock is held at the yields of the loop that drains results.
LockHeld == pc = "results"

-----------------------------------------------------------------------------
(* External: the CLI. It makes calls, reports each result, and ends. *)

Ask(calls) ==
  /\ cli = "thinking" /\ ~Over
  /\ calls # {} /\ calls \subseteq Calls \ asked
  /\ cli' = "tools"
  /\ asked' = asked \cup calls
  /\ stream' = Append(stream, "assistant")
  /\ UNCHANGED <<permissionVars, reported, loopVars, queue, results, task, ran,
                 sentVars, answers, blocked>>

\* A call that raised is reported too, as an error of the tool server.
Report(c) ==
  /\ cli = "tools" /\ ~Over
  /\ c \in asked \ reported
  /\ Ended(c)
  /\ reported' = reported \cup {c}
  /\ cli' = IF reported' = asked THEN "thinking" ELSE "tools"
  /\ stream' = Append(stream, "user")
  /\ UNCHANGED <<permissionVars, asked, loopVars, queue, results, task, ran,
                 sentVars, answers, blocked>>

Conclude ==
  /\ cli = "thinking" /\ ~Over
  /\ cli' = "done"
  /\ stream' = Append(stream, "result")
  /\ UNCHANGED <<permissionVars, asked, reported, loopVars, queue, results, task,
                 ran, sentVars, answers, blocked>>

-----------------------------------------------------------------------------
(* A tool call: _run_tool. *)

\* Mutant of Deposit: the result of a refused call is not recorded.
DepositRunOnly(c, ok) ==
  /\ ran' = IF ok THEN ran \cup {c} ELSE ran
  /\ IF LockHeld
     THEN blocked' = TRUE /\ UNCHANGED <<results, task>>
     ELSE /\ results' = IF ok THEN Append(results, c) ELSE results
          /\ task' = [task EXCEPT ![c] = "done"]
          /\ UNCHANGED blocked

(***************************************************************************)
(* The call's outcome goes to the buffer under the lock, after the tool    *)
(* itself has run.  The lock is a threading.Lock: acquiring it while the   *)
(* suspended generator holds it blocks the thread both run on.             *)
(***************************************************************************)
Deposit(c, ok) ==
  /\ ran' = IF ok THEN ran \cup {c} ELSE ran
  /\ IF LockHeld
     THEN blocked' = TRUE /\ UNCHANGED <<results, task>>
     ELSE /\ results' = Append(results, c)
          /\ task' = [task EXCEPT ![c] = "done"]
          /\ UNCHANGED blocked

(***************************************************************************)
(* dispatch_tool raises (the sandbox is gone, a timeout of the channel):   *)
(* the exception leaves _run_tool before anything goes to the buffer.      *)
(***************************************************************************)
Raise(c) ==
  /\ ran' = ran \cup {c}
  /\ task' = [task EXCEPT ![c] = "raised"]
  /\ UNCHANGED <<results, blocked>>

\* How a call ends: refused, run with a result, or run with an exception.
Outcome(c, ok) == Deposit(c, ok) \/ (ok /\ Raise(c))

\* Up to the first suspension: refused, run, or left waiting for an answer.
CallTool(c) ==
  /\ LoopFree /\ ~Over
  /\ c \in asked /\ task[c] = "none"
  /\ LET verdict == Check(ToolOf[c]) IN
       IF verdict = "needs_approval"
       THEN /\ RequestApproval(c)
            /\ queue' = Append(queue, c)
            /\ task' = [task EXCEPT ![c] = "waiting"]
            /\ UNCHANGED <<results, ran, blocked>>
       ELSE /\ Outcome(c, verdict = "allow")
            /\ UNCHANGED <<permissionVars, queue>>
  /\ UNCHANGED <<cliVars, stream, loopVars, sentVars, answers>>

\* After the answer or the timeout.
ResumeTool(c) ==
  /\ LoopFree
  /\ Wake(c)
  /\ Outcome(c, Decided(c))
  /\ UNCHANGED <<cliVars, stream, loopVars, queue, sentVars, answers>>

Timeout(c) ==
  /\ LoopFree
  /\ TimerFires(c)
  /\ UNCHANGED <<cliVars, stream, loopVars, queue, results, task, ran, sentVars,
                 answers, blocked>>

\* POST .../permissions/{request_id}: the client knows the id from the stream.
Answer(c, answer) ==
  /\ LoopFree
  /\ c \in announced
  /\ Resolve(c, answer)
  /\ answers' = [answers EXCEPT ![c] = @ \cup {answer}]
  /\ UNCHANGED <<cliVars, stream, loopVars, queue, results, task, ran, sentVars,
                 blocked>>

-----------------------------------------------------------------------------
(* run(), message by message: drain the events, the results, handle it. *)

Receive ==
  /\ ~blocked
  /\ pc = "receive" /\ stream # <<>>
  /\ message' = Head(stream)
  /\ stream' = Tail(stream)
  /\ pc' = "events"
  /\ UNCHANGED <<permissionVars, cliVars, queue, results, task, ran, sentVars,
                 answers, blocked>>

YieldEvent ==
  /\ ~blocked
  /\ pc = "events" /\ queue # <<>>
  /\ announced' = announced \cup {Head(queue)}
  /\ queue' = Tail(queue)
  /\ UNCHANGED <<permissionVars, cliVars, stream, loopVars, results, task, ran,
                 streamed, answers, blocked>>

EventsDrained == pc = "results" \/ (pc = "events" /\ queue = <<>>)

\* Mutant of YieldResult: results do not wait for the permission events.
YieldResultFirst ==
  /\ ~blocked
  /\ pc \in {"events", "results"}
  /\ results # <<>>
  /\ streamed' = streamed \cup {Head(results)}
  /\ results' = Tail(results)
  /\ pc' = "results"
  /\ UNCHANGED <<permissionVars, cliVars, stream, message, queue, task, ran,
                 announced, answers, blocked>>

YieldResult ==
  /\ ~blocked
  /\ EventsDrained
  /\ results # <<>>
  /\ streamed' = streamed \cup {Head(results)}
  /\ results' = Tail(results)
  /\ pc' = "results"
  /\ UNCHANGED <<permissionVars, cliVars, stream, message, queue, task, ran,
                 announced, answers, blocked>>

\* Both drained: the message's own events; after the last one a final drain.
Handle ==
  /\ ~blocked
  /\ EventsDrained
  /\ results = <<>>
  /\ pc' = CASE message = "result" -> "events"
             [] message = "end"    -> "done"
             [] OTHER              -> "receive"
  /\ message' = IF message = "result" THEN "end" ELSE NoMessage
  /\ UNCHANGED <<permissionVars, cliVars, stream, queue, results, task, ran,
                 sentVars, answers, blocked>>

\* The client goes away or the CLI dies: the SDK client cancels its tasks.
Abort ==
  /\ LoopFree /\ ~Over
  /\ pc' = "aborted"
  /\ message' = NoMessage
  /\ CancelWaits
  /\ task' = [c \in Calls |-> IF task[c] = "waiting" THEN "cancelled" ELSE task[c]]
  /\ UNCHANGED <<cliVars, stream, queue, results, ran, sentVars, answers, blocked>>

Advance == Receive \/ YieldEvent \/ YieldResult \/ Handle

Next ==
  \/ \E calls \in SUBSET Calls : Ask(calls)
  \/ \E c \in Calls : Report(c)
  \/ Conclude
  \/ \E c \in Calls : CallTool(c)
  \/ \E c \in Calls : ResumeTool(c)
  \/ \E c \in Calls : Timeout(c)
  \/ \E c \in Calls, answer \in Answers : Answer(c, answer)
  \/ Advance
  \/ Abort

Spec == Init /\ [][Next]_vars

(***************************************************************************)
(* The event loop runs every ready task, timers fire, the CLI calls the    *)
(* tools it asked for, reports their results and ends its turn.  Nothing   *)
(* is assumed of the client.                                               *)
(***************************************************************************)
FairSpec ==
  /\ Spec
  /\ WF_vars(Advance)
  /\ WF_vars(Conclude)
  /\ \A c \in Calls : /\ WF_vars(Report(c))
                      /\ WF_vars(CallTool(c))
                      /\ WF_vars(ResumeTool(c))
                      /\ WF_vars(Timeout(c))

-----------------------------------------------------------------------------
(***************************************************************************)
(* A tool reaches the sandbox only if the session's lists let it: never a  *)
(* denied tool, and one that requires approval only after the client       *)
(* approved it before the timeout, whatever is answered twice or late.     *)
(***************************************************************************)
RunsOnlyIfPermitted ==
  \A c \in ran :
    /\ ToolOf[c] \notin policy.denied
    /\ IF ToolOf[c] \in policy.require
       THEN "approve" \in answers[c] /\ c \notin expired
       ELSE policy.allowed \in {NoList, {}} \/ ToolOf[c] \in policy.allowed

(***************************************************************************)
(* _pending holds exactly the calls that wait: no request survives its     *)
(* answer, its timeout or the end of the turn, and none is lost before.    *)
(***************************************************************************)
PendingIffWaiting == \A c \in Calls : c \in pending <=> task[c] = "waiting"

(***************************************************************************)
(* A completed turn has streamed everything that was buffered: the request *)
(* of every call that asked for approval and the result of every call      *)
(* whose tool did not raise, although the buffers are drained only when a  *)
(* message arrives.                                                        *)
(***************************************************************************)
TurnStreamsAll ==
  pc = "done" =>
    \A c \in asked : /\ c \in streamed \/ task[c] = "raised"
                     /\ Check(ToolOf[c]) = "needs_approval" => c \in announced

(***************************************************************************)
(* The client never sees the result of a call before the request to        *)
(* approve it: the two buffers are drained in that order.                  *)
(***************************************************************************)
RequestBeforeResult ==
  \A c \in streamed : Check(ToolOf[c]) = "needs_approval" => c \in announced

(***************************************************************************)
(* The event loop never blocks on the lock of the result buffer            *)
(* (plan-v2.md: "careful testing to avoid deadlocks").                     *)
(***************************************************************************)
LoopNeverBlocks == ~blocked

(***************************************************************************)
(* Every turn ends although no client ever answers: a pending approval     *)
(* times out, and the timeout counts as a denial.                          *)
(***************************************************************************)
TurnEnds == <>Over
=============================================================================

-------------------------- MODULE AgentLoop_proofs --------------------------
(***************************************************************************)
(* Theorems about a turn, for every set of calls and tools and every       *)
(* policy, whether or not sending an event suspends.                       *)
(***************************************************************************)
EXTENDS AgentLoop, TLAPS

Elems(q) == {q[i] : i \in 1..Len(q)}

LEMMA AppendElems ==
  ASSUME NEW S, NEW q \in Seq(S), NEW e \in S
  PROVE  /\ Append(q, e) \in Seq(S)
         /\ Elems(Append(q, e)) = Elems(q) \cup {e}
<1> DEFINE r == Append(q, e)
<1>1. r \in Seq(S) /\ Len(r) = Len(q) + 1 /\ Len(q) \in Nat
  OBVIOUS
<1>2. r[Len(q) + 1] = e /\ \A i \in 1..Len(q) : r[i] = q[i]
  OBVIOUS
<1>3. 1..Len(r) = 1..Len(q) \cup {Len(q) + 1}
  BY <1>1
<1>4. Elems(r) = Elems(q) \cup {e}
  BY <1>2, <1>3 DEF Elems
<1> QED
  BY <1>1, <1>4

LEMMA TailElems ==
  ASSUME NEW S, NEW q \in Seq(S), q # <<>>
  PROVE  /\ Head(q) \in S
         /\ Tail(q) \in Seq(S)
         /\ Elems(q) = {Head(q)} \cup Elems(Tail(q))
<1> DEFINE t == Tail(q)
<1>1. /\ Len(q) \in Nat /\ Len(q) > 0
      /\ t \in Seq(S) /\ Len(t) = Len(q) - 1
      /\ \A i \in 1..Len(t) : t[i] = q[i + 1]
      /\ Head(q) = q[1]
  OBVIOUS
<1>2. Elems(q) \subseteq {q[1]} \cup Elems(t)
  <2> SUFFICES ASSUME NEW i \in 1..Len(q), i # 1 PROVE q[i] \in Elems(t)
    BY DEF Elems
  <2>1. i - 1 \in 1..Len(t) /\ t[i - 1] = q[i]
    BY <1>1
  <2> QED
    BY <2>1 DEF Elems
<1>3. Elems(t) \subseteq Elems(q)
  BY <1>1 DEF Elems
<1>4. q[1] \in Elems(q) /\ q[1] \in S
  BY <1>1 DEF Elems
<1> QED
  BY <1>1, <1>2, <1>3, <1>4

LEMMA EmptyElems ==
  /\ Elems(<<>>) = {}
  /\ \A S : <<>> \in Seq(S)
<1>1. 1..Len(<<>>) = {}
  OBVIOUS
<1> QED
  BY <1>1 DEF Elems

-----------------------------------------------------------------------------
(* Types. *)

LEMMA TypeInit == Init => TypeOK
  BY EmptyElems DEF Init, PermissionInit, TypeOK, PermissionTypeOK, Answers,
                    NoMessage, TaskStates

\* What the end of a call does to its task and the buffer.
LEMMA OutcomeFacts ==
  ASSUME TypeOK, NEW c \in Calls, NEW ok \in BOOLEAN, Outcome(c, ok)
  PROVE  /\ ran' \subseteq Calls
         /\ results' \in Seq(Calls)
         /\ task' \in [Calls -> TaskStates]
         /\ blocked' \in BOOLEAN
         /\ ran' \subseteq ran \cup {c}
         /\ ran' # ran => ok
         /\ \/ LockHeld /\ blocked' /\ UNCHANGED <<results, task>>
            \/ /\ ~LockHeld /\ UNCHANGED blocked
               /\ Elems(results') = Elems(results) \cup {c}
               /\ task' = [task EXCEPT ![c] = "done"]
            \/ /\ UNCHANGED <<blocked, results>>
               /\ task' = [task EXCEPT ![c] = "raised"]
<1> USE DEF TypeOK
<1>1. CASE Deposit(c, ok) /\ LockHeld
  BY <1>1 DEF Deposit
<1>2. CASE Deposit(c, ok) /\ ~LockHeld
  <2>1. results' = Append(results, c) /\ results \in Seq(Calls)
    BY <1>2 DEF Deposit
  <2>2. results' \in Seq(Calls) /\ Elems(results') = Elems(results) \cup {c}
    BY <2>1, AppendElems
  <2> QED
    BY <1>2, <2>2 DEF Deposit, TaskStates
<1>3. CASE ok /\ Raise(c)
  BY <1>3 DEF Raise, TaskStates
<1> QED
  BY <1>1, <1>2, <1>3 DEF Outcome

LEMMA TypeStep == TypeOK /\ [Next]_vars => TypeOK'
<1> SUFFICES ASSUME TypeOK, [Next]_vars PROVE TypeOK'
  OBVIOUS
<1> USE DEF TypeOK, PermissionTypeOK
<1>1. ASSUME NEW calls \in SUBSET Calls, Ask(calls) PROVE TypeOK'
  <2>1. stream' \in Seq(Messages)
    BY <1>1, AppendElems DEF Ask, Messages
  <2> QED
    BY <1>1, <2>1 DEF Ask, permissionVars, loopVars, sentVars
<1>2. ASSUME NEW c \in Calls, Report(c) PROVE TypeOK'
  <2>1. stream' \in Seq(Messages)
    BY <1>2, AppendElems DEF Report, Messages
  <2> QED
    BY <1>2, <2>1 DEF Report, permissionVars, loopVars, sentVars
<1>3. CASE Conclude
  <2>1. stream' \in Seq(Messages)
    BY <1>3, AppendElems DEF Conclude, Messages
  <2> QED
    BY <1>3, <2>1 DEF Conclude, permissionVars, loopVars, sentVars
<1>4. ASSUME NEW c \in Calls, CallTool(c) PROVE TypeOK'
  <2>1. CASE Check(ToolOf[c]) = "needs_approval"
    <3>1. queue' = Append(queue, c)
      BY <1>4, <2>1 DEF CallTool
    <3>2. queue' \in Seq(Calls)
      BY <3>1, AppendElems
    <3> QED
      BY <1>4, <2>1, <3>2
         DEF CallTool, RequestApproval, TaskStates, cliVars, loopVars, sentVars
  <2>2. CASE Check(ToolOf[c]) # "needs_approval"
    <3>1. Outcome(c, Check(ToolOf[c]) = "allow") /\ UNCHANGED <<permissionVars, queue>>
      BY <1>4, <2>2 DEF CallTool
    <3>2. /\ ran' \subseteq Calls /\ results' \in Seq(Calls) /\ blocked' \in BOOLEAN
          /\ task' \in [Calls -> TaskStates]
      BY <3>1, OutcomeFacts
    <3> QED
      BY <1>4, <3>1, <3>2 DEF CallTool, permissionVars, cliVars, loopVars, sentVars
  <2> QED
    BY <2>1, <2>2
<1>5. ASSUME NEW c \in Calls, ResumeTool(c) PROVE TypeOK'
  <2>1. /\ ran' \subseteq Calls /\ results' \in Seq(Calls) /\ blocked' \in BOOLEAN
        /\ task' \in [Calls -> TaskStates]
    BY <1>5, OutcomeFacts DEF ResumeTool, Decided
  <2> QED
    BY <1>5, <2>1 DEF ResumeTool, Wake, cliVars, loopVars, sentVars
<1>6. ASSUME NEW c \in Calls, Timeout(c) PROVE TypeOK'
  BY <1>6 DEF Timeout, TimerFires, cliVars, loopVars, sentVars
<1>7. ASSUME NEW c \in Calls, NEW answer \in Answers, Answer(c, answer) PROVE TypeOK'
  BY <1>7 DEF Answer, Resolve, cliVars, loopVars, sentVars
<1>8. CASE Receive
  <2>1. Head(stream) \in Messages /\ Tail(stream) \in Seq(Messages)
    BY <1>8, TailElems DEF Receive
  <2> QED
    BY <1>8, <2>1 DEF Receive, permissionVars, cliVars, sentVars
<1>9. CASE YieldEvent
  <2>1. Head(queue) \in Calls /\ Tail(queue) \in Seq(Calls)
    BY <1>9, TailElems DEF YieldEvent
  <2> QED
    BY <1>9, <2>1 DEF YieldEvent, permissionVars, cliVars, loopVars
<1>10. CASE YieldResult
  <2>1. Head(results) \in Calls /\ Tail(results) \in Seq(Calls)
    BY <1>10, TailElems DEF YieldResult
  <2> QED
    BY <1>10, <2>1 DEF YieldResult, permissionVars, cliVars
<1>11. CASE Handle
  BY <1>11 DEF Handle, NoMessage, permissionVars, cliVars, sentVars
<1>12. CASE Abort
  BY <1>12 DEF Abort, CancelWaits, NoMessage, TaskStates, cliVars, sentVars
<1>13. CASE UNCHANGED vars
  BY <1>13 DEF vars, permissionVars, cliVars, loopVars, sentVars
<1> QED
  BY <1>1, <1>2, <1>3, <1>4, <1>5, <1>6, <1>7, <1>8, <1>9, <1>10, <1>11, <1>12, <1>13
     DEF Next, Advance

(***************************************************************************)
(* Every variable of a turn keeps its type, whatever the CLI asks for and  *)
(* the client answers.                                                     *)
(***************************************************************************)
THEOREM TurnTypeOK == Spec => []TypeOK
<1> QED
  BY TypeInit, TypeStep, PTL DEF Spec
-----------------------------------------------------------------------------
(* What the permission manager and the tasks agree on. *)

NeedsApproval(c) == Check(ToolOf[c]) = "needs_approval"

\* A pending request has a waiting task, an approval was acknowledged, a call
\* that ran is over unless the thread is blocked, and only a call that needs
\* approval waits.
PermissionInv ==
  /\ TypeOK
  /\ \A c \in pending : task[c] = "waiting"
  /\ \A c \in Calls : decision[c] = "approve" => "approve" \in answers[c]
  /\ \A c \in ran : blocked \/ Ended(c)
  /\ \A c \in Calls : task[c] = "waiting" => NeedsApproval(c)
  /\ RunsOnlyIfPermitted

\* What is in the buffers and what was sent cover every call that got so far.
StreamInv ==
  /\ \A c \in Calls : task[c] # "none" => c \in asked
  /\ \A c \in Calls : (task[c] = "waiting" \/ Ended(c)) /\ NeedsApproval(c)
                      => c \in announced \cup Elems(queue)
  /\ \A c \in Calls : task[c] = "done" <=> c \in streamed \cup Elems(results)
  /\ pc = "results" => \A c \in Elems(results) : NeedsApproval(c) => c \in announced
  /\ RequestBeforeResult

\* How far the CLI is when the generator is at its last messages.
EndInv ==
  /\ \A c \in reported : Ended(c)
  /\ cli # "tools" => reported = asked
  /\ message \in {"result", "end"} \/ "result" \in Elems(stream) => cli = "done"
  /\ pc = "results" /\ message = "end" => queue = <<>>
  /\ pc = "done" => cli = "done" /\ queue = <<>> /\ results = <<>>

TurnInv == PermissionInv /\ StreamInv /\ EndInv

\* With sends that do not suspend, the lock is never held at a suspension.
PromptInv == PermissionInv /\ ~blocked /\ PendingIffWaiting

-----------------------------------------------------------------------------
(* Permissions. *)

LEMMA PolicyConstant == [Next]_vars => policy' = policy
  BY DEF Next, Advance, vars, permissionVars, cliVars, loopVars, sentVars, Ask, Report,
         Conclude, CallTool, RequestApproval, ResumeTool, Wake, Timeout, TimerFires,
         Answer, Resolve, Receive, YieldEvent, YieldResult, Handle, Abort, CancelWaits

LEMMA VerdictConstant ==
  ASSUME policy' = policy, NEW c
  PROVE  NeedsApproval(c)' <=> NeedsApproval(c)
  BY DEF NeedsApproval, Check, Unrestricted

LEMMA PermissionInvInit == Init => PermissionInv
  BY TypeInit DEF Init, PermissionInit, PermissionInv, RunsOnlyIfPermitted

\* Most steps leave alone everything the invariant speaks of.
LEMMA PermissionQuiet ==
  ASSUME PermissionInv, TypeOK',
         UNCHANGED <<permissionVars, task, ran, answers, blocked>>
  PROVE  PermissionInv'
  BY VerdictConstant DEF PermissionInv, RunsOnlyIfPermitted, Ended, permissionVars

\* A call that gets to its outcome: it did not run before, and may run now.
LEMMA PermissionOutcome ==
  ASSUME PermissionInv, TypeOK', NEW c \in Calls, NEW ok \in BOOLEAN,
         Outcome(c, ok), task[c] \in {"none", "waiting"}, ~blocked,
         UNCHANGED <<policy, decision, expired, answers>>,
         pending' = pending \ {c},
         ok => /\ ToolOf[c] \notin policy.denied
               /\ IF ToolOf[c] \in policy.require
                  THEN "approve" \in answers[c] /\ c \notin expired
                  ELSE Unrestricted \/ ToolOf[c] \in policy.allowed
  PROVE  PermissionInv'
<1> USE DEF PermissionInv
<1>1. /\ ran' \subseteq ran \cup {c}
      /\ ran' # ran => ok
      /\ \/ blocked' /\ UNCHANGED task
         \/ /\ UNCHANGED blocked
            /\ \/ task' = [task EXCEPT ![c] = "done"]
               \/ task' = [task EXCEPT ![c] = "raised"]
  BY OutcomeFacts
<1>2. c \notin ran
  BY DEF Ended
<1>3. RunsOnlyIfPermitted'
  BY <1>1, <1>2 DEF RunsOnlyIfPermitted, Unrestricted
<1>4. \A d \in pending' : task'[d] = "waiting"
  BY <1>1 DEF TypeOK, PermissionTypeOK
<1>5. \A d \in ran' : blocked' \/ Ended(d)'
  BY <1>1 DEF TypeOK, Ended
<1>6. \A d \in Calls : task'[d] = "waiting" => NeedsApproval(d)'
  BY <1>1, VerdictConstant DEF TypeOK
<1> QED
  BY <1>3, <1>4, <1>5, <1>6

LEMMA PermissionStep == PermissionInv /\ [Next]_vars => PermissionInv'
<1> SUFFICES ASSUME PermissionInv, [Next]_vars PROVE PermissionInv'
  OBVIOUS
<1>0. TypeOK /\ TypeOK'
  BY TypeStep DEF PermissionInv
<1>1. ASSUME NEW calls \in SUBSET Calls, Ask(calls) PROVE PermissionInv'
  BY <1>0, <1>1, PermissionQuiet DEF Ask
<1>2. ASSUME NEW c \in Calls, Report(c) PROVE PermissionInv'
  BY <1>0, <1>2, PermissionQuiet DEF Report
<1>3. CASE Conclude
  BY <1>0, <1>3, PermissionQuiet DEF Conclude
<1>4. ASSUME NEW c \in Calls, CallTool(c) PROVE PermissionInv'
  <2>1. CASE NeedsApproval(c)
    <3>1. /\ pending' = pending \cup {c}
          /\ task' = [task EXCEPT ![c] = "waiting"]
          /\ UNCHANGED <<policy, decision, expired, ran, answers, blocked>>
      BY <1>4, <2>1 DEF CallTool, RequestApproval, NeedsApproval
    <3>2. task[c] = "none" /\ ~blocked
      BY <1>4 DEF CallTool, LoopFree
    <3>3. \A d \in Calls : task'[d] = "waiting" => NeedsApproval(d)'
      BY <1>0, <2>1, <3>1, VerdictConstant DEF TypeOK, PermissionInv
    <3>4. \A d \in ran' : blocked' \/ Ended(d)'
      BY <1>0, <3>1, <3>2 DEF TypeOK, PermissionInv, Ended
    <3>5. \A d \in pending' : task'[d] = "waiting"
      BY <1>0, <3>1 DEF TypeOK, PermissionTypeOK, PermissionInv
    <3>6. RunsOnlyIfPermitted'
      BY <3>1 DEF RunsOnlyIfPermitted, PermissionInv
    <3> QED
      BY <1>0, <3>1, <3>3, <3>4, <3>5, <3>6 DEF PermissionInv
  <2>2. CASE ~NeedsApproval(c)
    <3> DEFINE ok == Check(ToolOf[c]) = "allow"
    <3>1. Outcome(c, ok) /\ UNCHANGED <<permissionVars, answers>>
      BY <1>4, <2>2 DEF CallTool, NeedsApproval
    <3>2. task[c] = "none" /\ ~blocked
      BY <1>4 DEF CallTool, LoopFree
    <3>3. c \notin pending
      BY <3>2 DEF PermissionInv
    <3>4. ok => /\ ToolOf[c] \notin policy.denied
                /\ ToolOf[c] \notin policy.require
                /\ Unrestricted \/ ToolOf[c] \in policy.allowed
      BY DEF Check
    <3>5. ok \in BOOLEAN
      OBVIOUS
    <3> HIDE DEF ok
    <3> QED
      BY <1>0, <3>1, <3>2, <3>3, <3>4, <3>5, PermissionOutcome DEF permissionVars
  <2> QED
    BY <2>1, <2>2
<1>5. ASSUME NEW c \in Calls, ResumeTool(c) PROVE PermissionInv'
  <2>1. /\ Outcome(c, Decided(c)) /\ ~blocked /\ c \in pending
        /\ pending' = pending \ {c} /\ UNCHANGED <<policy, decision, expired, answers>>
    BY <1>5 DEF ResumeTool, Wake, LoopFree
  <2>2. task[c] = "waiting" /\ NeedsApproval(c)
    BY <2>1 DEF PermissionInv
  <2>3. ToolOf[c] \notin policy.denied /\ ToolOf[c] \in policy.require
    BY <2>2 DEF NeedsApproval, Check
  <2>4. Decided(c) => "approve" \in answers[c] /\ c \notin expired
    BY DEF Decided, PermissionInv
  <2>5. Decided(c) \in BOOLEAN
    BY DEF Decided
  <2> QED
    BY <1>0, <2>1, <2>2, <2>3, <2>4, <2>5, PermissionOutcome
<1>6. ASSUME NEW c \in Calls, Timeout(c) PROVE PermissionInv'
  <2>1. /\ c \in pending /\ ~blocked /\ expired' = expired \cup {c}
        /\ UNCHANGED <<policy, pending, decision, task, ran, answers, blocked>>
    BY <1>6 DEF Timeout, TimerFires, LoopFree
  <2>2. c \notin ran
    BY <2>1 DEF PermissionInv, Ended
  <2>3. RunsOnlyIfPermitted'
    BY <2>1, <2>2 DEF RunsOnlyIfPermitted, PermissionInv
  <2> QED
    BY <1>0, <2>1, <2>3, VerdictConstant DEF PermissionInv, Ended
<1>7. ASSUME NEW c \in Calls, NEW answer \in Answers, Answer(c, answer) PROVE PermissionInv'
  <2>1. /\ decision' = [decision EXCEPT ![c] = answer]
        /\ answers' = [answers EXCEPT ![c] = @ \cup {answer}]
        /\ UNCHANGED <<policy, pending, expired, task, ran, blocked>>
    BY <1>7 DEF Answer, Resolve
  <2>2. \A d \in Calls : answers[d] \subseteq answers'[d]
    BY <1>0, <2>1 DEF TypeOK
  <2>3. \A d \in Calls : decision'[d] = "approve" => "approve" \in answers'[d]
    BY <1>0, <2>1 DEF TypeOK, PermissionTypeOK, PermissionInv
  <2>4. RunsOnlyIfPermitted'
    BY <1>0, <2>1, <2>2 DEF TypeOK, RunsOnlyIfPermitted, PermissionInv
  <2> QED
    BY <1>0, <2>1, <2>3, <2>4, VerdictConstant DEF PermissionInv, Ended
<1>8. CASE Advance
  BY <1>0, <1>8, PermissionQuiet DEF Advance, Receive, YieldEvent, YieldResult, Handle
<1>9. CASE Abort
  <2>1. /\ pending' = {} /\ UNCHANGED <<policy, decision, expired, ran, answers, blocked>>
        /\ task' = [d \in Calls |-> IF task[d] = "waiting" THEN "cancelled" ELSE task[d]]
    BY <1>9 DEF Abort, CancelWaits
  <2>2. \A d \in ran' : blocked' \/ Ended(d)'
    BY <1>0, <2>1 DEF TypeOK, PermissionInv, Ended
  <2>3. RunsOnlyIfPermitted'
    BY <2>1 DEF RunsOnlyIfPermitted, PermissionInv
  <2> QED
    BY <1>0, <2>1, <2>2, <2>3 DEF PermissionInv
<1>10. CASE UNCHANGED vars
  BY <1>0, <1>10, PermissionQuiet DEF vars
<1> QED
  BY <1>1, <1>2, <1>3, <1>4, <1>5, <1>6, <1>7, <1>8, <1>9, <1>10 DEF Next

(***************************************************************************)
(* Whatever is answered, twice, late or not at all, a tool reaches the     *)
(* sandbox only if the lists let it, and one that requires approval only   *)
(* after an acknowledged approval whose timeout had not fired.             *)
(***************************************************************************)
THEOREM OnlyPermittedCallsRun == Spec => []RunsOnlyIfPermitted
<1>1. PermissionInv => RunsOnlyIfPermitted
  BY DEF PermissionInv
<1> QED
  BY <1>1, PermissionInvInit, PermissionStep, PTL DEF Spec

-----------------------------------------------------------------------------
(* The event stream. *)

LEMMA StreamInvInit == Init => StreamInv
  BY EmptyElems DEF Init, StreamInv, RequestBeforeResult, Ended

\* Most steps of the other tasks leave alone what the invariant speaks of.
LEMMA StreamQuiet ==
  ASSUME TypeOK, StreamInv, policy' = policy, asked \subseteq asked',
         UNCHANGED <<task, announced, streamed, queue, results>>,
         pc' = "results" => pc = "results"
  PROVE  StreamInv'
  BY VerdictConstant DEF TypeOK, StreamInv, RequestBeforeResult, NeedsApproval, Ended

\* A call that ends enters the buffer, unless the thread blocks or it raised.
LEMMA StreamOutcome ==
  ASSUME TypeOK, TypeOK', StreamInv, NEW c \in Calls, NEW ok \in BOOLEAN,
         Outcome(c, ok), c \in asked,
         task[c] \in {"none", "waiting"}, NeedsApproval(c) => task[c] = "waiting",
         UNCHANGED <<policy, asked, announced, streamed, queue, pc>>
  PROVE  StreamInv'
<1>1. CASE UNCHANGED <<results, task>>
  BY <1>1, StreamQuiet
<1>2. CASE /\ ~LockHeld
           /\ Elems(results') = Elems(results) \cup {c}
           /\ task' = [task EXCEPT ![c] = "done"]
  <2>2. \A d \in Calls : task'[d] # "none" => d \in asked'
    BY <1>2 DEF TypeOK, StreamInv
  <2>3. \A d \in Calls : (task'[d] = "waiting" \/ Ended(d)') /\ NeedsApproval(d)'
                         => d \in announced' \cup Elems(queue')
    BY <1>2, VerdictConstant DEF TypeOK, StreamInv, Ended
  <2>4. \A d \in Calls : task'[d] = "done" <=> d \in streamed' \cup Elems(results')
    BY <1>2 DEF TypeOK, StreamInv
  <2>5. pc' # "results"
    BY <1>2 DEF LockHeld
  <2>6. RequestBeforeResult'
    BY VerdictConstant DEF StreamInv, RequestBeforeResult, NeedsApproval, TypeOK
  <2> QED
    BY <2>2, <2>3, <2>4, <2>5, <2>6 DEF StreamInv
<1>3. CASE UNCHANGED results /\ task' = [task EXCEPT ![c] = "raised"]
  <2>1. \A d \in Calls : task'[d] # "none" => d \in asked'
    BY <1>3 DEF TypeOK, StreamInv
  <2>2. \A d \in Calls : (task'[d] = "waiting" \/ Ended(d)') /\ NeedsApproval(d)'
                         => d \in announced' \cup Elems(queue')
    BY <1>3, VerdictConstant DEF TypeOK, StreamInv, Ended
  <2>3. \A d \in Calls : task'[d] = "done" <=> d \in streamed' \cup Elems(results')
    BY <1>3 DEF TypeOK, StreamInv
  <2>4. pc' = "results" => \A d \in Elems(results') : NeedsApproval(d)' => d \in announced'
    BY <1>3, VerdictConstant DEF StreamInv
  <2>5. RequestBeforeResult'
    BY VerdictConstant DEF StreamInv, RequestBeforeResult, NeedsApproval, TypeOK
  <2> QED
    BY <2>1, <2>2, <2>3, <2>4, <2>5 DEF StreamInv
<1> QED
  BY <1>1, <1>2, <1>3, OutcomeFacts

LEMMA StreamStep == PermissionInv /\ StreamInv /\ [Next]_vars => StreamInv'
<1> SUFFICES ASSUME PermissionInv, StreamInv, [Next]_vars PROVE StreamInv'
  OBVIOUS
<1>0. TypeOK /\ TypeOK' /\ policy' = policy
  BY TypeStep, PolicyConstant DEF PermissionInv
<1>1. ASSUME NEW calls \in SUBSET Calls, Ask(calls) PROVE StreamInv'
  BY <1>0, <1>1, StreamQuiet DEF Ask, loopVars, sentVars
<1>2. ASSUME NEW c \in Calls, Report(c) PROVE StreamInv'
  BY <1>0, <1>2, StreamQuiet DEF Report, loopVars, sentVars
<1>3. CASE Conclude
  BY <1>0, <1>3, StreamQuiet DEF Conclude, loopVars, sentVars
<1>4. ASSUME NEW c \in Calls, CallTool(c) PROVE StreamInv'
  <2>0. /\ c \in asked /\ task[c] = "none"
        /\ UNCHANGED <<asked, announced, streamed, pc>>
    BY <1>4 DEF CallTool, cliVars, loopVars, sentVars
  <2>1. CASE NeedsApproval(c)
    <3>1. /\ queue' = Append(queue, c)
          /\ task' = [task EXCEPT ![c] = "waiting"]
          /\ UNCHANGED results
      BY <1>4, <2>1 DEF CallTool, NeedsApproval
    <3>2. Elems(queue') = Elems(queue) \cup {c}
      BY <1>0, <3>1, AppendElems DEF TypeOK
    <3>3. \A d \in Calls : task'[d] # "none" => d \in asked'
      BY <1>0, <2>0, <3>1 DEF Ended, TypeOK, StreamInv
    <3>4. \A d \in Calls : (task'[d] = "waiting" \/ Ended(d)') /\ NeedsApproval(d)'
                           => d \in announced' \cup Elems(queue')
      BY <1>0, <2>0, <3>1, <3>2, VerdictConstant DEF Ended, TypeOK, StreamInv
    <3>5. \A d \in Calls : task'[d] = "done" <=> d \in streamed' \cup Elems(results')
      BY <1>0, <2>0, <3>1 DEF Ended, TypeOK, StreamInv
    <3>6. pc' = "results" => \A d \in Elems(results') : NeedsApproval(d)' => d \in announced'
      BY <1>0, <2>0, <3>1, VerdictConstant DEF Ended, StreamInv
    <3>7. RequestBeforeResult'
      BY <1>0, <2>0, VerdictConstant DEF Ended, StreamInv, RequestBeforeResult, NeedsApproval
    <3> QED
      BY <3>3, <3>4, <3>5, <3>6, <3>7 DEF Ended, StreamInv
  <2>2. CASE ~NeedsApproval(c)
    <3>1. Outcome(c, Check(ToolOf[c]) = "allow") /\ UNCHANGED queue
      BY <1>4, <2>2 DEF CallTool, NeedsApproval
    <3> QED
      BY <1>0, <2>0, <2>2, <3>1, StreamOutcome
  <2> QED
    BY <2>1, <2>2
<1>5. ASSUME NEW c \in Calls, ResumeTool(c) PROVE StreamInv'
  <2>1. /\ Outcome(c, Decided(c)) /\ c \in pending
        /\ UNCHANGED <<asked, announced, streamed, queue, pc>>
    BY <1>5 DEF ResumeTool, Wake, cliVars, loopVars, sentVars
  <2>2. task[c] = "waiting" /\ c \in asked
    BY <2>1 DEF PermissionInv, StreamInv
  <2>3. Decided(c) \in BOOLEAN
    BY DEF Decided
  <2> QED
    BY <1>0, <2>1, <2>2, <2>3, StreamOutcome
<1>6. ASSUME NEW c \in Calls, Timeout(c) PROVE StreamInv'
  BY <1>0, <1>6, StreamQuiet DEF Timeout, cliVars, loopVars, sentVars
<1>7. ASSUME NEW c \in Calls, NEW answer \in Answers, Answer(c, answer) PROVE StreamInv'
  BY <1>0, <1>7, StreamQuiet DEF Answer, cliVars, loopVars, sentVars
<1>8. CASE Receive
  BY <1>0, <1>8, StreamQuiet DEF Receive, cliVars, sentVars
<1>9. CASE YieldEvent
  <2>1. /\ pc = "events" /\ announced' = announced \cup {Head(queue)}
        /\ queue' = Tail(queue) /\ queue # <<>>
        /\ UNCHANGED <<asked, task, results, streamed, pc>>
    BY <1>9 DEF YieldEvent, cliVars, loopVars
  <2>2. Elems(queue) = {Head(queue)} \cup Elems(queue')
    BY <1>0, <2>1, TailElems DEF TypeOK
  <2>3. announced \subseteq announced'
        /\ announced \cup Elems(queue) = announced' \cup Elems(queue')
    BY <2>1, <2>2
  <2>4. RequestBeforeResult'
    BY <1>0, <2>1, <2>3, VerdictConstant DEF Ended, StreamInv, RequestBeforeResult, NeedsApproval
  <2> QED
    BY <1>0, <2>1, <2>3, <2>4, VerdictConstant DEF Ended, StreamInv
<1>10. CASE YieldResult
  <2> DEFINE c == Head(results)
  <2>1. /\ streamed' = streamed \cup {c} /\ pc' = "results"
        /\ results' = Tail(results) /\ results # <<>>
        /\ UNCHANGED <<asked, task, announced, queue>>
    BY <1>10 DEF YieldResult, cliVars
  <2>2. Elems(results) = {c} \cup Elems(results') /\ c \in Calls
    BY <1>0, <2>1, TailElems DEF TypeOK
  <2>3. \A d \in Elems(results) : NeedsApproval(d) => d \in announced
    <3>1. CASE pc = "results"
      BY <3>1 DEF Ended, StreamInv
    <3>2. CASE pc = "events" /\ queue = <<>>
      <4>1. \A d \in Elems(results) : d \in Calls /\ task[d] = "done"
        BY <1>0 DEF Ended, StreamInv, TypeOK, Elems
      <4> QED
        BY <3>2, <4>1, EmptyElems DEF Ended, StreamInv
    <3> QED
      BY <1>10, <3>1, <3>2 DEF YieldResult, EventsDrained
  <2>4. RequestBeforeResult'
    BY <1>0, <2>1, <2>2, <2>3, VerdictConstant
       DEF Ended, StreamInv, RequestBeforeResult, NeedsApproval
  <2>5. \A d \in Elems(results') : NeedsApproval(d)' => d \in announced'
    BY <1>0, <2>1, <2>2, <2>3, VerdictConstant
  <2>6. streamed \cup Elems(results) = streamed' \cup Elems(results')
    BY <2>1, <2>2
  <2> QED
    BY <1>0, <2>1, <2>4, <2>5, <2>6, VerdictConstant DEF Ended, StreamInv
<1>11. CASE Handle
  <2>1. pc' # "results"
    BY <1>11 DEF Handle
  <2> QED
    BY <1>0, <1>11, <2>1, StreamQuiet DEF Handle, cliVars, sentVars
<1>12. CASE Abort
  <2>1. /\ pc' = "aborted"
        /\ task' = [d \in Calls |-> IF task[d] = "waiting" THEN "cancelled" ELSE task[d]]
        /\ UNCHANGED <<asked, announced, streamed, queue, results>>
    BY <1>12 DEF Abort, cliVars, sentVars
  <2>2. RequestBeforeResult'
    BY <1>0, <2>1, VerdictConstant DEF Ended, StreamInv, RequestBeforeResult, NeedsApproval
  <2> QED
    BY <1>0, <2>1, <2>2, VerdictConstant DEF Ended, StreamInv, TypeOK
<1>13. CASE UNCHANGED vars
  BY <1>0, <1>13, StreamQuiet DEF vars, cliVars, loopVars, sentVars
<1> QED
  BY <1>1, <1>2, <1>3, <1>4, <1>5, <1>6, <1>7, <1>8, <1>9, <1>10, <1>11, <1>12, <1>13
     DEF Next, Advance

-----------------------------------------------------------------------------
(* The end of the turn. *)

LEMMA EndInvInit == Init => EndInv
  BY EmptyElems DEF Init, EndInv, NoMessage

\* Once the CLI is done, every call has ended, and none starts or resumes.
LEMMA DoneMeansQuiet ==
  ASSUME PermissionInv, StreamInv, EndInv, cli = "done"
  PROVE  /\ \A c \in asked : Ended(c)
         /\ \A c \in Calls : ~CallTool(c) /\ ~ResumeTool(c)
<1>1. \A c \in asked : Ended(c)
  BY DEF Ended, EndInv
<1>2. \A c \in Calls : ~CallTool(c)
  BY <1>1 DEF CallTool, Ended
<1>3. \A c \in Calls : ~ResumeTool(c)
  BY <1>1 DEF ResumeTool, Wake, PermissionInv, StreamInv, Ended
<1> QED
  BY <1>1, <1>2, <1>3

\* Steps that reach neither the CLI, the messages, the buffers nor a task.
LEMMA EndQuiet ==
  ASSUME TypeOK, EndInv,
         UNCHANGED <<cli, asked, reported, stream, pc, message, queue, results>>,
         \A c \in Calls : Ended(c) => Ended(c)'
  PROVE  EndInv'
  BY DEF Ended, TypeOK, EndInv

LEMMA EndStep == PermissionInv /\ StreamInv /\ EndInv /\ [Next]_vars => EndInv'
<1> SUFFICES ASSUME PermissionInv, StreamInv, EndInv, [Next]_vars PROVE EndInv'
  OBVIOUS
<1>0. TypeOK /\ TypeOK'
  BY TypeStep DEF PermissionInv
<1>1. ASSUME NEW calls \in SUBSET Calls, Ask(calls) PROVE EndInv'
  <2>1. /\ cli = "thinking" /\ cli' = "tools" /\ stream' = Append(stream, "assistant")
        /\ ~Over /\ UNCHANGED <<reported, task, pc, message, queue, results>>
    BY <1>1 DEF Ask, loopVars
  <2>2. Elems(stream') = Elems(stream) \cup {"assistant"}
    BY <1>0, <2>1, AppendElems DEF TypeOK, Messages
  <2> QED
    BY <1>0, <2>1, <2>2 DEF Ended, EndInv, Over
<1>2. ASSUME NEW c \in Calls, Report(c) PROVE EndInv'
  <2>1. /\ cli = "tools" /\ stream' = Append(stream, "user")
        /\ Ended(c) /\ reported' = reported \cup {c}
        /\ cli' # "tools" => reported' = asked'
        /\ ~Over /\ UNCHANGED <<asked, task, pc, message, queue, results>>
    BY <1>2 DEF Report, loopVars
  <2>2. Elems(stream') = Elems(stream) \cup {"user"}
    BY <1>0, <2>1, AppendElems DEF TypeOK, Messages
  <2> QED
    BY <1>0, <2>1, <2>2 DEF Ended, EndInv, Over
<1>3. CASE Conclude
  <2>1. /\ cli = "thinking" /\ cli' = "done"
        /\ ~Over /\ UNCHANGED <<asked, reported, task, pc, message, queue, results>>
    BY <1>3 DEF Conclude, loopVars
  <2> QED
    BY <1>0, <2>1 DEF Ended, EndInv, Over
<1>4. ASSUME NEW c \in Calls, CallTool(c) PROVE EndInv'
  <2>1. cli # "done"
    BY <1>4, DoneMeansQuiet
  <2>2. /\ task[c] = "none" /\ UNCHANGED <<cli, asked, reported, stream, pc, message>>
    BY <1>4 DEF CallTool, cliVars, loopVars
  <2>3. \A d \in Calls : Ended(d) => Ended(d)'
    BY <1>0, <1>4, <2>2 DEF CallTool, Outcome, Deposit, Raise, Ended, TypeOK
  <2> QED
    BY <1>0, <2>1, <2>2, <2>3 DEF Ended, EndInv, TypeOK
<1>5. ASSUME NEW c \in Calls, ResumeTool(c) PROVE EndInv'
  <2>1. cli # "done"
    BY <1>5, DoneMeansQuiet
  <2>2. UNCHANGED <<cli, asked, reported, stream, pc, message>>
    BY <1>5 DEF ResumeTool, cliVars, loopVars
  <2>3. \A d \in Calls : Ended(d) => Ended(d)'
    BY <1>0, <1>5 DEF ResumeTool, Outcome, Deposit, Raise, Ended,
                            TypeOK
  <2> QED
    BY <1>0, <2>1, <2>2, <2>3 DEF Ended, EndInv, TypeOK
<1>6. ASSUME NEW c \in Calls, Timeout(c) PROVE EndInv'
  BY <1>0, <1>6, EndQuiet DEF Ended, Timeout, cliVars, loopVars
<1>7. ASSUME NEW c \in Calls, NEW answer \in Answers, Answer(c, answer) PROVE EndInv'
  BY <1>0, <1>7, EndQuiet DEF Ended, Answer, cliVars, loopVars
<1>8. CASE Receive
  <2>1. /\ stream # <<>> /\ message' = Head(stream) /\ stream' = Tail(stream)
        /\ pc' = "events" /\ UNCHANGED <<cli, asked, reported, task, queue, results>>
    BY <1>8 DEF Receive, cliVars
  <2>2. Elems(stream) = {message'} \cup Elems(stream') /\ message' \in Messages
    BY <1>0, <2>1, TailElems DEF TypeOK
  <2> QED
    BY <1>0, <2>1, <2>2 DEF Ended, EndInv, Messages
<1>9. CASE YieldEvent
  <2>1. /\ pc = "events"
        /\ UNCHANGED <<cli, asked, reported, stream, pc, message, task, results>>
    BY <1>9 DEF YieldEvent, cliVars, loopVars
  <2> QED
    BY <1>0, <2>1 DEF Ended, EndInv
<1>10. CASE YieldResult
  <2>1. /\ pc' = "results"
        /\ pc = "results" \/ queue = <<>>
        /\ UNCHANGED <<cli, asked, reported, stream, message, task, queue>>
    BY <1>10 DEF YieldResult, EventsDrained, cliVars
  <2> QED
    BY <1>0, <2>1 DEF Ended, EndInv
<1>11. CASE Handle
  <2>1. /\ results = <<>>
        /\ pc = "results" \/ (pc = "events" /\ queue = <<>>)
        /\ pc' # "results"
        /\ pc' = "done" => message = "end"
        /\ message' \in {"result", "end"} => message = "result"
        /\ UNCHANGED <<cli, asked, reported, stream, task, queue, results>>
    BY <1>11 DEF Handle, EventsDrained, NoMessage, cliVars
  <2> QED
    BY <1>0, <2>1 DEF Ended, EndInv
<1>12. CASE Abort
  <2>1. /\ pc' = "aborted" /\ message' = NoMessage
        /\ task' = [d \in Calls |-> IF task[d] = "waiting" THEN "cancelled" ELSE task[d]]
        /\ UNCHANGED <<cli, asked, reported, stream, queue, results>>
    BY <1>12 DEF Abort, cliVars
  <2> QED
    BY <1>0, <2>1 DEF Ended, EndInv, NoMessage, TypeOK
<1>13. CASE UNCHANGED vars
  BY <1>0, <1>13, EndQuiet DEF Ended, vars, cliVars, loopVars
<1> QED
  BY <1>1, <1>2, <1>3, <1>4, <1>5, <1>6, <1>7, <1>8, <1>9, <1>10, <1>11, <1>12, <1>13
     DEF Next, Advance

LEMMA TurnInvInit == Init => TurnInv
  BY PermissionInvInit, StreamInvInit, EndInvInit DEF TurnInv

LEMMA TurnInvStep == TurnInv /\ [Next]_vars => TurnInv'
  BY PermissionStep, StreamStep, EndStep DEF TurnInv

(***************************************************************************)
(* The client never sees a call's result before the request to approve     *)
(* it, whatever runs while a send is suspended.                            *)
(***************************************************************************)
THEOREM RequestsPrecedeResults == Spec => []RequestBeforeResult
<1>1. TurnInv => RequestBeforeResult
  BY DEF TurnInv, StreamInv
<1> QED
  BY <1>1, TurnInvInit, TurnInvStep, PTL DEF Spec

(***************************************************************************)
(* A turn that completes has streamed the result of every call whose tool  *)
(* did not raise and the request of every call that asked for approval.    *)
(***************************************************************************)
THEOREM CompletedTurnStreamsAll == Spec => []TurnStreamsAll
<1>1. TurnInv => TurnStreamsAll
  <2> SUFFICES ASSUME TurnInv, pc = "done", NEW c \in asked
               PROVE  /\ c \in streamed \/ task[c] = "raised"
                      /\ NeedsApproval(c) => c \in announced
    BY DEF TurnStreamsAll, NeedsApproval
  <2>1. Ended(c) /\ c \in Calls
    BY DoneMeansQuiet DEF TurnInv, EndInv, PermissionInv, TypeOK
  <2>2. Elems(results) = {} /\ Elems(queue) = {}
    BY EmptyElems DEF TurnInv, EndInv
  <2> QED
    BY <2>1, <2>2 DEF TurnInv, StreamInv, Ended
<1> QED
  BY <1>1, TurnInvInit, TurnInvStep, PTL DEF Spec

-----------------------------------------------------------------------------
(* Sends that do not suspend. *)

LEMMA PromptStep == ~SlowClient /\ PromptInv /\ [Next]_vars => PromptInv'
<1> SUFFICES ASSUME ~SlowClient, PromptInv, [Next]_vars PROVE PromptInv'
  OBVIOUS
<1>0. TypeOK /\ PermissionInv'
  BY PermissionStep DEF PromptInv, PermissionInv
<1>1. LoopFree => ~LockHeld
  BY DEF LoopFree, LockHeld, Over
<1>2. ASSUME NEW c \in Calls, CallTool(c) PROVE ~blocked' /\ PendingIffWaiting'
  <2>1. ~LockHeld /\ task[c] = "none" /\ c \notin pending
    BY <1>1, <1>2 DEF CallTool, PromptInv, PermissionInv, Ended
  <2>2. CASE NeedsApproval(c)
    BY <1>0, <1>2, <2>1, <2>2
       DEF CallTool, NeedsApproval, RequestApproval, PromptInv, PendingIffWaiting, TypeOK
  <2>3. CASE ~NeedsApproval(c)
    <3>1. Outcome(c, Check(ToolOf[c]) = "allow") /\ UNCHANGED pending
      BY <1>2, <2>3 DEF CallTool, NeedsApproval, permissionVars
    <3>2. /\ UNCHANGED <<blocked, pending>>
          /\ \/ task' = [task EXCEPT ![c] = "done"]
             \/ task' = [task EXCEPT ![c] = "raised"]
      BY <2>1, <3>1 DEF Outcome, Deposit, Raise
    <3> QED
      BY <1>0, <2>1, <3>2 DEF PromptInv, PendingIffWaiting, TypeOK
  <2> QED
    BY <2>2, <2>3
<1>3. ASSUME NEW c \in Calls, ResumeTool(c) PROVE ~blocked' /\ PendingIffWaiting'
  <2>1. ~LockHeld
    BY <1>1, <1>3 DEF ResumeTool
  <2> DEFINE ok == Decided(c)
  <2>2. Outcome(c, ok) /\ pending' = pending \ {c}
    BY <1>3 DEF ResumeTool, Wake
  <2> HIDE DEF ok
  <2>3. /\ UNCHANGED blocked
        /\ \/ task' = [task EXCEPT ![c] = "done"]
           \/ task' = [task EXCEPT ![c] = "raised"]
    BY <2>1, <2>2 DEF Outcome, Deposit, Raise
  <2> QED
    BY <1>0, <2>2, <2>3 DEF PromptInv, PendingIffWaiting, TypeOK
<1>4. CASE Abort
  BY <1>0, <1>4 DEF Abort, CancelWaits, PromptInv, PendingIffWaiting, TypeOK
<1>5. CASE UNCHANGED <<pending, task, blocked>>
  BY <1>0, <1>5 DEF PromptInv, PendingIffWaiting
<1>6. \/ \E c \in Calls : CallTool(c) \/ ResumeTool(c)
      \/ Abort
      \/ UNCHANGED <<pending, task, blocked>>
  BY DEF Next, Advance, vars, permissionVars, Ask, Report, Conclude, Timeout, TimerFires,
         Answer, Resolve, Receive, YieldEvent, YieldResult, Handle
<1> QED
  BY <1>0, <1>2, <1>3, <1>4, <1>5, <1>6 DEF PromptInv

LEMMA PromptTurn == ASSUME ~SlowClient PROVE Spec => []PromptInv
<1>1. Init => PromptInv
  BY PermissionInvInit DEF Init, PermissionInit, PromptInv, PendingIffWaiting
<1>2. PromptInv /\ [Next]_vars => PromptInv'
  BY PromptStep
<1> QED
  BY <1>1, <1>2, PTL DEF Spec

(***************************************************************************)
(* The event loop never waits for its own lock if no send suspends.        *)
(***************************************************************************)
THEOREM PromptLoopNeverBlocks == ASSUME ~SlowClient PROVE Spec => []LoopNeverBlocks
<1>1. PromptInv => LoopNeverBlocks
  BY DEF PromptInv, LoopNeverBlocks
<1> QED
  BY <1>1, PromptTurn, PTL

(***************************************************************************)
(* _pending holds exactly the calls that wait if no send suspends.         *)
(***************************************************************************)
THEOREM PromptPendingIffWaiting == ASSUME ~SlowClient PROVE Spec => []PendingIffWaiting
<1>1. PromptInv => PendingIffWaiting
  BY DEF PromptInv
<1> QED
  BY <1>1, PromptTurn, PTL
=============================================================================

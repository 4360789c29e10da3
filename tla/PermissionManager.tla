------------------------- MODULE PermissionManager -------------------------
(***************************************************************************)
(* A session's tool permissions (src/permissions.py): the static lists and *)
(* the approvals that wait for a client.  The operations are actions on    *)
(* the manager's variables; AgentLoop composes them.  A call stands for    *)
(* the request id its approval would get.                                  *)
(***************************************************************************)
CONSTANTS
  Tools,     \* names of tools
  Calls,     \* tool calls of the model: bounds how many one turn makes
  ToolOf,    \* call -> its tool
  NoList     \* a list left out of the session's permissions config

ASSUME PermissionAssumption == ToolOf \in [Calls -> Tools]

VARIABLES
  policy,     \* the lists the session was created with
  pending,    \* _pending: the calls that wait for a decision
  decision,   \* PendingApproval.decision; its event is set iff it is not ""
  expired     \* calls whose wait_for timer has cancelled the wait

permissionVars == <<policy, pending, decision, expired>>

Answers == {"approve", "deny"}

Policies == [allowed : {NoList} \cup SUBSET Tools,
             denied  : SUBSET Tools,
             require : SUBSET Tools]

PermissionTypeOK ==
  /\ policy \in Policies
  /\ pending \subseteq Calls
  /\ decision \in [Calls -> Answers \cup {""}]
  /\ expired \subseteq Calls

PermissionInit ==
  /\ policy \in Policies
  /\ pending = {}
  /\ decision = [c \in Calls |-> ""]
  /\ expired = {}

-----------------------------------------------------------------------------
\* __init__ keeps an empty whitelist as no whitelist.
Unrestricted == policy.allowed \in {NoList, {}}

Check(tool) ==
  IF tool \in policy.denied THEN "deny"
  ELSE IF tool \in policy.require THEN "needs_approval"
  ELSE IF Unrestricted \/ tool \in policy.allowed THEN "allow"
  ELSE "deny"

RequestApproval(c) ==
  /\ pending' = pending \cup {c}
  /\ UNCHANGED <<policy, decision, expired>>

\* resolve(): a later answer overwrites an earlier one.
Resolve(c, answer) ==
  /\ c \in pending
  /\ answer \in Answers
  /\ decision' = [decision EXCEPT ![c] = answer]
  /\ UNCHANGED <<policy, pending, expired>>

\* Mutant of TimerFires: the timeout is recorded as a decision of its own.
TimerFiresMarking(c) ==
  /\ c \in pending \ expired
  /\ expired' = expired \cup {c}
  /\ decision' = [decision EXCEPT ![c] = "timeout"]
  /\ UNCHANGED <<policy, pending>>

(***************************************************************************)
(* The timer of wait_for fires: it cancels the wait, and the waiter will   *)
(* see the cancellation when it runs next, even if the event was set       *)
(* before or is set in between.                                            *)
(***************************************************************************)
TimerFires(c) ==
  /\ c \in pending \ expired
  /\ expired' = expired \cup {c}
  /\ UNCHANGED <<policy, pending, decision>>

\* Mutant of Decided: the timeout keeps the answer, if there is none: approve.
DecidedOpen(c) == decision[c] \in {"approve", ""}

\* wait_for_decision() returns "approve": a timeout overwrites the answer.
Decided(c) == c \notin expired /\ decision[c] = "approve"

\* Mutant of Wake: the request is not removed after a timeout.
WakeKeeping(c) ==
  /\ c \in pending
  /\ c \in expired \/ decision[c] # ""
  /\ pending' = IF c \in expired THEN pending ELSE pending \ {c}
  /\ UNCHANGED <<policy, decision, expired>>

\* Mutant of Wake: the wait has no timeout.
WakeOnAnswer(c) ==
  /\ c \in pending
  /\ decision[c] # ""
  /\ pending' = pending \ {c}
  /\ UNCHANGED <<policy, decision, expired>>

\* wait_for_decision() resumes, and its finally clause removes the request.
Wake(c) ==
  /\ c \in pending
  /\ c \in expired \/ decision[c] # ""
  /\ pending' = pending \ {c}
  /\ UNCHANGED <<policy, decision, expired>>

\* The waiting tasks are cancelled: every finally clause runs.
CancelWaits ==
  /\ pending' = {}
  /\ UNCHANGED <<policy, decision, expired>>
=============================================================================

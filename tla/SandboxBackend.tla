--------------------------- MODULE SandboxBackend ---------------------------
(***************************************************************************)
(* What a backend promises its callers (the protocol of src/backend.py as  *)
(* pool.py and tools.py use it): a sandbox is created in one step and runs *)
(* until it stops for good; a call takes effect at most once and only in a *)
(* running sandbox; it succeeds only if it took effect, but a call that    *)
(* failed may have taken effect, or may do so later.                       *)
(***************************************************************************)
CONSTANTS Sandboxes, Calls

VARIABLES
  box,       \* sandbox -> "unborn", "running" or "stopped"
  outcome,   \* call -> "none", "open", "ok" or "failed"
  target,    \* call -> the sandboxes it was made to, one at most
  landed     \* calls that have taken effect

backendVars == <<box, outcome, target, landed>>

Init ==
  /\ box = [v \in Sandboxes |-> "unborn"]
  /\ outcome = [c \in Calls |-> "none"]
  /\ target = [c \in Calls |-> {}]
  /\ landed = {}

Create(v) ==
  /\ box[v] = "unborn"
  /\ box' = [box EXCEPT ![v] = "running"]
  /\ UNCHANGED <<outcome, target, landed>>

Stop(v) ==
  /\ box[v] = "running"
  /\ box' = [box EXCEPT ![v] = "stopped"]
  /\ UNCHANGED <<outcome, target, landed>>

Open(c, v) ==
  /\ outcome[c] = "none" /\ box[v] # "unborn"
  /\ outcome' = [outcome EXCEPT ![c] = "open"]
  /\ target' = [target EXCEPT ![c] = {v}]
  /\ UNCHANGED <<box, landed>>

Land(c) ==
  /\ c \notin landed
  /\ \E v \in target[c] : box[v] = "running"
  /\ landed' = landed \cup {c}
  /\ UNCHANGED <<box, outcome, target>>

Return(c, result) ==
  /\ outcome[c] = "open"
  /\ result = "ok" => c \in landed
  /\ outcome' = [outcome EXCEPT ![c] = result]
  /\ UNCHANGED <<box, target, landed>>

Next ==
  \/ \E v \in Sandboxes : Create(v) \/ Stop(v)
  \/ \E c \in Calls, v \in Sandboxes : Open(c, v)
  \/ \E c \in Calls : Land(c)
  \/ \E c \in Calls, result \in {"ok", "failed"} : Return(c, result)

Spec == Init /\ [][Next]_backendVars
=============================================================================

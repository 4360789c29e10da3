----------------------------- MODULE MCAgentLoop -----------------------------
(* Small instances of AgentLoop for TLC: each call is to a tool of its own. *)
EXTENDS AgentLoop, TLC

CONSTANTS c1, c2, t1, t2

TwoCalls == c1 :> t1 @@ c2 :> t2
=============================================================================

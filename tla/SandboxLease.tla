---------------------------- MODULE SandboxLease ----------------------------
(***************************************************************************)
(* What sessions promise to clients: a session holds a lease on one        *)
(* sandbox from its creation to its end, no sandbox is leased twice at a   *)
(* time, and, unless Reusable, no sandbox is ever leased again.            *)
(***************************************************************************)
CONSTANTS Sandboxes, Holders, Nothing, Reusable

VARIABLES
  lease,   \* holder -> the sandbox it holds
  spent,   \* holders that have had their lease
  given    \* sandboxes that have been leased

leaseVars == <<lease, spent, given>>

Free(c) == \A h \in Holders : lease[h] # c

Init ==
  /\ lease = [h \in Holders |-> Nothing]
  /\ spent = {}
  /\ given = {}

Grant(h, c) ==
  /\ h \notin spent
  /\ Free(c)
  /\ ~Reusable => c \notin given
  /\ lease' = [lease EXCEPT ![h] = c]
  /\ spent' = spent \cup {h}
  /\ given' = given \cup {c}

Return(h) ==
  /\ lease[h] # Nothing
  /\ lease' = [lease EXCEPT ![h] = Nothing]
  /\ UNCHANGED <<spent, given>>

\* The server goes down with all its leases.
RevokeAll ==
  /\ lease' = [h \in Holders |-> Nothing]
  /\ UNCHANGED <<spent, given>>

Next ==
  \/ \E h \in Holders, c \in Sandboxes : Grant(h, c)
  \/ \E h \in Holders : Return(h)
  \/ RevokeAll

Spec == Init /\ [][Next]_leaseVars
=============================================================================

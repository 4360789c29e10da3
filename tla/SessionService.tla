--------------------------- MODULE SessionService ---------------------------
(***************************************************************************)
(* The session endpoints as a client program sees them: POST /sessions and *)
(* DELETE /sessions/{id} of src/api.py take effect in one step, but the    *)
(* response may not reach the client.  A session lives until somebody      *)
(* deletes it: the server has no idle timeout.                             *)
(***************************************************************************)
CONSTANTS
  Sessions,    \* session ids: bounds the sessions created
  NoSession,   \* None
  Faults       \* "lost": responses to POST get lost; "delete": DELETEs fail

ASSUME ServiceAssumption == NoSession \notin Sessions

VARIABLES
  live,     \* the server's sessions
  issued,   \* history: session ids used up
  left      \* history: session -> why its client gave it up without a DELETE

serviceVars == <<live, issued, left>>

(***************************************************************************)
(* A client can leave a session behind: its POST was not "answered", its   *)
(* DELETE "failed", the CLI ended with an error ("raised") or handed it to *)
(* its user ("printed"), the TUI had ended before its id was stored        *)
(* ("quit") or "crashed" with it, or another thread overwrote it ("raced").*)
(***************************************************************************)
Reasons == {"unanswered", "failed", "raised", "printed", "quit", "crashed", "raced"}

ServiceTypeOK ==
  /\ live \subseteq issued
  /\ issued \subseteq Sessions
  /\ left \in [Sessions -> {""} \cup Reasons]

ServiceInit == live = {} /\ issued = {} /\ left = [s \in Sessions |-> ""]

\* POST /sessions is served and makes the session s.
Created(s) ==
  /\ s \in Sessions \ issued
  /\ live' = live \cup {s}
  /\ issued' = issued \cup {s}
  /\ UNCHANGED left

\* DELETE /sessions/{s}: a 404 is taken for a success.
Deleted(s) == live' = live \ {s} /\ UNCHANGED <<issued, left>>

\* The sessions lost are given up, each at the first occasion.
Left(lost, reason) ==
  left' = [s \in Sessions |-> IF s \in lost /\ left[s] = "" THEN reason ELSE left[s]]

GivenUp(lost, reason) == Left(lost, reason) /\ UNCHANGED <<live, issued>>
=============================================================================

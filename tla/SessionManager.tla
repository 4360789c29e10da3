--------------------------- MODULE SessionManager ---------------------------
(***************************************************************************)
(* The sessions of the server (src/sessions.py, the endpoints and the      *)
(* lifespan of src/api.py) over the container pool.  A request whose       *)
(* handler refuses (404, 409, 503) changes nothing and is a stutter.       *)
(*                                                                         *)
(* The handlers that create and delete sessions never suspend.  A turn     *)
(* does, and so does an upload: they keep the session object they looked   *)
(* up, and with it the container, whatever happens to the session.         *)
(***************************************************************************)
EXTENDS ContainerPool

CONSTANTS
  NoContainer,        \* the absence of a key in the dict sessions
  ClientsReconnect,   \* clients send a container_id with POST /sessions
  DeleteDuringTurn    \* clients delete sessions that still have a turn

ASSUME SessionAssumption ==
  /\ NoContainer \notin Containers
  /\ ClientsReconnect \in BOOLEAN
  /\ DeleteDuringTurn \in BOOLEAN

VARIABLES
  sessions,   \* session id -> the session's container_id
  turn,       \* session id -> container_id of its running turn or upload
  issued,     \* history: session ids used up (uuid4 never repeats one)
  seen        \* container ids returned to clients, which remember them

vars == <<poolVars, sessions, turn, issued, seen>>

NoSessions == [s \in Sessions |-> NoContainer]

TypeOK ==
  /\ PoolTypeOK
  /\ sessions \in [Sessions -> Containers \cup {NoContainer}]
  /\ turn \in [Sessions -> Containers \cup {NoContainer}]
  /\ issued \subseteq Sessions
  /\ seen \subseteq Containers

Init ==
  /\ PoolInit
  /\ sessions = NoSessions
  /\ turn = NoSessions
  /\ issued = {}
  /\ seen = {}

-----------------------------------------------------------------------------
Enter(s, c) ==
  /\ sessions' = [sessions EXCEPT ![s] = c]
  /\ issued' = issued \cup {s}
  /\ seen' = seen \cup {c}
  /\ UNCHANGED turn

\* POST /sessions
CreateFromPool(s, c) ==
  /\ up
  /\ s \notin issued
  /\ Claim(c, s)
  /\ Enter(s, c)

\* POST /sessions {"container_id": c}: refused when bound or not running.
Reconnect(s, c) ==
  /\ up
  /\ ClientsReconnect
  /\ s \notin issued
  /\ c \in seen
  /\ IsRunning(c)
  /\ Adopt(c, s)
  /\ Enter(s, c)

\* DELETE /sessions/{s}
Delete(s) ==
  /\ up
  /\ sessions[s] # NoContainer
  /\ turn[s] # NoContainer => DeleteDuringTurn
  /\ Release(sessions[s])
  /\ sessions' = [sessions EXCEPT ![s] = NoContainer]
  /\ UNCHANGED <<turn, issued, seen>>

\* POST /sessions/{s}/messages or .../files: the handler has the session.
BeginTurn(s) ==
  /\ up
  /\ sessions[s] # NoContainer
  /\ turn[s] = NoContainer
  /\ turn' = [turn EXCEPT ![s] = sessions[s]]
  /\ UNCHANGED <<poolVars, sessions, issued, seen>>

\* A tool call of the turn, or the copy that ends the upload.
ToolCall(s, zone) ==
  /\ turn[s] # NoContainer
  /\ Write(turn[s], s, zone)
  /\ UNCHANGED <<sessions, turn, issued, seen>>

\* A background process of a session, during its turns or after its deletion.
ProcessWrites(s, zone) ==
  /\ \E c \in Containers : BackgroundWrite(c, s, zone)
  /\ UNCHANGED <<sessions, turn, issued, seen>>

EndTurn(s) ==
  /\ turn[s] # NoContainer
  /\ turn' = [turn EXCEPT ![s] = NoContainer]
  /\ UNCHANGED <<poolVars, sessions, issued, seen>>

StartServer    == Start /\ UNCHANGED <<sessions, turn, issued, seen>>
ReplenishRound == Replenish /\ UNCHANGED <<sessions, turn, issued, seen>>
SandboxDies    == (\E c \in Containers : Die(c))
                    /\ UNCHANGED <<sessions, turn, issued, seen>>

\* Both ends of the process end its turns and forget its sessions.
Forget == sessions' = NoSessions /\ turn' = NoSessions /\ UNCHANGED <<issued, seen>>

StopServer     == Shutdown /\ Forget
ServerCrash    == Crash /\ Forget

Next ==
  \/ StartServer
  \/ ReplenishRound
  \/ \E s \in Sessions, c \in Containers : CreateFromPool(s, c)
  \/ \E s \in Sessions, c \in Containers : Reconnect(s, c)
  \/ \E s \in Sessions : Delete(s)
  \/ \E s \in Sessions : BeginTurn(s)
  \/ \E s \in Sessions, zone \in Zones : ToolCall(s, zone)
  \/ \E s \in Sessions, zone \in Zones : ProcessWrites(s, zone)
  \/ \E s \in Sessions : EndTurn(s)
  \/ SandboxDies
  \/ StopServer
  \/ ServerCrash

Spec == Init /\ [][Next]_vars

(***************************************************************************)
(* The replenish task sleeps 5 seconds and runs again until it is          *)
(* cancelled, whatever a round raised.  FairSpec assumes that create() is  *)
(* not refused for ever: rounds that can create something sometimes do.    *)
(***************************************************************************)
FairSpec == Spec /\ WF_vars(ReplenishRound)

-----------------------------------------------------------------------------
\* The configurations in which no client can reconnect to an idle container.
SafeDeployment == ~Recyclable \/ ~ClientsReconnect

\* Those in which, besides, a turn ends before its container is released.
SafeUse == ~Recyclable \/ (~ClientsReconnect /\ ~DeleteDuringTurn)

(***************************************************************************)
(* No container serves two live sessions, whatever is claimed, adopted,    *)
(* released, replenished, lost or restarted in between (plan-v2.md: "409   *)
(* on double-bind").                                                       *)
(***************************************************************************)
ExclusiveBinding ==
  \A s, t \in Sessions :
    s # t /\ sessions[s] # NoContainer => sessions[s] # sessions[t]

(***************************************************************************)
(* The two books agree: the pool's _active holds exactly the containers of *)
(* the live sessions, under their ids.  The 409 of a reconnect, the pool's *)
(* capacity test and shutdown() all read _active.                          *)
(***************************************************************************)
BindingAgrees ==
  \A s \in Sessions, c \in Containers : sessions[s] = c <=> active[c] = s

(***************************************************************************)
(* The queue of idle containers never holds one twice, nor one in use: the *)
(* next claim would hand it to a second session.                           *)
(***************************************************************************)
QueueOfIdle ==
  /\ IsInjective(available)
  /\ Pooled \cap Active = {}

(***************************************************************************)
(* What the exclusive bindings rest on: an id that create() has not given  *)
(* out is in no book, a session id has one life, a stopped server holds    *)
(* nothing, and a VM a client has known is running only while bound, so    *)
(* that no reconnect can adopt it and no claim returns it.                 *)
(***************************************************************************)
UnbornUntouched ==
  \A c \in Fresh : active[c] = NoSession /\ c \notin Pooled /\ c \notin seen

OneLife == \A s \in Sessions \ issued : sessions[s] = NoContainer

DownIsEmpty == ~up => available = <<>> /\ Active = {}

SingleUse ==
  ~Recyclable =>
    \A c \in seen : c \notin Pooled /\ (active[c] = NoSession => ~IsRunning(c))

Bookkeeping ==
  /\ BindingAgrees
  /\ QueueOfIdle
  /\ UnbornUntouched
  /\ OneLife
  /\ DownIsEmpty
  /\ SingleUse

(***************************************************************************)
(* No sandbox is forgotten: one that exists is idle, in use, or was given  *)
(* up by a step that the code accepts as a loss (left).                    *)
(***************************************************************************)
NoOrphans == Exists \subseteq Tracked \cup left

(***************************************************************************)
(* The sandboxes the server answers for never outnumber POOL_MAX_SIZE,     *)
(* though start, replenish, claim and adopt test the limit separately, if  *)
(* at all.  (README: "Maximum sandboxes in pool".)                         *)
(***************************************************************************)
WithinMaxSize == Cardinality(Tracked \cap Exists) <= MaxSize

(***************************************************************************)
(* A turn never works in the sandbox of another session or its turn,       *)
(* although it keeps the container's id when its session is deleted.       *)
(***************************************************************************)
TurnsApart ==
  \A s, t \in Sessions :
    s # t /\ turn[s] # NoContainer => turn[s] \notin {sessions[t], turn[t]}

(***************************************************************************)
(* What a session finds of another among the files that the reset command  *)
(* matches was written by a background process of that other session: a    *)
(* Docker container is reset by release(), a VM serves once.               *)
(***************************************************************************)
ResetIsolates ==
  \A s \in Sessions : sessions[s] # NoContainer =>
    \A r \in residue[sessions[s]] :
      r[2] = "globbed" =>
        r[1] = s \/ <<r[1], "process">> \in residue[sessions[s]]

(***************************************************************************)
(* A session finds nothing at all of another in its sandbox (plan-v2.md:   *)
(* cleanup "must not leave state that leaks between sessions").            *)
(***************************************************************************)
NoStateLeaks ==
  \A s \in Sessions : sessions[s] # NoContainer =>
    \A r \in residue[sessions[s]] : r[1] = s

(***************************************************************************)
(* The pool refills: while the server stays up, a shortage of idle         *)
(* sandboxes ends if fewer than POOL_MAX_SIZE are idle or in use.  Counted *)
(* are the sandboxes, where the code adds up its queue and its dict; the   *)
(* two can differ for good once an idle container is adopted, which the    *)
(* third and fourth conjunct exclude.                                      *)
(***************************************************************************)
InUse == Range(sessions) \ {NoContainer}

Shortage ==
  /\ up
  /\ Fresh # {}
  /\ IsInjective(available)
  /\ Pooled \cap InUse = {}
  /\ Cardinality(Pooled) < MinSize
  /\ Cardinality(Pooled \cup InUse) < MaxSize

ShortageEnds == Shortage ~> ~Shortage

(***************************************************************************)
(* Sessions implement exclusive leases of sandboxes, of single use unless  *)
(* the backend recycles.                                                   *)
(***************************************************************************)
Lease == INSTANCE SandboxLease WITH
  Sandboxes <- Containers, Holders <- Sessions, Nothing <- NoContainer,
  Reusable <- Recyclable,
  lease <- sessions, spent <- issued, given <- seen

ImplementsLease == Lease!Spec
=============================================================================

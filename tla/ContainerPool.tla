--------------------------- MODULE ContainerPool ---------------------------
(***************************************************************************)
(* The warm pool of sandboxes (src/pool.py) on top of a sandbox backend    *)
(* (Docker: Recyclable, or Firecracker: not).  The operations are actions  *)
(* on the pool's variables; SessionManager composes them.                  *)
(*                                                                         *)
(* Everything the pool does between two suspensions of the event loop is   *)
(* one step.  Backend calls are synchronous and a put on an unbounded      *)
(* asyncio.Queue never suspends, so each method is a single step, and so   *)
(* is a round of the replenish loop.                                       *)
(***************************************************************************)
EXTENDS Integers, Sequences, FiniteSets, Functions

CONSTANTS
  Containers,   \* ids the backend can hand out: bounds the calls to create()
  Sessions,     \* session ids (uuid4): bounds the sessions ever created
  NoSession,    \* the absence of a key in the dict _active
  MinSize,      \* POOL_MIN_SIZE
  MaxSize,      \* POOL_MAX_SIZE
  Recyclable,   \* SandboxBackend.recyclable
  Zones,        \* the kinds of trace a session may leave in a sandbox
  Faults        \* the environment failures of this instance

(***************************************************************************)
(* create, exec and destroy raise; reset: the reset command exits non-zero *)
(* or is killed by its timeout; death: a sandbox dies; crash: the server.  *)
(***************************************************************************)
FaultKinds == {"create", "exec", "reset", "destroy", "death", "crash"}

(***************************************************************************)
(* globbed: files under /workspace that the reset's two patterns match;    *)
(* dotdot: names under /workspace that begin with "..", which neither      *)
(* matches; outside: files elsewhere; process: a process started in the    *)
(* background, which outlives its command, its turn and the reset.         *)
(***************************************************************************)
ZoneKinds == {"globbed", "dotdot", "outside", "process"}

ASSUME PoolAssumption ==
  /\ MinSize \in Nat
  /\ MaxSize \in Nat
  /\ Recyclable \in BOOLEAN
  /\ NoSession \notin Sessions
  /\ Zones \subseteq ZoneKinds
  /\ Faults \subseteq FaultKinds

VARIABLES
  up,           \* the server process serves requests
  available,    \* _available, the FIFO queue of idle sandboxes
  active,       \* _active, container id -> session id
  box,          \* what the backend and the host know of each sandbox
  residue,      \* what sessions left behind in each sandbox
  left          \* history: sandboxes the pool gave up while they existed

poolVars == <<up, available, active, box, residue, left>>

\* "lost": a Firecracker VM that runs on, but whose backend object is no more.
BoxStates == {"unborn", "running", "dead", "gone", "lost"}

PoolTypeOK ==
  /\ up \in BOOLEAN
  /\ available \in Seq(Containers)
  /\ active \in [Containers -> Sessions \cup {NoSession}]
  /\ box \in [Containers -> BoxStates]
  /\ residue \in [Containers -> SUBSET (Sessions \X Zones)]
  /\ left \subseteq Containers

PoolInit ==
  /\ up = FALSE
  /\ available = <<>>
  /\ active = [c \in Containers |-> NoSession]
  /\ box = [c \in Containers |-> "unborn"]
  /\ residue = [c \in Containers |-> {}]
  /\ left = {}

-----------------------------------------------------------------------------
Fresh      == {c \in Containers : box[c] = "unborn"}
Exists     == {c \in Containers : box[c] \in {"running", "dead", "lost"}}
Active     == {c \in Containers : active[c] # NoSession}
Pooled     == Range(available)
Tracked    == Active \cup Pooled
Total      == Len(available) + Cardinality(Active)
IsRunning(c) == box[c] = "running"

\* k successful calls of create(), in order.
Creations(k) == {new \in [1..k -> Fresh] : IsInjective(new)}
BoxesWith(new) == [c \in Containers |-> IF c \in new THEN "running" ELSE box[c]]

\* What becomes of a running sandbox when the server process ends under it.
Abandoned(status) ==
  IF status = "running" /\ ~Recyclable THEN "lost" ELSE status

(***************************************************************************)
(* Destroying a set of sandboxes.  Docker's remove can raise; every caller *)
(* swallows the exception.  Firecracker's destroy ends in kill().          *)
(***************************************************************************)
Destroy(doomed) ==
  \E failed \in SUBSET IF Recyclable /\ "destroy" \in Faults
                       THEN doomed \cap Exists ELSE {} :
    /\ box' = [c \in Containers |-> IF c \in doomed \ failed THEN "gone"
                                                             ELSE box[c]]
    /\ left' = (left \ doomed) \cup failed

-----------------------------------------------------------------------------
\* start(): create() may raise midway; the lifespan fails, nothing cleans up.
Start ==
  \E k \in 0..MinSize : \E new \in Creations(k) :
    /\ ~up
    /\ IF k = MinSize
       THEN /\ up' = TRUE
            /\ available' = new
            /\ box' = BoxesWith(Range(new))
            /\ left' = left
       ELSE /\ "create" \in Faults
            /\ UNCHANGED <<up, available>>
            /\ box' = [c \in Containers |->
                         Abandoned(IF c \in Range(new) THEN "running"
                                                       ELSE box[c])]
            /\ left' = left \cup Range(new)
    /\ UNCHANGED <<active, residue>>

\* Mutant of Wanted: the round forgets the limit on the total.
WantedUnlimited == MinSize - Len(available)

\* How many sandboxes a round of _replenish_loop sets out to create.
Wanted == LET needed == MinSize - Len(available)
              room   == MaxSize - Total
          IN  IF needed < room THEN needed ELSE room

\* Mutant of ReplenishBy: "while needed > 1".
ReplenishByOneLess(k) ==
  /\ up
  /\ k \in 1..(Wanted - 1)
  /\ \E new \in Creations(k) : /\ available' = available \o new
                              /\ box' = BoxesWith(Range(new))
  /\ UNCHANGED <<up, active, residue, left>>

\* A round that creates k sandboxes; it is cut short when create() raises.
ReplenishBy(k) ==
  /\ up
  /\ k \in 1..Wanted
  /\ k < Wanted => "create" \in Faults
  /\ \E new \in Creations(k) :
       /\ available' = available \o new
       /\ box' = BoxesWith(Range(new))
  /\ UNCHANGED <<up, active, residue, left>>

Replenish == \E k \in 1..MinSize : ReplenishBy(k)

\* Mutant of ClaimPooled: the container stays in the queue.
ClaimPooledKeeping(c) ==
  /\ available # <<>>
  /\ c = Head(available)
  /\ UNCHANGED <<available, box>>

\* claim(): from the queue, or created on demand while the pool has room.
ClaimPooled(c) ==
  /\ available # <<>>
  /\ c = Head(available)
  /\ available' = Tail(available)
  /\ UNCHANGED box

\* Mutant of ClaimOnDemand: "if total > self.max_size".
ClaimOnDemandOneMore(c) ==
  /\ available = <<>>
  /\ Total <= MaxSize
  /\ c \in Fresh
  /\ box' = BoxesWith({c})
  /\ UNCHANGED available

ClaimOnDemand(c) ==
  /\ available = <<>>
  /\ Total < MaxSize
  /\ c \in Fresh
  /\ box' = BoxesWith({c})
  /\ UNCHANGED available

Claim(c, s) ==
  /\ ClaimPooled(c) \/ ClaimOnDemand(c)
  /\ active' = [active EXCEPT ![c] = s]
  /\ UNCHANGED <<up, residue, left>>

\* adopt(): neither the queue nor max_size is looked at.
Adopt(c, s) ==
  /\ active[c] = NoSession
  /\ active' = [active EXCEPT ![c] = s]
  /\ left' = left \ {c}
  /\ UNCHANGED <<up, available, box, residue>>

(***************************************************************************)
(* The reset command of release(), rm -rf /workspace/* /workspace/.[!.]*,  *)
(* removes what the two patterns match.  It ends no process.               *)
(***************************************************************************)
Wiped(c) == {r \in residue[c] : r[2] # "globbed"}

\* Mutant of Recycle: the container goes back without its reset.
RecycleUnreset(c) ==
  /\ Recyclable
  /\ IsRunning(c)
  /\ available' = Append(available, c)
  /\ UNCHANGED <<box, left, residue>>

\* Mutant of Recycle: the backend's recyclable flag is not asked.
RecycleAnyBackend(c) ==
  /\ IsRunning(c)
  /\ available' = Append(available, c)
  /\ residue' = [residue EXCEPT ![c] = Wiped(c)]
  /\ UNCHANGED <<box, left>>

\* The command's exit status is not looked at: a failed reset recycles too.
Recycle(c) ==
  /\ Recyclable
  /\ IsRunning(c)
  /\ available' = Append(available, c)
  /\ \/ residue' = [residue EXCEPT ![c] = Wiped(c)]
     \/ "reset" \in Faults /\ UNCHANGED residue
  /\ UNCHANGED <<box, left>>

\* exec() raises on a sandbox that is not running, or because the daemon fails.
Discard(c) ==
  /\ ~Recyclable \/ ~IsRunning(c) \/ "exec" \in Faults
  /\ Destroy({c})
  /\ UNCHANGED <<available, residue>>

\* Mutant of Release: the key stays in _active with the value None.
ReleaseToNone(c) ==
  /\ active' = [active EXCEPT ![c] = "None"]
  /\ Recycle(c) \/ Discard(c)
  /\ UNCHANGED up

Release(c) ==
  /\ active' = [active EXCEPT ![c] = NoSession]
  /\ Recycle(c) \/ Discard(c)
  /\ UNCHANGED up

\* Mutant of Shutdown: idle sandboxes are dropped, not destroyed.
ShutdownActiveOnly ==
  /\ up
  /\ up' = FALSE
  /\ Destroy(Active)
  /\ active' = [c \in Containers |-> NoSession]
  /\ available' = <<>>
  /\ UNCHANGED residue

\* shutdown(): the replenish task is cancelled, everything known is destroyed.
Shutdown ==
  /\ up
  /\ up' = FALSE
  /\ Destroy(Tracked)
  /\ active' = [c \in Containers |-> NoSession]
  /\ available' = <<>>
  /\ UNCHANGED residue

-----------------------------------------------------------------------------
\* A session's commands change files and processes of its sandbox.
Write(c, s, zone) ==
  /\ IsRunning(c)
  /\ residue' = [residue EXCEPT ![c] = @ \cup {<<s, zone>>}]
  /\ UNCHANGED <<up, available, active, box, left>>

\* A process that a session started goes on writing, whoever has the sandbox.
BackgroundWrite(c, s, zone) ==
  /\ <<s, "process">> \in residue[c]
  /\ Write(c, s, zone)

\* A sandbox dies under the pool (OOM kill, docker stop, VM exit).
Die(c) ==
  /\ "death" \in Faults
  /\ IsRunning(c)
  /\ box' = [box EXCEPT ![c] = "dead"]
  /\ UNCHANGED <<up, available, active, residue, left>>

\* The server is killed: shutdown() does not run, the pool's memory is lost.
Crash ==
  /\ "crash" \in Faults
  /\ up
  /\ up' = FALSE
  /\ left' = left \cup (Tracked \cap Exists)
  /\ box' = [c \in Containers |-> Abandoned(box[c])]
  /\ active' = [c \in Containers |-> NoSession]
  /\ available' = <<>>
  /\ UNCHANGED residue
=============================================================================

------------------------- MODULE FirecrackerBackend -------------------------
(***************************************************************************)
(* The Firecracker backend (src/firecracker.py): the life of its microVMs, *)
(* from the snapshot that bake-snapshot.py takes, to destroy(), and the    *)
(* calls into them (VsockChannel).                                         *)
(*                                                                         *)
(* The server's event loop waits for every backend operation, so there is  *)
(* one at a time; the VMs, the guests and the baking are concurrent to it. *)
(***************************************************************************)
EXTENDS VsockChannel

CONSTANTS
  NoVM,       \* no operation on a VM is in progress
  MaxBakes    \* bounds the runs of bake-snapshot.py

ASSUME BackendAssumption == NoVM \notin VMs /\ MaxBakes \in Nat

VARIABLES
  vms,        \* the keys of _vms
  dirs,       \* VMs whose work directory exists
  proc,       \* VM -> its process: "none", "running", "stopping", "dead"
  task,       \* the create or destroy in progress: its VM and where it is at
  ended,      \* history: VM -> how its create, or the server's hold on it, ended
  bake,       \* the bake in progress: "idle", "boot", "ready", "paused", "saving"
  bakes,      \* the bakes begun
  agent,      \* the guest agent of the VM being baked listens
  snapshot    \* vmstate.bin and memory.bin

vmVars   == <<vms, dirs, proc, task, ended>>
bakeVars == <<bake, bakes, agent, snapshot>>
vars == <<channelVars, vmVars, bakeVars>>

NoTask == [vm |-> NoVM, at |-> "none"]

TypeOK ==
  /\ ChannelTypeOK
  /\ vms \subseteq VMs /\ dirs \subseteq VMs
  /\ proc \in [VMs -> {"none", "running", "stopping", "dead"}]
  /\ task \in {NoTask} \cup [vm : VMs, at : {"copy", "spawn", "socket", "restore",
                                             "register", "abort", "destroy"}]
  /\ ended \in [VMs -> {"none", "ok", "copy", "spawn", "abort", "stuck", "destroy", "crash"}]
  /\ bake \in {"idle", "boot", "ready", "paused", "saving"} /\ bakes \in 0..MaxBakes
  /\ agent \in BOOLEAN
  /\ snapshot \in [kind : {"none", "torn", "full"}, listens : BOOLEAN]

Init ==
  /\ ChannelInit
  /\ vms = {} /\ dirs = {}
  /\ proc = [v \in VMs |-> "none"]
  /\ task = NoTask
  /\ ended = [v \in VMs |-> "none"]
  /\ bake = "idle" /\ bakes = 0 /\ agent = FALSE
  /\ snapshot = [kind |-> "none", listens |-> FALSE]

\* The backend is between two operations.
Free == task = NoTask /\ stage = "idle"

-----------------------------------------------------------------------------
(* bake-snapshot.py. *)

\* Copies the image, configures the VM, boots it: its root is mounted read-write.
BakeBoot ==
  /\ bake = "idle" /\ bakes < MaxBakes
  /\ bake' = "boot" /\ bakes' = bakes + 1
  /\ agent' = FALSE
  /\ UNCHANGED <<channelVars, vmVars, snapshot>>

AgentListens ==
  /\ bake \in {"boot", "ready"} /\ ~agent
  /\ agent' = TRUE
  /\ UNCHANGED <<channelVars, vmVars, bake, bakes, snapshot>>

\* Mutant of BakePing: the bake waits for time to pass, not for an answer.
BakeSleep ==
  /\ bake = "boot"
  /\ bake' = "ready"
  /\ UNCHANGED <<channelVars, vmVars, bakes, agent, snapshot>>

\* wait_for_agent: a ping is answered.
BakePing ==
  /\ bake = "boot" /\ agent
  /\ bake' = "ready"
  /\ UNCHANGED <<channelVars, vmVars, bakes, agent, snapshot>>

\* create_snapshot pauses the VM before it writes the files.
BakePause ==
  /\ bake = "ready"
  /\ bake' = "paused"
  /\ UNCHANGED <<channelVars, vmVars, bakes, agent, snapshot>>

\* Firecracker writes vmstate.bin and memory.bin in place.
BakeWrite ==
  /\ bake = "paused"
  /\ bake' = "saving"
  /\ snapshot' = [snapshot EXCEPT !.kind = "torn"]
  /\ UNCHANGED <<channelVars, vmVars, bakes, agent>>

\* Both are whole; the disk is thrown away.
BakeSave ==
  /\ bake = "saving"
  /\ bake' = "idle"
  /\ snapshot' = [kind |-> "full", listens |-> agent]
  /\ UNCHANGED <<channelVars, vmVars, bakes, agent>>

\* Any step can fail; while the files are written it leaves them as they are.
BakeFails ==
  /\ "bake" \in Faults
  /\ bake # "idle"
  /\ bake' = "idle"
  /\ UNCHANGED <<channelVars, vmVars, bakes, agent, snapshot>>

-----------------------------------------------------------------------------
(* create(). *)

CreateBegin(v) ==
  /\ Free /\ ended[v] = "none"
  /\ task' = [vm |-> v, at |-> "copy"]
  /\ dirs' = dirs \cup {v}
  /\ UNCHANGED <<channelVars, vms, proc, ended, bakeVars>>

\* copy2 and Popen come before the try: when one raises, nothing is undone.
RaiseBeforeTry(at) ==
  /\ task.at = at /\ at \in Faults
  /\ task' = NoTask
  /\ ended' = [ended EXCEPT ![task.vm] = at]
  /\ UNCHANGED <<channelVars, vms, dirs, proc, bakeVars>>

CopyRootfs ==
  /\ task.at = "copy"
  /\ task' = [task EXCEPT !.at = "spawn"]
  /\ UNCHANGED <<channelVars, vms, dirs, proc, ended, bakeVars>>

Spawn ==
  /\ task.at = "spawn"
  /\ task' = [task EXCEPT !.at = "socket"]
  /\ proc' = [proc EXCEPT ![task.vm] = "running"]
  /\ UNCHANGED <<channelVars, vms, dirs, ended, bakeVars>>

\* _wait_for_socket: 5 s, which a process that has ended can let pass.
AwaitSocket ==
  /\ task.at = "socket"
  /\ \/ task' = [task EXCEPT !.at = "restore"]
     \/ /\ proc[task.vm] = "dead" \/ "restore" \in Faults
        /\ task' = [task EXCEPT !.at = "abort"]
  /\ UNCHANGED <<channelVars, vms, dirs, proc, ended, bakeVars>>

(***************************************************************************)
(* What loading the two files can make of the guest: it goes on from the   *)
(* snapshot, and nobody checks that the files belong together or are whole.*)
(***************************************************************************)
Resumed == {s \in {"up", "hung"} :
              snapshot.kind = "full" => s = IF snapshot.listens THEN "up" ELSE "hung"}

ChannelButGuest == <<calls, stage, unsent, sent, answers, open, agentVars>>

\* Mutant of Restore: _vms is set before the snapshot is loaded.
RestoreLate ==
  /\ task.at = "restore" /\ proc[task.vm] = "running"
  /\ snapshot.kind # "none"
  /\ task' = NoTask
  /\ vms' = vms \cup {task.vm}
  /\ ended' = [ended EXCEPT ![task.vm] = "ok"]
  /\ UNCHANGED <<channelVars, dirs, proc, bakeVars>>

Restore ==
  /\ task.at = "restore" /\ proc[task.vm] = "running"
  /\ snapshot.kind # "none"
  /\ \E s \in Resumed : guest' = [guest EXCEPT ![task.vm] = s]
  /\ task' = [task EXCEPT !.at = "register"]
  /\ UNCHANGED <<ChannelButGuest, vms, dirs, proc, ended, bakeVars>>

\* The load is refused, or done although its answer does not arrive in 30 s.
RestoreRaises ==
  /\ task.at = "restore"
  /\ \/ /\ proc[task.vm] = "dead" \/ snapshot.kind # "full" \/ "restore" \in Faults
        /\ guest' = guest
     \/ /\ proc[task.vm] = "running" /\ snapshot.kind # "none" /\ "restore" \in Faults
        /\ \E s \in Resumed : guest' = [guest EXCEPT ![task.vm] = s]
  /\ task' = [task EXCEPT !.at = "abort"]
  /\ UNCHANGED <<ChannelButGuest, vms, dirs, proc, ended, bakeVars>>

\* The id goes into _vms, whatever has become of the VM since.
Register ==
  /\ task.at = "register"
  /\ task' = NoTask
  /\ vms' = vms \cup {task.vm}
  /\ ended' = [ended EXCEPT ![task.vm] = "ok"]
  /\ UNCHANGED <<channelVars, dirs, proc, bakeVars>>

\* What the end of its process leaves of the guest.
Ended(v) == [guest EXCEPT ![v] = IF @ = "off" THEN "off" ELSE "dead"]

\* Mutant of Abort: the directory is left behind.
AbortKeepingDir ==
  /\ task.at = "abort"
  /\ task' = NoTask
  /\ guest' = Ended(task.vm)
  /\ proc' = [proc EXCEPT ![task.vm] = "dead"]
  /\ ended' = [ended EXCEPT ![task.vm] = "abort"]
  /\ UNCHANGED <<ChannelButGuest, vms, dirs, bakeVars>>

Abort ==
  /\ task.at = "abort"
  /\ task' = NoTask
  /\ guest' = Ended(task.vm)
  /\ proc' = [proc EXCEPT ![task.vm] = "dead"]
  /\ dirs' = dirs \ {task.vm}
  /\ ended' = [ended EXCEPT ![task.vm] = "abort"]
  /\ UNCHANGED <<ChannelButGuest, vms, bakeVars>>

\* wait(timeout=5) raises in the handler, which ends it before the rmtree.
AbortStuck ==
  /\ "stuck" \in Faults
  /\ task.at = "abort" /\ proc[task.vm] = "running"
  /\ task' = NoTask
  /\ ended' = [ended EXCEPT ![task.vm] = "stuck"]
  /\ UNCHANGED <<channelVars, vms, dirs, proc, bakeVars>>

CreateStep ==
  \/ \E v \in VMs : CreateBegin(v)
  \/ \E at \in {"copy", "spawn"} : RaiseBeforeTry(at)
  \/ CopyRootfs \/ Spawn \/ AwaitSocket \/ Restore \/ RestoreRaises
  \/ Register \/ Abort \/ AbortStuck

-----------------------------------------------------------------------------
(* destroy(), and the calls. *)

DestroyBegin(v) ==
  /\ Free /\ v \in vms
  /\ vms' = vms \ {v}
  /\ task' = [vm |-> v, at |-> "destroy"]
  /\ UNCHANGED <<channelVars, dirs, proc, ended, bakeVars>>

\* terminate() and wait, or kill(), which is not waited for; then the rmtree.
DestroyEnd ==
  /\ task.at = "destroy"
  /\ task' = NoTask
  /\ dirs' = dirs \ {task.vm}
  /\ ended' = [ended EXCEPT ![task.vm] = "destroy"]
  /\ \/ /\ proc' = [proc EXCEPT ![task.vm] = "dead"]
        /\ guest' = Ended(task.vm)
     \/ /\ "stuck" \in Faults /\ proc[task.vm] = "running"
        /\ proc' = [proc EXCEPT ![task.vm] = "stopping"]
        /\ guest' = guest
  /\ UNCHANGED <<ChannelButGuest, vms, bakeVars>>

\* exec, copy_to, copy_from and list_files, for a VM that _get_vm finds.
CallVM(v, op, size) ==
  /\ Free /\ v \in vms
  /\ Connect(v, op, size)
  /\ UNCHANGED <<vmVars, bakeVars>>

-----------------------------------------------------------------------------
(* External: processes die; the server is killed and started again. *)

ProcessEnds(v) ==
  /\ \/ proc[v] = "running" /\ "death" \in Faults
     \/ proc[v] = "stopping"
  /\ proc' = [proc EXCEPT ![v] = "dead"]
  /\ guest' = Ended(v)
  /\ UNCHANGED <<ChannelButGuest, vms, dirs, task, ended, bakeVars>>

\* _vms is lost; the VMs, their directories and a call's handler live on.
ServerCrash ==
  /\ "crash" \in Faults
  /\ vms # {} \/ task # NoTask
  /\ vms' = {} /\ task' = NoTask
  /\ ended' = [v \in VMs |-> IF v \in vms \cup {task.vm} THEN "crash" ELSE ended[v]]
  /\ IF stage = "idle"
     THEN UNCHANGED channelVars
     ELSE /\ stage' = "idle" /\ unsent' = FALSE
          /\ open' = open \ {Current.conn}
          /\ IF Current.result = "open" THEN Decide("broken", 0) ELSE calls' = calls
          /\ UNCHANGED <<guest, sent, answers, agentVars>>
  /\ UNCHANGED <<dirs, proc, bakeVars>>

BakeStep == BakeBoot \/ AgentListens \/ BakePing \/ BakePause \/ BakeWrite
            \/ BakeSave \/ BakeFails

Next ==
  \/ BakeStep
  \/ CreateStep
  \/ \E v \in VMs : DestroyBegin(v)
  \/ DestroyEnd
  \/ \E v \in VMs, op \in {"read", "write", "exec"}, size \in MessageSizes :
       CallVM(v, op, size)
  \/ (ClientStep \/ AgentStep \/ \E v \in VMs : Hang(v)) /\ UNCHANGED <<vmVars, bakeVars>>
  \/ \E v \in VMs : ProcessEnds(v)
  \/ ServerCrash

Spec == Init /\ [][Next]_vars

\* The thread of a call runs and its timers fire; nothing is assumed of the VM.
FairSpec == Spec /\ WF_vars(ClientStep /\ UNCHANGED <<vmVars, bakeVars>>)

-----------------------------------------------------------------------------
(***************************************************************************)
(* Every VM in _vms has its directory and its process, and what the        *)
(* backend no longer knows is gone, unless copying or starting raised, or  *)
(* Firecracker outlived its SIGTERM, or the server was killed.  (That      *)
(* rmtree, which ignores its errors, removes the directory is assumed.)    *)
(***************************************************************************)
NothingStray ==
  \A v \in VMs :
    /\ v \in vms => v \in dirs /\ proc[v] # "none"
    /\ v \in dirs \ vms =>
         task.vm = v \/ ended[v] \in {"copy", "spawn", "stuck", "crash"}
    /\ proc[v] = "running" /\ v \notin vms =>
         task.vm = v \/ ended[v] \in {"stuck", "crash"}

(***************************************************************************)
(* A VM joins _vms once its snapshot is loaded, and it serves from then    *)
(* on: the pool hands it out without a ping, because the agent listened    *)
(* when the snapshot was taken.  This fails for files that a bake was      *)
(* writing, or was stopped from writing, when they were loaded.            *)
(***************************************************************************)
JoinsReady ==
  [][/\ \A v \in vms' \ vms : guest[v] # "off"
     /\ \A v \in VMs : guest[v] = "off" /\ guest'[v] # "off"
          => guest'[v] = "up" \/ snapshot.kind = "torn"]_vars

\* The promise to the pool and the tools.
Box == [v \in VMs |-> CASE guest[v] = "off"  -> "unborn"
                       [] guest[v] = "dead" -> "stopped"
                       [] OTHER             -> "running"]

Outcome == [c \in Calls |-> IF c > Last THEN "none"
                            ELSE CASE calls[c].result = "open" -> "open"
                                   [] calls[c].result = "ok"   -> "ok"
                                   [] OTHER                    -> "failed"]

Target == [c \in Calls |-> IF c > Last THEN {} ELSE {calls[c].vm}]

Landed == {c \in Calls : handler[c] = "done"}

Backend == INSTANCE SandboxBackend WITH
  Sandboxes <- VMs, box <- Box, outcome <- Outcome, target <- Target, landed <- Landed

(***************************************************************************)
(* Calls over the vsock keep the promise of the protocol: at most one      *)
(* effect, in a running VM, and before the call succeeds.                  *)
(***************************************************************************)
ImplementsBackend == Backend!Spec
=============================================================================

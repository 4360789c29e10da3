---------------------- MODULE FirecrackerBackend_proofs ----------------------
(***************************************************************************)
(* Theorems about the Firecracker backend, for every set of VMs, every     *)
(* number of calls and bakes and every combination of faults.              *)
(***************************************************************************)
EXTENDS FirecrackerBackend, VsockChannel_proofs

Tasks == {NoTask} \cup [vm : VMs, at : {"copy", "spawn", "socket", "restore",
                                        "register", "abort", "destroy"}]

VMTyped ==
  /\ vms \subseteq VMs
  /\ dirs \subseteq VMs
  /\ proc \in [VMs -> {"none", "running", "stopping", "dead"}]
  /\ task \in Tasks
  /\ ended \in [VMs -> {"none", "ok", "copy", "spawn", "abort", "stuck", "destroy", "crash"}]

\* What create() and destroy() rely on at each of their stages.
TaskKnows ==
  /\ task.at \in {"copy", "spawn"} => proc[task.vm] = "none"
  /\ task.at \in {"socket", "restore", "register"} => proc[task.vm] # "none"
  /\ task.at \in {"copy", "spawn", "socket", "restore", "register"} => task.vm \in dirs
  /\ task # NoTask => task.vm \notin vms

\* An id that create() has not been given yet has nothing.
Unused ==
  \A v \in VMs : /\ v \in vms => ended[v] = "ok"
                 /\ ended[v] = "none" /\ task.vm # v => proc[v] = "none"

StrayInv == VMTyped /\ TaskKnows /\ Unused /\ NothingStray

LEMMA StrayInit == Init => StrayInv
BY BackendAssumption
   DEF Init, StrayInv, VMTyped, Tasks, TaskKnows, Unused, NothingStray, NoTask

LEMMA StrayCreate ==
  ASSUME StrayInv, CreateStep
  PROVE  StrayInv'
<1> USE BackendAssumption
    DEF StrayInv, VMTyped, Tasks, TaskKnows, Unused, NothingStray, NoTask
<1>1. ASSUME NEW v \in VMs, CreateBegin(v) PROVE StrayInv'
  BY <1>1 DEF CreateBegin, Free
<1>2. ASSUME NEW at \in {"copy", "spawn"}, RaiseBeforeTry(at) PROVE StrayInv'
  BY <1>2 DEF RaiseBeforeTry
<1>3. CASE CopyRootfs
  BY <1>3 DEF CopyRootfs
<1>4. CASE Spawn
  BY <1>4 DEF Spawn
<1>5. CASE AwaitSocket
  BY <1>5 DEF AwaitSocket
<1>6. CASE Restore
  BY <1>6 DEF Restore
<1>7. CASE RestoreRaises
  BY <1>7 DEF RestoreRaises
<1>8. CASE Abort
  BY <1>8 DEF Abort
<1>9. CASE AbortStuck
  BY <1>9 DEF AbortStuck
<1>10. CASE Register
  BY <1>10 DEF Register
<1> QED
  BY <1>1, <1>2, <1>3, <1>4, <1>5, <1>6, <1>7, <1>8, <1>9, <1>10 DEF CreateStep

LEMMA StrayNext ==
  ASSUME StrayInv, [Next]_vars
  PROVE  StrayInv'
<1> USE BackendAssumption
    DEF StrayInv, VMTyped, Tasks, TaskKnows, Unused, NothingStray, NoTask
<1>1. ASSUME UNCHANGED vmVars PROVE StrayInv'
  BY <1>1 DEF vmVars
<1>2. CASE BakeStep
  <2>1. UNCHANGED vmVars
    BY <1>2 DEF BakeStep, BakeBoot, AgentListens, BakePing, BakePause, BakeWrite, BakeSave, BakeFails
  <2> QED
    BY <1>1, <2>1
<1>3. CASE CreateStep
  BY <1>3, StrayCreate
<1>4. ASSUME NEW v \in VMs, DestroyBegin(v) PROVE StrayInv'
  BY <1>4 DEF DestroyBegin, Free
<1>5. CASE DestroyEnd
  BY <1>5 DEF DestroyEnd
<1>6. ASSUME NEW v \in VMs, NEW op, NEW size, CallVM(v, op, size) PROVE StrayInv'
  BY <1>1, <1>6 DEF CallVM
<1>7. ASSUME NEW v \in VMs, ProcessEnds(v) PROVE StrayInv'
  BY <1>7 DEF ProcessEnds
<1>8. CASE ServerCrash
  BY <1>8 DEF ServerCrash
<1>9. CASE UNCHANGED vars
  BY <1>1, <1>9 DEF vars
<1> QED
  BY <1>1, <1>2, <1>3, <1>4, <1>5, <1>6, <1>7, <1>8, <1>9 DEF Next

(***************************************************************************)
(* create() and destroy() leave no directory and no process that the       *)
(* backend does not know of, except after the failures NothingStray names. *)
(***************************************************************************)
THEOREM NothingLeftBehind == Spec => []NothingStray
<1>1. StrayInv => NothingStray
  BY DEF StrayInv
<1> QED
  BY <1>1, StrayInit, StrayNext, PTL DEF Spec

-----------------------------------------------------------------------------
GuestTyped == guest \in [VMs -> {"off", "up", "hung", "dead"}]

BakeTyped ==
  /\ bake \in {"idle", "boot", "ready", "paused", "saving"} /\ bakes \in 0..MaxBakes
  /\ agent \in BOOLEAN
  /\ snapshot \in [kind : {"none", "torn", "full"}, listens : BOOLEAN]

\* The bake gets past its ping, and to a whole snapshot, only if the agent listens.
AgentHeard ==
  /\ bake \in {"ready", "paused", "saving"} => agent
  /\ snapshot.kind = "full" => snapshot.listens

HeardInv == GuestTyped /\ BakeTyped /\ AgentHeard

LEMMA HeardInit == Init => HeardInv
<1> SUFFICES ASSUME Init PROVE HeardInv
  OBVIOUS
<1>1. 0 \in 0..MaxBakes
  BY BackendAssumption
<1> QED
  BY <1>1 DEF Init, ChannelInit, HeardInv, GuestTyped, BakeTyped, AgentHeard

LEMMA HeardBake ==
  ASSUME BakeTyped, AgentHeard, BakeStep
  PROVE  BakeTyped' /\ AgentHeard'
<1> USE BackendAssumption DEF BakeTyped, AgentHeard
<1>1. CASE BakeBoot
  <2>1. bakes + 1 \in 0..MaxBakes
    BY <1>1 DEF BakeBoot
  <2> QED
    BY <1>1, <2>1 DEF BakeBoot
<1>2. CASE AgentListens
  BY <1>2 DEF AgentListens
<1>3. CASE BakePing
  BY <1>3 DEF BakePing
<1>4. CASE BakePause
  BY <1>4 DEF BakePause
<1>5. CASE BakeSave
  BY <1>5 DEF BakeSave
<1>6. CASE BakeFails
  BY <1>6 DEF BakeFails
<1>7. CASE BakeWrite
  BY <1>7 DEF BakeWrite
<1> QED
  BY <1>1, <1>2, <1>3, <1>4, <1>5, <1>6, <1>7 DEF BakeStep

\* Only restoring, hanging and ending change a guest.
LEMMA GuestNext ==
  ASSUME GuestTyped, [Next]_vars
  PROVE  GuestTyped'
<1> USE DEF GuestTyped
<1>1. ASSUME UNCHANGED guest PROVE GuestTyped'
  BY <1>1
<1>2. CASE BakeStep
  BY <1>2 DEF BakeStep, BakeBoot, AgentListens, BakePing, BakePause, BakeWrite, BakeSave,
              BakeFails, channelVars
<1>3. CASE CreateStep
  <2>1. CASE Restore \/ RestoreRaises
    BY <2>1 DEF Restore, RestoreRaises, Resumed
  <2>2. CASE Abort
    BY <2>2 DEF Abort, Ended
  <2>3. CASE \/ \E v \in VMs : CreateBegin(v)
             \/ \E at \in {"copy", "spawn"} : RaiseBeforeTry(at)
             \/ CopyRootfs \/ Spawn \/ AwaitSocket \/ Register \/ AbortStuck
    BY <2>3 DEF CreateBegin, RaiseBeforeTry, CopyRootfs, Spawn, AwaitSocket,
                Register, AbortStuck, channelVars
  <2> QED
    BY <1>3, <2>1, <2>2, <2>3 DEF CreateStep
<1>4. CASE (\E v \in VMs : DestroyBegin(v)) \/ DestroyEnd
  BY <1>4 DEF DestroyBegin, DestroyEnd, Ended, channelVars
<1>5. ASSUME NEW v \in VMs, NEW op, NEW size, CallVM(v, op, size) PROVE GuestTyped'
  BY <1>5 DEF CallVM, Connect
<1>6. CASE ClientStep
  BY <1>6 DEF ClientStep, Handshake, Send, Flush, Receive, Broken, TimeOut, Close
<1>7. CASE AgentStep
  BY <1>7 DEF AgentStep, ReadMessage, HandleRead, Truncate, Fill, Fail, Respond, Proceed
<1>8. ASSUME NEW v \in VMs, Hang(v) PROVE GuestTyped'
  BY <1>8 DEF Hang
<1>9. ASSUME NEW v \in VMs, ProcessEnds(v) PROVE GuestTyped'
  BY <1>9 DEF ProcessEnds, Ended
<1>10. CASE ServerCrash
  BY <1>10 DEF ServerCrash, channelVars
<1>11. CASE UNCHANGED vars
  BY <1>11 DEF vars, channelVars
<1> QED
  BY <1>2, <1>3, <1>4, <1>5, <1>6, <1>7, <1>8, <1>9, <1>10, <1>11 DEF Next

LEMMA HeardNext ==
  ASSUME HeardInv, [Next]_vars
  PROVE  HeardInv'
<1>1. CASE BakeStep
  BY <1>1, GuestNext, HeardBake DEF HeardInv
<1>2. ASSUME UNCHANGED bakeVars PROVE BakeTyped' /\ AgentHeard'
  BY <1>2 DEF HeardInv, BakeTyped, AgentHeard, bakeVars
<1>3. ~BakeStep => UNCHANGED bakeVars
  BY DEF Next, vars, CreateStep, CreateBegin, RaiseBeforeTry, CopyRootfs, Spawn,
         AwaitSocket, Restore, RestoreRaises, Register, Abort, AbortStuck, DestroyBegin,
         DestroyEnd, CallVM, ProcessEnds, ServerCrash
<1> QED
  BY <1>1, <1>2, <1>3, GuestNext DEF HeardInv

-----------------------------------------------------------------------------
\* A step of the VMs that leaves the channel's own state alone.
LEMMA VMStepChannel ==
  ASSUME ChannelInv, GuestTyped', UNCHANGED ChannelButGuest
  PROVE  ChannelInv'
BY GuestKeeps DEF GuestTyped, ChannelButGuest

LEMMA ChannelNext ==
  ASSUME ChannelInv, [Next]_vars
  PROVE  ChannelInv'
<1>1. GuestTyped'
  BY GuestNext DEF ChannelInv, ChannelTypeOK, GuestTyped
<1>2. CASE UNCHANGED ChannelButGuest
  BY <1>1, <1>2, VMStepChannel
<1>3. CASE BakeStep
  <2>1. UNCHANGED ChannelButGuest
    BY <1>3 DEF BakeStep, BakeBoot, AgentListens, BakePing, BakePause, BakeWrite, BakeSave,
                BakeFails, channelVars, ChannelButGuest, agentVars
  <2> QED
    BY <1>2, <2>1
<1>4. CASE CreateStep
  <2>1. UNCHANGED ChannelButGuest
    BY <1>4 DEF CreateStep, CreateBegin, RaiseBeforeTry, CopyRootfs, Spawn, AwaitSocket,
                Restore, RestoreRaises, Register, Abort, AbortStuck, channelVars, ChannelButGuest, agentVars
  <2> QED
    BY <1>2, <2>1
<1>5. CASE (\E v \in VMs : DestroyBegin(v) \/ Hang(v) \/ ProcessEnds(v)) \/ DestroyEnd
  <2>1. UNCHANGED ChannelButGuest
    BY <1>5 DEF DestroyBegin, Hang, ProcessEnds, DestroyEnd, channelVars, ChannelButGuest, agentVars
  <2> QED
    BY <1>2, <2>1
<1>6. ASSUME NEW v \in VMs, NEW op \in {"read", "write", "exec"},
             NEW size \in MessageSizes, CallVM(v, op, size)
      PROVE  ChannelInv'
  BY <1>6, ConnectKeeps DEF CallVM
<1>7. CASE ClientStep
  BY <1>7, ClientKeeps
<1>8. CASE AgentStep
  BY <1>8, AgentKeeps
<1>9. CASE ServerCrash
  <2>1. CASE stage = "idle"
    BY <1>2, <1>9, <2>1 DEF ServerCrash, channelVars, ChannelButGuest, agentVars
  <2>2. CASE stage # "idle"
    <3>1. /\ stage' = "idle" /\ unsent' = FALSE /\ open' \subseteq open
          /\ UNCHANGED <<guest, sent, answers, agentVars>>
      BY <1>9, <2>2 DEF ServerCrash
    <3>2. CASE Current.result = "open"
      <4>1. Decide("broken", 0)
        BY <1>9, <2>2, <3>2 DEF ServerCrash
      <4>2. "broken" \in Results \ {"open"} /\ 0 \in 0..MaxCalls
        BY ChannelAssumption DEF Results
      <4>3. /\ open' \subseteq Calls /\ unsent' \in BOOLEAN
            /\ unsent' => unsent /\ stage' = "close"
            /\ stage' \in {"close", "idle"}
            /\ answers' \in [Calls -> Seq(Calls)]
            /\ UNCHANGED <<guest, sent, agentVars>>
        BY <3>1 DEF ChannelInv, ChannelTypeOK
      <4>4. \A k \in Calls : /\ answers'[k] \in Seq({k})
                             /\ answers'[k] # <<>> => answers[k] # <<>>
        BY <3>1 DEF ChannelInv, OwnConnections
      <4> QED
        BY <2>2, <4>1, <4>2, <4>3, <4>4, DecideKeeps
    <3>3. CASE Current.result # "open"
      <4>1. UNCHANGED calls
        BY <1>9, <2>2, <3>3 DEF ServerCrash
      <4>2. ChannelTypeOK'
        BY <3>1, <4>1 DEF ChannelInv, ChannelTypeOK, agentVars
      <4>3. RequestsFresh'
        BY <3>1, <4>1, CallsKept DEF ChannelInv, RequestsFresh, ToSend, agentVars
      <4> QED
        BY <3>1, <4>1, <4>2, <4>3, StepKeeps
           DEF ChannelInv, Undecided, OwnConnections, agentVars
    <3> QED
      BY <3>2, <3>3
  <2> QED
    BY <2>1, <2>2
<1>10. CASE UNCHANGED vars
  BY <1>2, <1>10 DEF vars, channelVars, ChannelButGuest, agentVars
<1> QED
  BY <1>3, <1>4, <1>5, <1>6, <1>7, <1>8, <1>9, <1>10 DEF Next

LEMMA ChannelInvInit == Init => ChannelInv
BY ChannelInitInv DEF Init

(***************************************************************************)
(* Every variable keeps its type.                                          *)
(***************************************************************************)
THEOREM BackendTypeOK == Spec => []TypeOK
<1>1. ChannelInv /\ StrayInv /\ HeardInv => TypeOK
  BY DEF ChannelInv, StrayInv, VMTyped, Tasks, HeardInv, BakeTyped, TypeOK
<1> QED
  BY <1>1, ChannelInvInit, ChannelNext, StrayInit, StrayNext, HeardInit, HeardNext,
     PTL DEF Spec

(***************************************************************************)
(* No call returns the response to another, whatever was given up before   *)
(* it, how long it was delayed, and how often the server was restarted.    *)
(***************************************************************************)
THEOREM NoCrossedAnswers == Spec => []AnswerIsOwn
<1>1. ChannelInv => AnswerIsOwn
  BY DEF ChannelInv
<1> QED
  BY <1>1, ChannelInvInit, ChannelNext, PTL DEF Spec

-----------------------------------------------------------------------------
LEMMA WritesNext ==
  ASSUME ChannelInv, LandedStays, [Next]_vars
  PROVE  LandedStays'
<1> USE DEF ChannelButGuest, agentVars
<1>1. ASSUME UNCHANGED <<calls, handler, file>> PROVE LandedStays'
  BY <1>1, WritesUntouched
<1>2. CASE BakeStep
  BY <1>1, <1>2 DEF BakeStep, BakeBoot, AgentListens, BakePing, BakePause, BakeWrite, BakeSave,
                    BakeFails, channelVars
<1>3. CASE CreateStep
  BY <1>1, <1>3 DEF CreateStep, CreateBegin, RaiseBeforeTry, CopyRootfs, Spawn, AwaitSocket,
                    Restore, RestoreRaises, Register, Abort, AbortStuck, channelVars
<1>4. CASE (\E v \in VMs : DestroyBegin(v) \/ Hang(v) \/ ProcessEnds(v)) \/ DestroyEnd
  BY <1>1, <1>4 DEF DestroyBegin, Hang, ProcessEnds, DestroyEnd, channelVars
<1>5. ASSUME NEW v \in VMs, NEW op \in {"read", "write", "exec"},
             NEW size \in MessageSizes, CallVM(v, op, size)
      PROVE  LandedStays'
  BY <1>5, WritesConnect DEF CallVM
<1>6. CASE ClientStep
  BY <1>6, WritesClient
<1>7. CASE AgentStep
  BY <1>7, WritesAgent
<1>8. CASE ServerCrash
  <2>1. CASE stage = "idle"
    BY <1>1, <1>8, <2>1 DEF ServerCrash, channelVars
  <2>2. CASE stage # "idle"
    <3>1. /\ UNCHANGED <<handler, file>>
          /\ Decide("broken", 0) \/ UNCHANGED calls
      BY <1>8, <2>2 DEF ServerCrash
    <3>2. "broken" \in Results \ {"open"} /\ 0 \in 0..MaxCalls
      BY ChannelAssumption DEF Results
    <3> QED
      BY <1>1, <2>2, <3>1, <3>2, WritesDecide
  <2> QED
    BY <2>1, <2>2
<1>9. CASE UNCHANGED vars
  BY <1>1, <1>9 DEF vars, channelVars
<1> QED
  BY <1>2, <1>3, <1>4, <1>5, <1>6, <1>7, <1>8, <1>9 DEF Next

(***************************************************************************)
(* Whatever timed out, hung or crashed before: an acknowledged write stays *)
(* in its file until a later call opens it, or the handler, still running, *)
(* of an earlier call that had failed for its caller.                      *)
(***************************************************************************)
THEOREM WritesLast == Spec => []LastWriteStays
<1>1. ChannelInv /\ LandedStays => LastWriteStays
  BY LandedMeans
<1>2. Init => LandedStays
  BY LandedInit DEF Init
<1> QED
  BY <1>1, <1>2, ChannelInvInit, ChannelNext, WritesNext, PTL DEF Spec

-----------------------------------------------------------------------------
\* A guest exists from its restore on, which comes once, at the end of create().
GuestBegun ==
  \A v \in VMs :
    /\ v \in vms => guest[v] # "off"
    /\ task.vm = v /\ task.at \in {"copy", "spawn", "socket", "restore"} => guest[v] = "off"
    /\ task.vm = v /\ task.at = "register" => guest[v] # "off"
    /\ ended[v] = "none" /\ task.vm # v => guest[v] = "off"

RefInv == ChannelInv /\ StrayInv /\ GuestBegun

LEMMA RefInit == Init => RefInv
BY ChannelInvInit, StrayInit, BackendAssumption
   DEF Init, ChannelInit, RefInv, GuestBegun, NoTask

LEMMA BegunCreate ==
  ASSUME GuestTyped, StrayInv, GuestBegun, CreateStep
  PROVE  GuestBegun'
<1> USE BackendAssumption
    DEF GuestTyped, StrayInv, VMTyped, Tasks, TaskKnows, GuestBegun, NoTask
<1>1. ASSUME NEW v \in VMs, CreateBegin(v) PROVE GuestBegun'
  BY <1>1 DEF CreateBegin, Free, channelVars
<1>2. ASSUME NEW at \in {"copy", "spawn"}, RaiseBeforeTry(at) PROVE GuestBegun'
  BY <1>2 DEF RaiseBeforeTry, channelVars
<1>3. CASE CopyRootfs \/ Spawn \/ AwaitSocket
  BY <1>3 DEF CopyRootfs, Spawn, AwaitSocket, channelVars
<1>4. CASE Restore \/ RestoreRaises
  BY <1>4 DEF Restore, RestoreRaises, Resumed
<1>5. CASE Abort
  BY <1>5 DEF Abort, Ended
<1>6. CASE AbortStuck
  BY <1>6 DEF AbortStuck, channelVars
<1>7. CASE Register
  BY <1>7 DEF Register, channelVars
<1> QED
  BY <1>1, <1>2, <1>3, <1>4, <1>5, <1>6, <1>7 DEF CreateStep

LEMMA BegunNext ==
  ASSUME GuestTyped, StrayInv, GuestBegun, [Next]_vars
  PROVE  GuestBegun'
<1> USE BackendAssumption
    DEF GuestTyped, StrayInv, VMTyped, Tasks, Unused, GuestBegun, NoTask
<1>1. ASSUME UNCHANGED <<guest, vms, task, ended>> PROVE GuestBegun'
  BY <1>1
<1>2. CASE BakeStep
  BY <1>1, <1>2 DEF BakeStep, BakeBoot, AgentListens, BakePing, BakePause, BakeWrite, BakeSave,
                    BakeFails, channelVars, vmVars
<1>3. CASE CreateStep
  BY <1>3, BegunCreate
<1>4. ASSUME NEW v \in VMs, DestroyBegin(v) PROVE GuestBegun'
  BY <1>4 DEF DestroyBegin, Free, channelVars
<1>5. CASE DestroyEnd
  BY <1>5 DEF DestroyEnd, Ended
<1>6. ASSUME NEW v \in VMs, NEW op, NEW size, CallVM(v, op, size) PROVE GuestBegun'
  BY <1>1, <1>6 DEF CallVM, Connect, vmVars
<1>7. CASE ClientStep /\ UNCHANGED vmVars
  BY <1>1, <1>7 DEF ClientStep, Handshake, Send, Flush, Receive, Broken, TimeOut, Close, vmVars
<1>8. CASE AgentStep /\ UNCHANGED vmVars
  BY <1>1, <1>8 DEF AgentStep, ReadMessage, HandleRead, Truncate, Fill, Fail, Respond,
                    Proceed, vmVars
<1>9. ASSUME NEW v \in VMs, Hang(v), UNCHANGED vmVars PROVE GuestBegun'
  BY <1>9 DEF Hang, vmVars
<1>10. ASSUME NEW v \in VMs, ProcessEnds(v) PROVE GuestBegun'
  BY <1>10 DEF ProcessEnds, Ended
<1>11. CASE ServerCrash
  BY <1>11 DEF ServerCrash, channelVars
<1>12. CASE UNCHANGED vars
  BY <1>1, <1>12 DEF vars, channelVars, vmVars
<1> QED
  BY <1>2, <1>3, <1>4, <1>5, <1>6, <1>7, <1>8, <1>9, <1>10, <1>11, <1>12 DEF Next

LEMMA RefNext ==
  ASSUME RefInv, [Next]_vars
  PROVE  RefInv'
<1>1. GuestTyped
  BY DEF RefInv, ChannelInv, ChannelTypeOK, GuestTyped
<1> QED
  BY <1>1, BegunNext, ChannelNext, StrayNext DEF RefInv

\* Only Register adds a VM, and only a restore begins a guest.
LEMMA OnlyRegisterAdds ==
  ASSUME [Next]_vars, NEW v \in vms' \ vms
  PROVE  Register /\ v = task.vm
BY DEF Next, vars, vmVars, BakeStep, BakeBoot, AgentListens, BakePing, BakePause,
       BakeWrite, BakeSave, BakeFails, CreateStep, CreateBegin, RaiseBeforeTry, CopyRootfs,
       Spawn, AwaitSocket, Restore, RestoreRaises, Register, Abort, AbortStuck, DestroyBegin,
       DestroyEnd, CallVM, ProcessEnds, ServerCrash

LEMMA OnlyRestoreBegins ==
  ASSUME GuestTyped, [Next]_vars, NEW v \in VMs, guest[v] = "off", guest'[v] # "off"
  PROVE  snapshot.kind # "none" /\ guest'[v] \in Resumed
<1> USE DEF GuestTyped
<1>1. ASSUME UNCHANGED guest PROVE FALSE
  BY <1>1
<1>2. CASE BakeStep
  BY <1>1, <1>2 DEF BakeStep, BakeBoot, AgentListens, BakePing, BakePause, BakeWrite,
                    BakeSave, BakeFails, channelVars
<1>3. CASE CreateStep
  <2>1. CASE Restore \/ RestoreRaises
    <3>1. PICK s \in Resumed : snapshot.kind # "none" /\ guest' = [guest EXCEPT ![task.vm] = s]
      BY <1>1, <2>1 DEF Restore, RestoreRaises
    <3> QED
      BY <3>1
  <2>2. CASE Abort
    BY <2>2 DEF Abort, Ended
  <2>3. CASE \/ \E w \in VMs : CreateBegin(w)
             \/ \E at \in {"copy", "spawn"} : RaiseBeforeTry(at)
             \/ CopyRootfs \/ Spawn \/ AwaitSocket \/ Register \/ AbortStuck
    BY <1>1, <2>3 DEF CreateBegin, RaiseBeforeTry, CopyRootfs, Spawn, AwaitSocket,
                      Register, AbortStuck, channelVars
  <2> QED
    BY <1>3, <2>1, <2>2, <2>3 DEF CreateStep
<1>4. CASE (\E w \in VMs : DestroyBegin(w)) \/ DestroyEnd
  BY <1>1, <1>4 DEF DestroyBegin, DestroyEnd, Ended, channelVars
<1>5. CASE \E w \in VMs, op \in {"read", "write", "exec"}, size \in MessageSizes :
             CallVM(w, op, size)
  BY <1>1, <1>5 DEF CallVM, Connect
<1>6. CASE ClientStep
  BY <1>1, <1>6 DEF ClientStep, Handshake, Send, Flush, Receive, Broken, TimeOut, Close
<1>7. CASE AgentStep
  BY <1>1, <1>7 DEF AgentStep, ReadMessage, HandleRead, Truncate, Fill, Fail, Respond, Proceed
<1>8. ASSUME NEW w \in VMs, Hang(w) PROVE FALSE
  BY <1>8 DEF Hang
<1>9. ASSUME NEW w \in VMs, ProcessEnds(w) PROVE FALSE
  BY <1>9 DEF ProcessEnds, Ended
<1>10. CASE ServerCrash
  BY <1>1, <1>10 DEF ServerCrash, channelVars
<1>11. CASE UNCHANGED vars
  BY <1>1, <1>11 DEF vars, channelVars
<1> QED
  BY <1>2, <1>3, <1>4, <1>5, <1>6, <1>7, <1>8, <1>9, <1>10, <1>11 DEF Next

(***************************************************************************)
(* Whatever the order of bakes, creates and failures: what create() returns*)
(* has been restored, and it serves unless a bake was writing the snapshot,*)
(* or had failed while it wrote, when it was loaded.                       *)
(***************************************************************************)
THEOREM VMsJoinReady == Spec => JoinsReady
<1> DEFINE Inv == StrayInv /\ HeardInv /\ GuestBegun
<1>1. Init => Inv
  <2>1. Init => GuestBegun
    BY RefInit DEF RefInv
  <2> QED
    BY <2>1, StrayInit, HeardInit
<1>2. Inv /\ [Next]_vars => Inv'
  BY StrayNext, HeardNext, BegunNext DEF HeardInv
<1>3. ASSUME Inv, [Next]_vars
      PROVE  [/\ \A v \in vms' \ vms : guest[v] # "off"
              /\ \A v \in VMs : guest[v] = "off" /\ guest'[v] # "off"
                   => guest'[v] = "up" \/ snapshot.kind = "torn"]_vars
  <2>1. ASSUME NEW v \in vms' \ vms PROVE guest[v] # "off"
    <3>1. Register /\ v = task.vm
      BY <1>3, <2>1, OnlyRegisterAdds
    <3>2. v \in VMs
      BY <1>3, <3>1, BackendAssumption DEF Register, StrayInv, VMTyped, Tasks, NoTask
    <3> QED
      BY <1>3, <3>1, <3>2 DEF Register, GuestBegun
  <2>2. ASSUME NEW v \in VMs, guest[v] = "off", guest'[v] # "off"
        PROVE  guest'[v] = "up" \/ snapshot.kind = "torn"
    <3>1. snapshot.kind # "none" /\ guest'[v] \in Resumed
      BY <1>3, <2>2, OnlyRestoreBegins DEF HeardInv
    <3>2. snapshot.kind = "full" => snapshot.listens
      BY <1>3 DEF HeardInv, AgentHeard
    <3>3. snapshot.kind \in {"none", "torn", "full"}
      BY <1>3 DEF HeardInv, BakeTyped
    <3> QED
      BY <3>1, <3>2, <3>3 DEF Resumed
  <2> QED
    BY <2>1, <2>2
<1> QED
  BY <1>1, <1>2, <1>3, PTL DEF Spec, JoinsReady

LEMMA InitRefines == Init => Backend!Init
<1> SUFFICES ASSUME Init PROVE Backend!Init
  OBVIOUS
<1>1. /\ \A v \in VMs : guest[v] = "off"
      /\ \A c \in Calls : handler[c] = "none" /\ c > Last
  BY ChannelAssumption DEF Init, ChannelInit, Calls, Last
<1> QED
  BY <1>1 DEF Backend!Init, Box, Outcome, Target, Landed

\* The parts of the mapping, each with the variables it is made of.
LEMMA MappingKept ==
  /\ UNCHANGED guest => UNCHANGED Box
  /\ UNCHANGED calls => UNCHANGED <<Outcome, Target>>
  /\ UNCHANGED handler => UNCHANGED Landed
BY DEF Box, Outcome, Target, Landed, Last

\* A restore, a hang or an end is a creation, a stutter or a stop.
LEMMA GuestRefines ==
  ASSUME RefInv, UNCHANGED <<calls, handler>>, NEW v \in VMs, NEW s,
         guest' = [guest EXCEPT ![v] = s],
         \/ guest[v] = "off" /\ s \in {"off", "up", "hung"}
         \/ guest[v] = "up" /\ s = "hung"
         \/ guest[v] \in {"up", "hung", "dead"} /\ s = "dead"
  PROVE  [Backend!Next]_Backend!backendVars
<1>1. guest \in [VMs -> {"off", "up", "hung", "dead"}]
  BY DEF RefInv, ChannelInv, ChannelTypeOK
<1>2. UNCHANGED <<Outcome, Target, Landed>>
  BY MappingKept
<1>3. CASE guest[v] = "off" /\ s \in {"up", "hung"}
  <2>1. Box[v] = "unborn" /\ Box' = [Box EXCEPT ![v] = "running"]
    BY <1>1, <1>3 DEF Box
  <2> QED
    BY <1>2, <2>1 DEF Backend!Next, Backend!Create
<1>4. CASE guest[v] \in {"up", "hung"} /\ s = "dead"
  <2>1. Box[v] = "running" /\ Box' = [Box EXCEPT ![v] = "stopped"]
    BY <1>1, <1>4 DEF Box
  <2> QED
    BY <1>2, <2>1 DEF Backend!Next, Backend!Stop
<1>5. CASE \/ guest[v] = s
           \/ guest[v] = "up" /\ s = "hung"
  <2>1. Box' = Box
    BY <1>1, <1>5 DEF Box
  <2> QED
    BY <1>2, <2>1 DEF Backend!backendVars
<1> QED
  BY <1>3, <1>4, <1>5

\* Every end of a call returns it.
LEMMA DecideRefines ==
  ASSUME RefInv, stage # "idle", Current.result = "open", UNCHANGED <<guest, handler>>,
         NEW result \in Results \ {"open"}, NEW got \in 0..MaxCalls, Decide(result, got),
         result = "ok" => handler[Last] = "done"
  PROVE  Backend!Next
<1> DEFINE returned == IF result = "ok" THEN "ok" ELSE "failed"
<1>1. /\ Last \in Calls /\ Last \in 1..Last /\ calls[Last].result = "open"
      /\ 1..Last \subseteq Calls /\ Last \in Nat
  BY CurrentFacts, CallFacts DEF RefInv, ChannelInv, Current, Calls
<1>2. /\ Last' = Last
      /\ \A c \in 1..Last :
           calls'[c] = IF c = Last THEN [calls[c] EXCEPT !.result = result, !.got = got]
                                   ELSE calls[c]
      /\ \A c \in 1..Last : calls[c] \in Call
  BY DecideFacts, CallFacts DEF RefInv, ChannelInv
<1>3. /\ \A c \in 1..Last : calls'[c].vm = calls[c].vm
      /\ \A c \in 1..Last : calls'[c].result = IF c = Last THEN result ELSE calls[c].result
  BY <1>2 DEF Call
<1>4. \A c \in Calls : c > Last \/ c \in 1..Last
  BY <1>1 DEF Calls
<1>5. Target' = Target
  BY <1>2, <1>3, <1>4 DEF Target
<1>6. Outcome' = [Outcome EXCEPT ![Last] = returned]
  <2>1. \A c \in Calls : c # Last => Outcome'[c] = Outcome[c]
    BY <1>1, <1>2, <1>3, <1>4 DEF Outcome
  <2>2. Outcome'[Last] = returned
    <3>1. ~(Last > Last')
      <4>1. Last' = Last /\ Last \in Nat
        BY <1>1, <1>2
      <4> QED
        BY <4>1
    <3>2. calls'[Last].result = result
      BY <1>1, <1>3, Zenon
    <3> QED
      BY <1>1, <3>1, <3>2 DEF Outcome, Results
  <2>3. /\ Outcome = [c \in Calls |-> Outcome[c]]
        /\ Outcome' = [c \in Calls |-> Outcome'[c]]
    BY DEF Outcome
  <2> HIDE DEF returned
  <2> QED
    BY <2>1, <2>2, <2>3
<1>7. Outcome[Last] = "open"
  BY <1>1 DEF Outcome
<1>8. returned = "ok" => Last \in Landed
  BY <1>1 DEF Landed
<1>9. UNCHANGED <<Box, Landed>>
  BY MappingKept
<1> QED
  BY <1>1, <1>5, <1>6, <1>7, <1>8, <1>9 DEF Backend!Next, Backend!Return

LEMMA ClientRefines ==
  ASSUME RefInv, ClientStep
  PROVE  [Backend!Next]_Backend!backendVars
<1>1. CASE Handshake \/ Send \/ Flush \/ Close
  <2>1. UNCHANGED <<Box, Outcome, Target, Landed>>
    BY <1>1, MappingKept DEF Handshake, Send, Flush, Close, agentVars
  <2> QED
    BY <2>1 DEF Backend!backendVars
<1>2. CASE Receive
  <2> DEFINE answered == Head(answers[Last])
             result == IF handler[answered] = "failed" THEN "error" ELSE "ok"
  <2>1. /\ stage # "idle" /\ Current.result = "open" /\ answers[Last] # <<>> /\ Decide(result, answered)
        /\ UNCHANGED <<guest, handler>>
    BY <1>2, CurrentFacts DEF Receive, RefInv, Undecided, agentVars
  <2>2. Last \in Calls /\ answers[Last] \in Seq({Last})
    BY <2>1, CurrentFacts DEF RefInv, ChannelInv, OwnConnections
  <2>3. answered = Last /\ handler[Last] \in {"done", "failed"}
    BY <2>1, <2>2, HeadTailProperties DEF RefInv, ChannelInv, AnswersReturned
  <2>4. /\ result \in Results \ {"open"} /\ answered \in 0..MaxCalls
        /\ result = "ok" => handler[Last] = "done"
    BY <2>2, <2>3, ChannelAssumption DEF Results, Calls
  <2> HIDE DEF result, answered
  <2> QED
    BY <2>1, <2>4, DecideRefines
<1>3. CASE Broken \/ TimeOut
  <2>1. PICK result \in {"broken", "timeout"} : Decide(result, 0)
    BY <1>3 DEF Broken, TimeOut
  <2>2. stage \in Undecided /\ stage # "idle" /\ UNCHANGED <<guest, handler>>
    BY <1>3 DEF Broken, TimeOut, Undecided, agentVars
  <2>3. result \in Results \ {"open"} /\ 0 \in 0..MaxCalls /\ result # "ok"
    BY ChannelAssumption DEF Results
  <2>4. Current.result = "open"
    BY <2>2, CurrentFacts DEF RefInv
  <2> QED
    BY <2>1, <2>2, <2>3, <2>4, DecideRefines
<1> QED
  BY <1>1, <1>2, <1>3 DEF ClientStep

\* A handler lands its effect in a running VM, before it has returned.
LEMMA ProceedRefines ==
  ASSUME RefInv, NEW c \in 1..Last, NEW from \in {"begun", "cut"},
         NEW to \in {"cut", "done", "failed"}, Proceed(c, from, to)
  PROVE  [Backend!Next]_Backend!backendVars
<1>1. /\ c \in Calls /\ calls[c].vm \in VMs /\ ~(c > Last)
      /\ handler \in [Calls -> {"none", "begun", "cut", "done", "failed"}]
  <2>1. Last \in 0..MaxCalls /\ c \in Calls /\ calls[c] \in Call
    BY CallFacts DEF RefInv, ChannelInv
  <2>2. ~(c > Last)
    BY <2>1
  <2> QED
    BY <2>1, <2>2 DEF RefInv, ChannelInv, ChannelTypeOK, Call
<1>2. /\ handler[c] = from /\ handler' = [handler EXCEPT ![c] = to]
      /\ guest[calls[c].vm] = "up" /\ UNCHANGED <<guest, calls>>
  BY DEF Proceed, Guest
<1>3. UNCHANGED <<Box, Outcome, Target>>
  BY <1>2, MappingKept
<1>4. CASE to = "done"
  <2>1. c \notin Landed /\ Landed' = Landed \cup {c}
    BY <1>1, <1>2, <1>4 DEF Landed
  <2>2. Target[c] = {calls[c].vm} /\ Box[calls[c].vm] = "running"
    BY <1>1, <1>2 DEF Target, Box
  <2> QED
    BY <1>1, <1>3, <2>1, <2>2 DEF Backend!Next, Backend!Land
<1>5. CASE to # "done"
  <2>1. Landed' = Landed
    BY <1>1, <1>2, <1>5 DEF Landed
  <2> QED
    BY <1>3, <2>1 DEF Backend!backendVars
<1> QED
  BY <1>4, <1>5

LEMMA AgentRefines ==
  ASSUME RefInv, AgentStep
  PROVE  [Backend!Next]_Backend!backendVars
<1> PICK c \in 1..Last : \/ ReadMessage(c) \/ HandleRead(c) \/ Truncate(c) \/ Fill(c)
                         \/ Fail(c) \/ Respond(c)
  BY DEF AgentStep
<1>1. CASE ReadMessage(c)
  <2>1. /\ c \in Calls /\ handler[c] = "none"
        /\ handler' = handler \/ handler' = [handler EXCEPT ![c] = "begun"]
        /\ UNCHANGED <<guest, calls>>
    BY <1>1, CallFacts DEF ReadMessage, RefInv, ChannelInv, OwnConnections, RequestsFresh
  <2>2. Landed' = Landed
    BY <2>1 DEF Landed, RefInv, ChannelInv, ChannelTypeOK
  <2> QED
    BY <2>1, <2>2, MappingKept DEF Backend!backendVars
<1>2. CASE HandleRead(c)
  BY <1>2, ProceedRefines DEF HandleRead
<1>3. CASE Truncate(c)
  BY <1>3, ProceedRefines DEF Truncate
<1>4. CASE Fill(c)
  BY <1>4, ProceedRefines DEF Fill
<1>5. CASE Fail(c)
  BY <1>5, ProceedRefines DEF Fail
<1>6. CASE Respond(c)
  <2>1. UNCHANGED <<Box, Outcome, Target, Landed>>
    BY <1>6, MappingKept DEF Respond
  <2> QED
    BY <2>1 DEF Backend!backendVars
<1> QED
  BY <1>1, <1>2, <1>3, <1>4, <1>5, <1>6

LEMMA CallRefines ==
  ASSUME RefInv, NEW v \in VMs, NEW op \in {"read", "write", "exec"},
         NEW size \in MessageSizes, CallVM(v, op, size)
  PROVE  Backend!Next
<1> DEFINE c == Last + 1
           new == [vm |-> v, op |-> op, size |-> size, got |-> 0,
                   conn |-> c, result |-> "open"]
<1>1. /\ c \in Calls /\ Last \in Nat /\ c > Last
      /\ \A d \in Calls : d # c => (d > c <=> d > Last)
      /\ \A d \in Calls : ~(d > Last) => d \in 1..Last
      /\ 0 \in 0..MaxCalls
  BY CallFacts, ChannelAssumption DEF CallVM, Connect, RefInv, ChannelInv, Calls
<1>2. new \in Call /\ new.vm = v /\ new.result = "open"
  BY <1>1 DEF Call
<1>3. calls' = Append(calls, new) /\ UNCHANGED <<guest, handler>>
  BY DEF CallVM, Connect, Connection, agentVars
<1> HIDE DEF new
<1>4. /\ Last' = c /\ calls'[c] = new
      /\ \A d \in 1..Last : calls'[d] = calls[d]
  <2>1. calls \in Seq(Call)
    BY DEF RefInv, ChannelInv, ChannelTypeOK
  <2> QED
    BY <1>2, <1>3, <2>1, AppendProperties DEF Last
<1>5. ~(c > Last')
  BY <1>1, <1>4
<1> HIDE DEF c
<1>6. /\ Outcome[c] = "none" /\ Outcome'[c] = "open" /\ Target'[c] = {v}
  BY <1>1, <1>2, <1>4, <1>5 DEF Outcome, Target
<1>7. \A d \in Calls : d # c => Outcome'[d] = Outcome[d] /\ Target'[d] = Target[d]
  BY <1>1, <1>4 DEF Outcome, Target
<1>8. /\ Outcome = [d \in Calls |-> Outcome[d]] /\ Target = [d \in Calls |-> Target[d]]
      /\ Outcome' = [d \in Calls |-> Outcome'[d]] /\ Target' = [d \in Calls |-> Target'[d]]
  BY DEF Outcome, Target
<1>9. /\ Outcome' = [Outcome EXCEPT ![c] = "open"]
      /\ Target' = [Target EXCEPT ![c] = {v}]
  BY <1>1, <1>6, <1>7, <1>8
<1>10. Box[v] # "unborn"
  BY DEF CallVM, RefInv, GuestBegun, Box
<1>11. UNCHANGED <<Box, Landed>>
  BY <1>3, MappingKept
<1> QED
  BY <1>1, <1>6, <1>9, <1>10, <1>11 DEF Backend!Next, Backend!Open

LEMMA CreateRefines ==
  ASSUME RefInv, CreateStep
  PROVE  [Backend!Next]_Backend!backendVars
<1> USE DEF ChannelButGuest, agentVars
<1>1. ASSUME UNCHANGED <<guest, calls, handler>>
      PROVE  [Backend!Next]_Backend!backendVars
  BY <1>1, MappingKept DEF Backend!backendVars
<1>2. task = NoTask \/ task.vm \in VMs
  BY DEF RefInv, StrayInv, VMTyped, Tasks
<1>3. guest \in [VMs -> {"off", "up", "hung", "dead"}]
  BY DEF RefInv, ChannelInv, ChannelTypeOK
<1>4. CASE Restore \/ RestoreRaises
  <2>1. task.vm \in VMs /\ guest[task.vm] = "off" /\ UNCHANGED <<calls, handler>>
    BY <1>2, <1>4 DEF Restore, RestoreRaises, RefInv, GuestBegun, NoTask
  <2>2. guest' = guest \/ \E s \in {"up", "hung"} : guest' = [guest EXCEPT ![task.vm] = s]
    BY <1>4 DEF Restore, RestoreRaises, Resumed
  <2> QED
    BY <1>1, <2>1, <2>2, GuestRefines
<1>5. CASE Abort
  <2>1. task.vm \in VMs /\ UNCHANGED <<calls, handler>> /\ guest' = Ended(task.vm)
    BY <1>2, <1>5 DEF Abort, NoTask
  <2>2. Ended(task.vm) = [guest EXCEPT ![task.vm] = IF @ = "off" THEN "off" ELSE "dead"]
    BY DEF Ended
  <2> QED
    BY <1>3, <2>1, <2>2, GuestRefines
<1>6. CASE \/ \E v \in VMs : CreateBegin(v)
           \/ \E at \in {"copy", "spawn"} : RaiseBeforeTry(at)
           \/ CopyRootfs \/ Spawn \/ AwaitSocket \/ Register \/ AbortStuck
  BY <1>1, <1>6 DEF CreateBegin, RaiseBeforeTry, CopyRootfs, Spawn, AwaitSocket,
                    Register, AbortStuck, channelVars
<1> QED
  BY <1>4, <1>5, <1>6 DEF CreateStep

LEMMA NextRefines ==
  ASSUME RefInv, [Next]_vars
  PROVE  [Backend!Next]_Backend!backendVars
<1> USE DEF ChannelButGuest, agentVars
<1>1. ASSUME UNCHANGED <<guest, calls, handler>>
      PROVE  [Backend!Next]_Backend!backendVars
  BY <1>1, MappingKept DEF Backend!backendVars
<1>2. guest \in [VMs -> {"off", "up", "hung", "dead"}]
  BY DEF RefInv, ChannelInv, ChannelTypeOK
<1>3. CASE BakeStep
  BY <1>1, <1>3 DEF BakeStep, BakeBoot, AgentListens, BakePing, BakePause, BakeWrite, BakeSave,
                    BakeFails, channelVars
<1>4. ASSUME NEW v \in VMs, DestroyBegin(v) PROVE [Backend!Next]_Backend!backendVars
  BY <1>1, <1>4 DEF DestroyBegin, channelVars
<1>5. ASSUME NEW v \in VMs, guest' = Ended(v), UNCHANGED <<calls, handler>>
      PROVE  [Backend!Next]_Backend!backendVars
  BY <1>2, <1>5, GuestRefines DEF Ended
<1>6. CASE DestroyEnd
  <2>1. task.vm \in VMs
    BY <1>6 DEF DestroyEnd, NoTask, RefInv, StrayInv, VMTyped, Tasks
  <2> QED
    BY <1>1, <1>5, <1>6, <2>1 DEF DestroyEnd
<1>7. ASSUME NEW v \in VMs, ProcessEnds(v) PROVE [Backend!Next]_Backend!backendVars
  BY <1>5, <1>7 DEF ProcessEnds
<1>8. ASSUME NEW v \in VMs, Hang(v) PROVE [Backend!Next]_Backend!backendVars
  BY <1>2, <1>8, GuestRefines DEF Hang
<1>9. CASE ServerCrash
  <2>1. CASE stage = "idle"
    BY <1>1, <1>9, <2>1 DEF ServerCrash, channelVars
  <2>2. CASE stage # "idle"
    <3>1. /\ UNCHANGED <<guest, handler>>
          /\ (Current.result = "open" /\ Decide("broken", 0)) \/ UNCHANGED calls
      BY <1>9, <2>2 DEF ServerCrash
    <3>2. "broken" \in Results \ {"open"} /\ 0 \in 0..MaxCalls
      BY ChannelAssumption DEF Results
    <3> QED
      BY <1>1, <2>2, <3>1, <3>2, DecideRefines
  <2> QED
    BY <2>1, <2>2
<1>10. CASE UNCHANGED vars
  BY <1>1, <1>10 DEF vars, channelVars
<1> QED
  BY <1>3, <1>4, <1>6, <1>7, <1>8, <1>9, <1>10, CreateRefines, CallRefines,
     ClientRefines, AgentRefines DEF Next

(***************************************************************************)
(* The backend, with its vsock, its guests and its crashes, keeps the      *)
(* promise of the protocol to the pool and the tools.                      *)
(***************************************************************************)
THEOREM BackendImplemented == Spec => ImplementsBackend
<1>1. RefInv /\ [Next]_vars => [Backend!Next]_Backend!backendVars
  BY NextRefines
<1> QED
  BY <1>1, RefInit, RefNext, InitRefines, PTL DEF Spec, ImplementsBackend, Backend!Spec
=============================================================================

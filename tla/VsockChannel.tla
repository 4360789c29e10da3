---------------------------- MODULE VsockChannel ----------------------------
(***************************************************************************)
(* A call from the backend into a microVM: VsockClient of                  *)
(* src/firecracker.py on the host, the guest agent (guest-agent/src/main.rs)*)
(* in the VM, and the stream between them.  The operations are actions on  *)
(* these variables; FirecrackerBackend composes them.                      *)
(*                                                                         *)
(* The host makes one call at a time (_run_async waits for its thread).    *)
(* The agent serves every connection in a task of its own and learns that  *)
(* the host is gone only when it reads or writes.  All files of a VM are   *)
(* one file, and a call "write" stands for write_file and for the shell    *)
(* commands ("exec") that tools.py writes with: both truncate, then fill.  *)
(***************************************************************************)
EXTENDS Naturals, Sequences, FiniteSets

CONSTANTS
  VMs,        \* ids create() can hand out: bounds the calls to create()
  MaxCalls,   \* bounds the calls
  Requests,   \* the <<op, size>> of the calls in this instance
  Faults      \* the environment failures of this instance

FaultKinds == {"death", "hang", "disk", "copy", "spawn", "restore", "stuck",
               "bake", "crash"}

ASSUME ChannelAssumption ==
  /\ MaxCalls \in Nat
  /\ Requests \subseteq {"read", "write", "exec"}
                    \X {"small", "medium", "large", "oversize"}
  /\ Faults \subseteq FaultKinds

Calls == 1..MaxCalls

VARIABLES
  guest,     \* VM -> the guest: "off" before it is restored, "up", "hung", "dead"
  calls,     \* the calls made so far, in order
  stage,     \* of the last call: "connect", "send", "wait", "close", "idle" when over
  unsent,    \* the client's transport holds a part of its request
  sent,      \* connection -> the calls whose requests the agent has yet to read
  answers,   \* connection -> the calls whose responses the client has yet to read
  open,      \* connections the client holds open
  shut,      \* connections the agent has closed
  handler,   \* call -> its handler: "none", "begun", "cut", "done", "failed"
  replied,   \* calls whose handler has returned and whose response was written
  file       \* VM -> the call that last opened the file, and whether it is whole

channelVars == <<guest, calls, stage, unsent, sent, answers, open, shut, handler,
                 replied, file>>
agentVars == <<shut, handler, replied, file>>

MessageSizes == {"small", "medium", "large", "oversize"}

Call == [vm : VMs, op : {"read", "write", "exec"}, size : MessageSizes,
         conn : Calls, got : 0..MaxCalls,
         result : {"open", "ok", "error", "timeout", "broken"}]

ChannelTypeOK ==
  /\ guest \in [VMs -> {"off", "up", "hung", "dead"}]
  /\ calls \in Seq(Call) /\ Len(calls) <= MaxCalls
  /\ stage \in {"idle", "connect", "send", "wait", "close"}
  /\ unsent \in BOOLEAN
  /\ stage = "idle" \/ calls # <<>>
  /\ sent \in [Calls -> Seq(Calls)] /\ answers \in [Calls -> Seq(Calls)]
  /\ open \subseteq Calls /\ shut \subseteq Calls
  /\ handler \in [Calls -> {"none", "begun", "cut", "done", "failed"}]
  /\ replied \subseteq Calls
  /\ file \in [VMs -> [by : 0..MaxCalls, whole : BOOLEAN]]

ChannelInit ==
  /\ guest = [v \in VMs |-> "off"]
  /\ calls = <<>> /\ stage = "idle" /\ unsent = FALSE
  /\ sent = [k \in Calls |-> <<>>] /\ answers = [k \in Calls |-> <<>>]
  /\ open = {} /\ shut = {}
  /\ handler = [c \in Calls |-> "none"] /\ replied = {}
  /\ file = [v \in VMs |-> [by |-> 0, whole |-> TRUE]]

Last    == Len(calls)
Current == calls[Last]
Guest(c) == guest[calls[c].vm]
MaxMessage == MessageSizes \ {"oversize"}   \* sizes up to MAX_MESSAGE_SIZE
Buffered   == {"small", "medium"}           \* drain() need not wait for the guest

-----------------------------------------------------------------------------
(* The client: VsockClient._request. *)

\* Mutant of Connection: connections are numbered like _req_id before its step.
ConnectionBefore(c) == c - 1

\* Mutant of Connection: one that was not answered is kept for the next call.
ConnectionKept(c) ==
  IF c > 1 /\ calls[c - 1].result = "timeout" THEN calls[c - 1].conn ELSE c

\* _vsock_connect opens a connection for every request.
Connection(c) == c

Connect(v, op, size) ==
  /\ stage = "idle" /\ Last < MaxCalls
  /\ <<op, size>> \in Requests
  /\ stage' = "connect"
  /\ calls' = Append(calls, [vm |-> v, op |-> op, size |-> size, got |-> 0,
                             conn |-> Connection(Last + 1), result |-> "open"])
  /\ open' = open \cup {Connection(Last + 1)}
  /\ UNCHANGED <<guest, unsent, sent, answers, agentVars>>

\* The device answers "OK" once the guest accepts the connection.
Handshake ==
  /\ stage = "connect" /\ Guest(Last) = "up"
  /\ stage' = "send"
  /\ UNCHANGED <<guest, calls, unsent, sent, answers, open, agentVars>>

\* The request is all with the socket, or the guest.
Sent == sent' = [sent EXCEPT ![Current.conn] = Append(@, Last)]

\* drain() returns when little of the request is left in the transport: of a
\* small one nothing is, of a large one much is until the guest reads.
Send ==
  /\ stage = "send"
  /\ Guest(Last) = "up" \/ Current.size \in Buffered
  /\ stage' = "wait"
  /\ \/ Current.size = "small" /\ Sent /\ UNCHANGED unsent
     \/ Current.size # "small" /\ unsent' = TRUE /\ UNCHANGED sent
  /\ UNCHANGED <<guest, calls, answers, open, agentVars>>

\* The transport sends the rest while the guest reads, also after close().
Flush ==
  /\ unsent /\ Guest(Last) = "up"
  /\ unsent' = FALSE
  /\ Sent
  /\ UNCHANGED <<guest, calls, stage, answers, open, agentVars>>

\* How the call ends for its caller, as soon as the client has closed.
Decide(result, got) ==
  calls' = [calls EXCEPT ![Last].result = result, ![Last].got = got]

\* The response: a result, or an error (or exit status) the caller is told of.
Receive ==
  /\ stage = "wait" /\ answers[Current.conn] # <<>>
  /\ LET answered == Head(answers[Current.conn]) IN
       Decide(IF handler[answered] = "failed" THEN "error" ELSE "ok", answered)
  /\ stage' = "close"
  /\ answers' = [answers EXCEPT ![Current.conn] = Tail(@)]
  /\ UNCHANGED <<guest, unsent, sent, open, agentVars>>

\* The VM is gone, or the agent closed the connection.
Broken ==
  /\ stage \in {"connect", "send", "wait"} /\ answers[Current.conn] = <<>>
  /\ Guest(Last) = "dead" \/ Current.conn \in shut
  /\ Decide("broken", 0)
  /\ stage' = "close"
  /\ UNCHANGED <<guest, unsent, sent, answers, open, agentVars>>

\* Mutant of TimeOut: the response is awaited without a limit.
TimeOutHandshake ==
  /\ stage = "connect"
  /\ Decide("timeout", 0)
  /\ stage' = "idle"
  /\ UNCHANGED <<guest, unsent, sent, answers, open, agentVars>>

\* wait_for expires: 5 s for the handshake, whose connection nobody closes as
\* the try has not begun, and 60 s for the response.
TimeOut ==
  /\ stage \in {"connect", "wait"} /\ answers[Current.conn] = <<>>
  /\ Decide("timeout", 0)
  /\ stage' = IF stage = "connect" THEN "idle" ELSE "close"
  /\ UNCHANGED <<guest, unsent, sent, answers, open, agentVars>>

(***************************************************************************)
(* The finally clause: close(), and wait_closed() until the transport has  *)
(* sent the rest or the connection is lost.  (It raises only if a rest was *)
(* lost: one failure in the place of another.)                             *)
(***************************************************************************)
Close ==
  /\ stage = "close"
  /\ ~unsent \/ Guest(Last) = "dead" \/ Current.conn \in shut
  /\ stage' = "idle" /\ unsent' = FALSE
  /\ open' = open \ {Current.conn}
  /\ UNCHANGED <<guest, calls, sent, answers, agentVars>>

ClientStep == Handshake \/ Send \/ Flush \/ Receive \/ Broken \/ TimeOut \/ Close

-----------------------------------------------------------------------------
(* The guest agent: handle_connection, dispatch and the handlers. *)

Serving(k) == {c \in 1..Last : calls[c].conn = k /\ handler[c] # "none" /\ c \notin replied}

\* A request is read and served although the client may have closed meanwhile.
ReadMessage(c) ==
  LET k == calls[c].conn IN
  /\ Guest(c) = "up" /\ k \notin shut
  /\ Serving(k) = {}
  /\ sent[k] # <<>> /\ Head(sent[k]) = c
  /\ sent' = [sent EXCEPT ![k] = Tail(@)]
  /\ IF calls[c].size \in MaxMessage
     THEN handler' = [handler EXCEPT ![c] = "begun"] /\ shut' = shut
     ELSE shut' = shut \cup {k} /\ handler' = handler
  /\ UNCHANGED <<guest, calls, stage, unsent, answers, open, replied, file>>

Proceed(c, from, to) ==
  /\ Guest(c) = "up" /\ handler[c] = from
  /\ handler' = [handler EXCEPT ![c] = to]
  /\ UNCHANGED <<guest, calls, stage, unsent, sent, answers, open, shut, replied>>

HandleRead(c) ==
  /\ calls[c].op = "read"
  /\ Proceed(c, "begun", "done")
  /\ UNCHANGED file

Truncate(c) ==
  /\ calls[c].op # "read"
  /\ Proceed(c, "begun", "cut")
  /\ file' = [file EXCEPT ![calls[c].vm] = [by |-> c, whole |-> FALSE]]

Fill(c) ==
  /\ Proceed(c, "cut", "done")
  /\ file' = [file EXCEPT ![calls[c].vm] = [by |-> c, whole |-> TRUE]]

\* No such file; no space; or "timeout" kills the shell, between any two steps.
Fail(c) ==
  /\ calls[c].op = "read" \/ calls[c].op = "exec" \/ "disk" \in Faults
  /\ Proceed(c, "begun", "failed") \/ Proceed(c, "cut", "failed")
  /\ UNCHANGED file

\* Mutant of Returned: the handler spawns the write and answers at once.
ReturnedEarly(c) == handler[c] \in {"cut", "done", "failed"}

Returned(c) == handler[c] \in {"done", "failed"}

\* write_message; on an error the connection is given up.
Respond(c) ==
  LET k == calls[c].conn IN
  /\ Guest(c) = "up" /\ Returned(c) /\ c \notin replied
  /\ replied' = replied \cup {c}
  /\ IF k \in open THEN answers' = [answers EXCEPT ![k] = Append(@, c)] /\ shut' = shut
                   ELSE shut' = shut \cup {k} /\ answers' = answers
  /\ UNCHANGED <<guest, calls, stage, unsent, sent, open, handler, file>>

AgentStep ==
  \E c \in 1..Last : \/ ReadMessage(c) \/ HandleRead(c) \/ Truncate(c) \/ Fill(c)
                     \/ Fail(c) \/ Respond(c)

-----------------------------------------------------------------------------
(* External: the VM. *)

\* The guest stops serving although its Firecracker process runs on.
Hang(v) ==
  /\ "hang" \in Faults
  /\ guest[v] = "up"
  /\ guest' = [guest EXCEPT ![v] = "hung"]
  /\ UNCHANGED <<calls, stage, unsent, sent, answers, open, agentVars>>

-----------------------------------------------------------------------------
(***************************************************************************)
(* The response a call returns is the response to its own request, also    *)
(* after calls that were given up: the client compares no ids.             *)
(***************************************************************************)
AnswerIsOwn ==
  \A c \in 1..Last : calls[c].result \in {"ok", "error"} => calls[c].got = c

(***************************************************************************)
(* What a successful write put into the file stays until a later call      *)
(* opens it, or an earlier one that failed for its caller, whose handler   *)
(* ran on: no write that was acknowledged ever lands late.                 *)
(***************************************************************************)
LastWriteStays ==
  \A c \in 1..Last :
    calls[c].op # "read" /\ calls[c].result = "ok" =>
      LET now == file[calls[c].vm] IN
        \/ now.by = c /\ now.whole
        \/ now.by > c
        \/ now.by \in 1..(c - 1) /\ calls[now.by].result # "ok"

\* The client waits for a hung guest without a time limit: in drain(), or in
\* wait_closed() when it has given up and the rest cannot be sent.
Stuck ==
  /\ Guest(Last) = "hung"
  /\ \/ stage = "send" /\ Current.size \notin Buffered
     \/ stage = "close" /\ unsent

(***************************************************************************)
(* Every call returns to the server's blocked event loop, whatever the VM  *)
(* does, except one to a guest that hangs before it has read the request:  *)
(* drain() waits for it without a limit, and so does wait_closed() after   *)
(* the 60 s of the response, as long as a part of the request is unsent.   *)
(***************************************************************************)
CallEnds == stage # "idle" ~> stage = "idle" \/ Stuck
=============================================================================

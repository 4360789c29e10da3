------------------------- MODULE VsockChannel_proofs -------------------------
(***************************************************************************)
(* What the steps of a call keep, for any number of calls, VMs and faults. *)
(* FirecrackerBackend_proofs puts them together.                           *)
(***************************************************************************)
EXTENDS VsockChannel, SequenceTheorems, TLAPS

Results == {"open", "ok", "error", "timeout", "broken"}

(***************************************************************************)
(* Every call has a connection of its own: what waits in the two streams   *)
(* of connection k is the request and the response of call k.              *)
(***************************************************************************)
OwnConnections ==
  /\ \A c \in 1..Last : calls[c].conn = c
  /\ \A k \in Calls : sent[k] \in Seq({k}) /\ answers[k] \in Seq({k})

\* The stages of a call of which it is not decided yet how it ends.
Undecided == {"connect", "send", "wait"}

\* The calls before the last one are over; the last is open until it is decided.
StageAgrees == stage \in Undecided => Current.result = "open"

\* A response that waits was made by a handler that had returned.
AnswersReturned == \A k \in Calls : answers[k] # <<>> => handler[k] \in {"done", "failed"}

\* The request of the last call is not yet all on its way.
ToSend == stage \in {"connect", "send"} \/ unsent

\* A request is sent once, and nothing is begun before the agent has read it.
RequestsFresh ==
  /\ \A k \in Calls : sent[k] # <<>> => sent[k] = <<k>> /\ handler[k] = "none"
  /\ \A k \in Calls : k > Last \/ (k = Last /\ ToSend) => sent[k] = <<>> /\ handler[k] = "none"
  /\ unsent => stage \in {"wait", "close"}

\* A call that succeeded took effect.
SuccessLanded == \A c \in 1..Last : calls[c].result = "ok" => handler[c] = "done"

ChannelInv ==
  /\ ChannelTypeOK
  /\ OwnConnections /\ AnswerIsOwn
  /\ StageAgrees /\ RequestsFresh /\ AnswersReturned /\ SuccessLanded

LEMMA ChannelInitInv == ChannelInit => ChannelInv
<1> SUFFICES ASSUME ChannelInit PROVE ChannelInv
  OBVIOUS
<1> USE ChannelAssumption DEF ChannelInit, Last, Calls
<1>1. calls \in Seq(Call) /\ Len(calls) = 0 /\ 0 \in 0..MaxCalls
  OBVIOUS
<1>2. \A S : <<>> \in Seq(S)
  OBVIOUS
<1>3. 1..Last = {}
  BY <1>1
<1>4. ChannelTypeOK
  <2>1. /\ sent \in [Calls -> Seq(Calls)] /\ answers \in [Calls -> Seq(Calls)]
        /\ file \in [VMs -> [by : 0..MaxCalls, whole : BOOLEAN]]
    BY <1>1, <1>2
  <2>2. guest \in [VMs -> {"off", "up", "hung", "dead"}]
    OBVIOUS
  <2>3. handler \in [Calls -> {"none", "begun", "cut", "done", "failed"}]
    OBVIOUS
  <2>4. /\ stage = "idle" /\ unsent \in BOOLEAN
        /\ open = {} /\ shut = {} /\ replied = {}
    OBVIOUS
  <2>5. Len(calls) <= MaxCalls
    BY <1>1
  <2> HIDE DEF ChannelInit, Calls
  <2> QED
    BY <1>1, <2>1, <2>2, <2>3, <2>4, <2>5 DEF ChannelTypeOK
<1>5. OwnConnections /\ AnswerIsOwn /\ SuccessLanded
  BY <1>2, <1>3 DEF OwnConnections, AnswerIsOwn, SuccessLanded
<1>6. StageAgrees /\ RequestsFresh /\ AnswersReturned
  BY DEF StageAgrees, Undecided, RequestsFresh, ToSend, AnswersReturned
<1> QED
  BY <1>4, <1>5, <1>6 DEF ChannelInv

\* The calls so far, one by one.
LEMMA CallFacts ==
  ASSUME ChannelTypeOK
  PROVE  /\ Last \in 0..MaxCalls
         /\ 1..Last \subseteq Calls
         /\ stage # "idle" => Last \in 1..Last
         /\ \A c \in 1..Last : calls[c] \in Call
<1> USE ChannelAssumption DEF ChannelTypeOK, Last, Calls
<1>1. Len(calls) \in Nat /\ Len(calls) <= MaxCalls
  OBVIOUS
<1>2. calls # <<>> => Len(calls) # 0
  OBVIOUS
<1>3. \A c \in 1..Len(calls) : calls[c] \in Call
  OBVIOUS
<1> QED
  BY <1>1, <1>2, <1>3

LEMMA DecideFacts ==
  ASSUME ChannelTypeOK, stage # "idle",
         NEW result \in Results, NEW got \in 0..MaxCalls, Decide(result, got)
  PROVE  /\ calls' \in Seq(Call) /\ Last' = Last
         /\ \A c \in 1..Last :
              calls'[c] = IF c = Last THEN [calls[c] EXCEPT !.result = result, !.got = got]
                                      ELSE calls[c]
<1>1. Last \in 1..Last /\ Last \in Nat /\ \A c \in 1..Last : calls[c] \in Call
  BY CallFacts DEF Calls
<1> DEFINE new == [calls[Last] EXCEPT !.result = result, !.got = got]
<1>2. new \in Call
  BY <1>1 DEF Call, Results
<1>3. calls' = [calls EXCEPT ![Last] = new]
  BY <1>1 DEF Decide, ChannelTypeOK
<1> HIDE DEF new
<1>4. /\ calls' \in Seq(Call) /\ Len(calls') = Len(calls)
      /\ \A c \in 1..Last : calls'[c] = IF c = Last THEN new ELSE calls[c]
  BY <1>1, <1>2, <1>3 DEF ChannelTypeOK, Last
<1> QED
  BY <1>4 DEF Last, new

\* A call that ends, with its own response or with none, keeps the invariant.
LEMMA DecideKeeps ==
  ASSUME ChannelInv, stage # "idle", stage' \in {"close", "idle"},
         NEW result \in Results \ {"open"}, NEW got \in 0..MaxCalls, Decide(result, got),
         result \in {"ok", "error"} => got = Last,
         result = "ok" => handler[Last] = "done",
         open' \subseteq Calls, unsent' \in BOOLEAN,
         unsent' => unsent /\ stage' = "close",
         UNCHANGED <<guest, sent, agentVars>>,
         \A k \in Calls : /\ answers'[k] \in Seq({k})
                          /\ answers'[k] # <<>> => answers[k] # <<>>,
         answers' \in [Calls -> Seq(Calls)]
  PROVE  ChannelInv'
<1> USE DEF ChannelInv, agentVars
<1>1. /\ calls' \in Seq(Call) /\ Last' = Last
      /\ \A c \in 1..Last :
           calls'[c] = IF c = Last THEN [calls[c] EXCEPT !.result = result, !.got = got]
                                   ELSE calls[c]
  BY DecideFacts
<1>2. /\ \A c \in 1..Last : calls[c] \in Call /\ c \in Calls
      /\ Last \in 1..Last
  BY CallFacts
<1>3. ChannelTypeOK'
  <2>1. Last' \in 1..Last' /\ Last' = Len(calls') /\ Len(calls') <= MaxCalls
    BY <1>1, <1>2 DEF ChannelTypeOK, Last
  <2>2. calls' # <<>>
    BY <2>1
  <2> QED
    BY <1>1, <2>1, <2>2 DEF ChannelTypeOK
<1>4. \A c \in 1..Last : /\ calls'[c].conn = calls[c].conn
                         /\ c # Last => calls'[c] = calls[c]
                         /\ c = Last => calls'[c].result = result /\ calls'[c].got = got
  BY <1>1, <1>2 DEF Call
<1>5. OwnConnections'
  BY <1>1, <1>4 DEF OwnConnections
<1>6. AnswerIsOwn'
  BY <1>1, <1>4 DEF AnswerIsOwn
<1>7. SuccessLanded'
  BY <1>1, <1>4 DEF SuccessLanded
<1>8. StageAgrees' /\ RequestsFresh' /\ AnswersReturned'
  BY <1>1 DEF StageAgrees, Undecided, RequestsFresh, ToSend, AnswersReturned
<1> QED
  BY <1>3, <1>5, <1>6, <1>7, <1>8

\* What a step leaves in place if it does not touch the calls.
LEMMA CallsKept ==
  ASSUME ChannelInv, UNCHANGED calls
  PROVE  /\ Last' = Last /\ Current' = Current
         /\ AnswerIsOwn'
         /\ (\A c \in 1..Last : calls[c].conn = c)'
BY DEF ChannelInv, AnswerIsOwn, OwnConnections, Last, Current

LEMMA ConnectKeeps ==
  ASSUME ChannelInv, NEW v \in VMs, NEW op \in {"read", "write", "exec"},
         NEW size \in MessageSizes, Connect(v, op, size)
  PROVE  ChannelInv'
<1> USE DEF ChannelInv, Connection
<1> DEFINE new == [vm |-> v, op |-> op, size |-> size, got |-> 0,
                   conn |-> Last + 1, result |-> "open"]
<1>1. /\ Last \in 0..MaxCalls /\ Last < MaxCalls /\ MaxCalls \in Nat
      /\ Last + 1 \in Calls /\ 0 \in 0..MaxCalls
      /\ 1..Last \subseteq Calls
  BY CallFacts, ChannelAssumption DEF Connect, Calls
<1>2. new \in Call /\ new.conn = Last + 1 /\ new.result = "open"
  BY <1>1 DEF Call
<1>3. calls' = Append(calls, new) /\ UNCHANGED <<guest, unsent, sent, answers, agentVars>>
  BY DEF Connect
<1> HIDE DEF new
<1>4. /\ calls' \in Seq(Call) /\ Last' = Last + 1 /\ calls' # <<>>
      /\ \A c \in 1..Last : calls'[c] = calls[c]
      /\ calls'[Last + 1] = new
  <2>1. calls \in Seq(Call)
    BY DEF ChannelTypeOK
  <2> QED
    BY <1>2, <1>3, <2>1, AppendProperties DEF Last
<1>5. \A c \in 1..(Last + 1) : c \in 1..Last \/ c = Last + 1
  BY <1>1
<1>6. ChannelTypeOK'
  BY <1>1, <1>3, <1>4 DEF ChannelTypeOK, Connect, agentVars, Last
<1>7. OwnConnections' /\ AnswerIsOwn'
  BY <1>2, <1>3, <1>4, <1>5 DEF OwnConnections, AnswerIsOwn
<1>8. StageAgrees' /\ SuccessLanded'
  BY <1>2, <1>3, <1>4, <1>5 DEF StageAgrees, Undecided, SuccessLanded, Current, agentVars
<1>9. AnswersReturned'
  BY <1>3 DEF AnswersReturned, agentVars
<1>10. RequestsFresh'
  <2>1. \A k \in Calls : k > Last' \/ k = Last' => k > Last
    BY <1>1, <1>4 DEF Calls
  <2>2. /\ sent' = sent /\ handler' = handler
        /\ stage = "idle" /\ stage' = "connect" /\ unsent' = unsent
    BY <1>3 DEF agentVars, Connect
  <2> QED
    BY <2>1, <2>2 DEF RequestsFresh, ToSend
<1> QED
  BY <1>6, <1>7, <1>8, <1>9, <1>10

\* A step that makes no call, ends none, and takes back nothing that was done.
LEMMA StepKeeps ==
  ASSUME ChannelInv, ChannelTypeOK', RequestsFresh', UNCHANGED calls,
         stage' \in Undecided => stage \in Undecided,
         \A k \in Calls : /\ sent'[k] \in Seq({k}) /\ answers'[k] \in Seq({k})
                          /\ handler[k] \in {"done", "failed"} => handler'[k] = handler[k]
                          /\ answers'[k] # answers[k] => handler[k] \in {"done", "failed"}
  PROVE  ChannelInv'
<1> USE DEF ChannelInv
<1>1. OwnConnections' /\ AnswerIsOwn'
  BY CallsKept DEF OwnConnections
<1>2. StageAgrees' /\ AnswersReturned'
  BY CallsKept DEF StageAgrees, AnswersReturned
<1>3. SuccessLanded'
  BY CallsKept, CallFacts DEF SuccessLanded
<1> QED
  BY <1>1, <1>2, <1>3

\* The current call, its connection, and whether it is decided.
LEMMA CurrentFacts ==
  ASSUME ChannelInv, stage # "idle"
  PROVE  /\ Last \in Calls /\ Last \in 1..Last /\ Current \in Call
         /\ Current.conn = Last
         /\ stage \in Undecided => Current.result = "open"
BY CallFacts DEF ChannelInv, OwnConnections, StageAgrees, Current

\* The rest of a request reaches the agent's end of the connection.
LEMMA SentFacts ==
  ASSUME ChannelInv, stage # "idle", ToSend, Sent
  PROVE  /\ sent' \in [Calls -> Seq(Calls)]
         /\ \A k \in Calls : sent'[k] \in Seq({k})
         /\ sent'[Last] = <<Last>> /\ handler[Last] = "none"
         /\ \A k \in Calls : k # Last => sent'[k] = sent[k]
<1>1. /\ Last \in Calls /\ sent \in [Calls -> Seq(Calls)]
      /\ \A k \in Calls : sent[k] \in Seq({k})
      /\ sent' = [sent EXCEPT ![Last] = Append(@, Last)]
  BY CurrentFacts DEF ChannelInv, OwnConnections, ChannelTypeOK, Sent
<1>2. sent[Last] = <<>> /\ handler[Last] = "none"
  BY <1>1 DEF ChannelInv, RequestsFresh
<1>3. Append(sent[Last], Last) = <<Last>> /\ <<Last>> \in Seq({Last}) /\ <<Last>> \in Seq(Calls)
  BY <1>1, <1>2
<1> QED
  BY <1>1, <1>2, <1>3

LEMMA ClientKeeps ==
  ASSUME ChannelInv, ClientStep
  PROVE  ChannelInv'
<1> USE DEF ChannelInv
<1>1. CASE Handshake
  <2>1. ChannelTypeOK'
    BY <1>1 DEF Handshake, ChannelTypeOK, agentVars
  <2>2. RequestsFresh'
    BY <1>1, CallsKept DEF Handshake, RequestsFresh, ToSend, agentVars
  <2> QED
    BY <1>1, <2>1, <2>2, StepKeeps DEF Handshake, Undecided, OwnConnections, agentVars
<1>2. CASE Send
  <2>1. /\ stage = "send" /\ stage' = "wait"
        /\ UNCHANGED <<guest, calls, answers, open, agentVars>>
        /\ \/ Sent /\ UNCHANGED unsent
           \/ unsent' = TRUE /\ UNCHANGED sent
    BY <1>2 DEF Send
  <2>2. /\ sent' \in [Calls -> Seq(Calls)] /\ \A k \in Calls : sent'[k] \in Seq({k})
        /\ \A k \in Calls : k # Last => sent'[k] = sent[k]
        /\ \/ sent'[Last] = <<Last>> /\ handler[Last] = "none" /\ unsent' = FALSE
           \/ sent'[Last] = sent[Last] /\ unsent' = TRUE
    <3>1. CASE Sent /\ UNCHANGED unsent
      BY <2>1, <3>1, SentFacts DEF ToSend, RequestsFresh, ChannelTypeOK
    <3>2. CASE unsent' = TRUE /\ UNCHANGED sent
      BY <3>2 DEF ChannelTypeOK, OwnConnections
    <3> QED
      BY <2>1, <3>1, <3>2
  <2>3. ChannelTypeOK'
    BY <2>1, <2>2 DEF ChannelTypeOK, agentVars
  <2>4. RequestsFresh'
    <3>1. \A k \in Calls : k > Last => k # Last
      BY <2>1, CurrentFacts DEF Calls
    <3> QED
      BY <2>1, <2>2, <3>1, CallsKept DEF RequestsFresh, ToSend, agentVars
  <2> QED
    BY <2>1, <2>2, <2>3, <2>4, StepKeeps DEF Undecided, OwnConnections, agentVars
<1>5. CASE Flush
  <2>1. /\ unsent /\ unsent' = FALSE /\ Sent
        /\ UNCHANGED <<guest, calls, stage, answers, open, agentVars>>
        /\ stage \in {"wait", "close"}
    BY <1>5 DEF Flush, RequestsFresh
  <2>2. /\ sent' \in [Calls -> Seq(Calls)] /\ \A k \in Calls : sent'[k] \in Seq({k})
        /\ \A k \in Calls : k # Last => sent'[k] = sent[k]
        /\ sent'[Last] = <<Last>> /\ handler[Last] = "none"
    BY <2>1, SentFacts DEF ToSend
  <2>3. ChannelTypeOK'
    BY <2>1, <2>2 DEF ChannelTypeOK, agentVars
  <2>4. RequestsFresh'
    <3>1. \A k \in Calls : k > Last => k # Last
      BY <2>1, CurrentFacts DEF Calls
    <3> QED
      BY <2>1, <2>2, <3>1, CallsKept DEF RequestsFresh, ToSend, agentVars
  <2> QED
    BY <2>1, <2>2, <2>3, <2>4, StepKeeps DEF OwnConnections, agentVars
<1>6. CASE Close
  <2>1. /\ stage = "close" /\ stage' = "idle" /\ unsent' = FALSE
        /\ open' \subseteq open
        /\ UNCHANGED <<guest, calls, sent, answers, agentVars>>
    BY <1>6 DEF Close
  <2>2. ChannelTypeOK'
    BY <2>1 DEF ChannelTypeOK, agentVars
  <2>3. RequestsFresh'
    BY <2>1, CallsKept DEF RequestsFresh, ToSend, agentVars
  <2> QED
    BY <2>1, <2>2, <2>3, StepKeeps DEF Undecided, OwnConnections, agentVars
<1>3. CASE Receive
  <2> DEFINE answered == Head(answers[Last])
             result == IF handler[answered] = "failed" THEN "error" ELSE "ok"
  <2>1. /\ stage = "wait" /\ answers[Last] # <<>> /\ Decide(result, answered)
        /\ stage' = "close" /\ UNCHANGED <<guest, unsent, sent, open, agentVars>>
        /\ answers' = [answers EXCEPT ![Last] = Tail(@)]
    BY <1>3, CurrentFacts DEF Receive
  <2>2. Last \in Calls /\ answers[Last] \in Seq({Last}) /\ answers[Last] \in Seq(Calls)
    BY <2>1, CurrentFacts DEF OwnConnections, ChannelTypeOK
  <2>3. /\ answered = Last
        /\ Tail(answers[Last]) \in Seq({Last}) /\ Tail(answers[Last]) \in Seq(Calls)
    BY <2>1, <2>2, HeadTailProperties
  <2>4. handler[Last] \in {"done", "failed"}
    BY <2>1, <2>2 DEF AnswersReturned
  <2>5. /\ result \in Results \ {"open"} /\ answered \in 0..MaxCalls
        /\ result = "ok" => handler[Last] = "done"
    BY <2>2, <2>3, <2>4, ChannelAssumption DEF Results, Calls
  <2>6. /\ answers' \in [Calls -> Seq(Calls)]
        /\ \A k \in Calls : /\ answers'[k] \in Seq({k})
                            /\ answers'[k] # <<>> => answers[k] # <<>>
    BY <2>1, <2>2, <2>3 DEF ChannelTypeOK, OwnConnections
  <2>7. /\ open' \subseteq Calls /\ unsent' \in BOOLEAN
        /\ unsent' => unsent /\ stage' = "close"
        /\ stage # "idle" /\ stage' \in {"close", "idle"}
        /\ UNCHANGED <<guest, sent, agentVars>>
    BY <2>1 DEF ChannelTypeOK
  <2>8. result \in {"ok", "error"} => answered = Last
    BY <2>3
  <2> HIDE DEF result, answered
  <2> QED
    BY <2>1, <2>5, <2>6, <2>7, <2>8, DecideKeeps
<1>4. CASE Broken \/ TimeOut
  <2>1. PICK result \in {"broken", "timeout"} : Decide(result, 0)
    BY <1>4 DEF Broken, TimeOut
  <2>2. /\ stage # "idle" /\ UNCHANGED <<guest, unsent, sent, answers, open, agentVars>>
        /\ stage' = "close" \/ (stage = "connect" /\ stage' = "idle")
    <3>1. CASE Broken
      BY <3>1 DEF Broken
    <3>2. CASE TimeOut
      BY <3>2 DEF TimeOut
    <3> QED
      BY <1>4, <3>1, <3>2
  <2>3. result \in Results \ {"open"} /\ 0 \in 0..MaxCalls
    BY ChannelAssumption DEF Results
  <2>4. /\ open' \subseteq Calls /\ unsent' \in BOOLEAN
        /\ unsent' => unsent /\ stage' = "close"
        /\ stage # "idle" /\ stage' \in {"close", "idle"}
        /\ UNCHANGED <<guest, sent, agentVars>>
    BY <2>2 DEF ChannelTypeOK, RequestsFresh
  <2>5. /\ answers' \in [Calls -> Seq(Calls)]
        /\ \A k \in Calls : /\ answers'[k] \in Seq({k})
                            /\ answers'[k] # <<>> => answers[k] # <<>>
    BY <2>2 DEF ChannelTypeOK, OwnConnections
  <2> QED
    BY <2>1, <2>3, <2>4, <2>5, DecideKeeps
<1> QED
  BY <1>1, <1>2, <1>3, <1>4, <1>5, <1>6 DEF ClientStep

\* A handler that has not returned takes its next step.
LEMMA ProceedKeeps ==
  ASSUME ChannelInv, NEW c \in 1..Last, NEW from \in {"begun", "cut"},
         NEW to \in {"cut", "done", "failed"}, Proceed(c, from, to),
         file' \in [VMs -> [by : 0..MaxCalls, whole : BOOLEAN]]
  PROVE  ChannelInv'
<1> USE DEF ChannelInv
<1>1. ChannelTypeOK'
  BY CallFacts DEF Proceed, ChannelTypeOK
<1>2. RequestsFresh'
  BY CallFacts, CallsKept DEF Proceed, RequestsFresh, ToSend, ChannelTypeOK
<1>3. /\ UNCHANGED <<calls, stage, sent, answers>>
      /\ \A k \in Calls : /\ sent'[k] \in Seq({k}) /\ answers'[k] \in Seq({k})
                          /\ handler[k] \in {"done", "failed"} => handler'[k] = handler[k]
  BY DEF Proceed, OwnConnections, ChannelTypeOK
<1> QED
  BY <1>1, <1>2, <1>3, StepKeeps

LEMMA AgentKeeps ==
  ASSUME ChannelInv, AgentStep
  PROVE  ChannelInv'
<1> USE DEF ChannelInv
<1> PICK c \in 1..Last : \/ ReadMessage(c) \/ HandleRead(c) \/ Truncate(c) \/ Fill(c)
                         \/ Fail(c) \/ Respond(c)
  BY DEF AgentStep
<1>1. /\ c \in Calls /\ c \in 0..MaxCalls /\ calls[c] \in Call /\ calls[c].vm \in VMs
      /\ calls[c].conn = c
  BY CallFacts, ChannelAssumption DEF Call, Calls, OwnConnections
<1>2. CASE ReadMessage(c)
  <2>1. /\ sent[c] # <<>> /\ sent' = [sent EXCEPT ![c] = Tail(@)]
        /\ UNCHANGED <<guest, calls, stage, unsent, answers, open, replied, file>>
        /\ \/ handler' = [handler EXCEPT ![c] = "begun"] /\ shut' = shut
           \/ shut' = shut \cup {c} /\ handler' = handler
    BY <1>1, <1>2 DEF ReadMessage
  <2>2. sent[c] \in Seq({c}) /\ sent[c] \in Seq(Calls)
    BY <1>1 DEF OwnConnections, ChannelTypeOK
  <2>3. Tail(sent[c]) \in Seq({c}) /\ Tail(sent[c]) \in Seq(Calls)
    BY <2>1, <2>2, HeadTailProperties
  <2>4. ChannelTypeOK'
    BY <1>1, <2>1, <2>3 DEF ChannelTypeOK
  <2>5. handler[c] = "none" /\ sent[c] = <<c>> /\ Tail(<<c>>) = <<>>
    BY <1>1, <2>1 DEF RequestsFresh
  <2>6. ~(c > Last \/ (c = Last /\ ToSend))
    BY <1>1, <2>1 DEF RequestsFresh
  <2>7. RequestsFresh'
    <3>1. /\ sent'[c] = <<>> /\ \A k \in Calls : k # c => sent'[k] = sent[k]
          /\ \A k \in Calls : k # c => handler'[k] = handler[k]
      BY <1>1, <2>1, <2>5 DEF ChannelTypeOK
    <3> QED
      BY <1>1, <2>1, <2>6, <3>1, CallsKept DEF RequestsFresh, ToSend
  <2> QED
    BY <1>1, <2>1, <2>3, <2>4, <2>5, <2>7, StepKeeps DEF OwnConnections, ChannelTypeOK
<1>3. CASE HandleRead(c)
  BY <1>3, ProceedKeeps DEF HandleRead, ChannelTypeOK
<1>4. CASE Truncate(c)
  <2>1. file' \in [VMs -> [by : 0..MaxCalls, whole : BOOLEAN]]
    BY <1>1, <1>4 DEF Truncate, ChannelTypeOK
  <2> QED
    BY <1>4, <2>1, ProceedKeeps DEF Truncate
<1>5. CASE Fill(c)
  <2>1. file' \in [VMs -> [by : 0..MaxCalls, whole : BOOLEAN]]
    BY <1>1, <1>5 DEF Fill, ChannelTypeOK
  <2> QED
    BY <1>5, <2>1, ProceedKeeps DEF Fill
<1>6. CASE Fail(c)
  BY <1>6, ProceedKeeps DEF Fail, ChannelTypeOK
<1>7. CASE Respond(c)
  <2>1. /\ handler[c] \in {"done", "failed"} /\ replied' = replied \cup {c}
        /\ UNCHANGED <<guest, calls, stage, unsent, sent, open, handler, file>>
        /\ \/ answers' = [answers EXCEPT ![c] = Append(@, c)] /\ shut' = shut
           \/ shut' = shut \cup {c} /\ answers' = answers
    BY <1>1, <1>7 DEF Respond, Returned
  <2>2. answers[c] \in Seq({c}) /\ answers[c] \in Seq(Calls)
    BY <1>1 DEF OwnConnections, ChannelTypeOK
  <2>3. Append(answers[c], c) \in Seq({c}) /\ Append(answers[c], c) \in Seq(Calls)
    BY <1>1, <2>2, AppendProperties
  <2>4. ChannelTypeOK'
    BY <1>1, <2>1, <2>3 DEF ChannelTypeOK
  <2>5. RequestsFresh'
    BY <2>1, CallsKept DEF RequestsFresh, ToSend
  <2> QED
    BY <1>1, <2>1, <2>3, <2>4, <2>5, StepKeeps DEF OwnConnections, ChannelTypeOK
<1> QED
  BY <1>2, <1>3, <1>4, <1>5, <1>6, <1>7

\* What happens to a VM does not touch its calls.
LEMMA GuestKeeps ==
  ASSUME ChannelInv, guest' \in [VMs -> {"off", "up", "hung", "dead"}],
         UNCHANGED <<calls, stage, unsent, sent, answers, open, agentVars>>
  PROVE  ChannelInv'
<1>1. ChannelTypeOK'
  BY DEF ChannelInv, ChannelTypeOK, agentVars
<1>2. RequestsFresh'
  BY CallsKept DEF ChannelInv, RequestsFresh, ToSend, agentVars
<1> QED
  BY <1>1, <1>2, StepKeeps DEF ChannelInv, OwnConnections, agentVars

-----------------------------------------------------------------------------
\* What the file of c's VM holds if c wrote it, as LastWriteStays has it.
Stays(c) ==
  LET now == file[calls[c].vm] IN
    \/ now.by = c /\ now.whole
    \/ now.by > c
    \/ now.by \in 1..(c - 1) /\ calls[now.by].result # "ok"

\* It already holds for a write that has landed and is not yet acknowledged.
LandedStays == \A c \in 1..Last : calls[c].op # "read" /\ handler[c] = "done" => Stays(c)

LEMMA LandedMeans ==
  ASSUME ChannelInv, LandedStays
  PROVE  LastWriteStays
BY DEF ChannelInv, SuccessLanded, LandedStays, Stays, LastWriteStays

LEMMA LandedInit == ChannelInit => LandedStays
<1> SUFFICES ASSUME ChannelInit PROVE LandedStays
  OBVIOUS
<1>1. 1..Last = {}
  BY DEF ChannelInit, Last
<1> QED
  BY <1>1 DEF LandedStays

LEMMA WritesUntouched ==
  ASSUME LandedStays, UNCHANGED <<calls, file>>,
         \A c \in 1..Last : calls[c].op # "read" /\ handler'[c] = "done" => handler[c] = "done"
  PROVE  LandedStays'
BY DEF LandedStays, Stays, Last

LEMMA WritesDecide ==
  ASSUME ChannelInv, LandedStays, stage # "idle", UNCHANGED <<handler, file>>,
         NEW result \in Results \ {"open"}, NEW got \in 0..MaxCalls, Decide(result, got)
  PROVE  LandedStays'
<1>1. /\ Last' = Last
      /\ \A c \in 1..Last :
           calls'[c] = IF c = Last THEN [calls[c] EXCEPT !.result = result, !.got = got]
                                   ELSE calls[c]
      /\ \A c \in 1..Last : calls[c] \in Call
  BY DecideFacts, CallFacts DEF ChannelInv
<1>2. /\ \A c \in 1..Last : calls'[c].vm = calls[c].vm /\ calls'[c].op = calls[c].op
      /\ \A c \in 1..Last : c # Last => calls'[c] = calls[c]
      /\ \A c \in 1..Last : c = Last => calls'[c].result = result
  BY <1>1 DEF Call
<1>4. ASSUME NEW c \in 1..Last, Stays(c) PROVE Stays(c)'
  <2>1. Last \in Nat
    BY CallFacts DEF ChannelInv
  <2>2. \A d \in 1..(c - 1) : d \in 1..Last /\ d # Last
    BY <2>1
  <2> QED
    BY <1>2, <1>4, <2>2 DEF Stays
<1> QED
  BY <1>1, <1>2, <1>4 DEF LandedStays

LEMMA WritesClient ==
  ASSUME ChannelInv, LandedStays, ClientStep
  PROVE  LandedStays'
<1>1. CASE Handshake \/ Send \/ Flush \/ Close
  BY <1>1 DEF Handshake, Send, Flush, Close, agentVars, LandedStays, Stays, Last
<1>2. CASE Receive
  <2> DEFINE answered == Head(answers[Last])
             result == IF handler[answered] = "failed" THEN "error" ELSE "ok"
  <2>1. /\ stage # "idle" /\ answers[Last] # <<>> /\ Decide(result, answered)
        /\ UNCHANGED <<handler, file>>
    BY <1>2, CurrentFacts DEF Receive, agentVars
  <2>2. Last \in Calls /\ answers[Last] \in Seq({Last})
    BY <2>1, CurrentFacts DEF ChannelInv, OwnConnections
  <2>3. answered \in 0..MaxCalls /\ result \in Results \ {"open"}
    BY <2>1, <2>2, HeadTailProperties, ChannelAssumption DEF Results, Calls
  <2> HIDE DEF result, answered
  <2> QED
    BY <2>1, <2>3, WritesDecide
<1>3. CASE Broken \/ TimeOut
  <2>1. PICK result \in {"broken", "timeout"} : Decide(result, 0)
    BY <1>3 DEF Broken, TimeOut
  <2>2. stage # "idle" /\ UNCHANGED <<handler, file>>
    BY <1>3 DEF Broken, TimeOut, agentVars
  <2>3. result \in Results \ {"open"} /\ 0 \in 0..MaxCalls
    BY ChannelAssumption DEF Results
  <2> QED
    BY <2>1, <2>2, <2>3, WritesDecide
<1> QED
  BY <1>1, <1>2, <1>3 DEF ClientStep

LEMMA WritesConnect ==
  ASSUME ChannelInv, LandedStays, NEW v \in VMs, NEW op \in {"read", "write", "exec"},
         NEW size \in MessageSizes, Connect(v, op, size)
  PROVE  LandedStays'
<1> DEFINE new == [vm |-> v, op |-> op, size |-> size, got |-> 0,
                   conn |-> Last + 1, result |-> "open"]
<1>1. /\ Last \in Nat /\ Last + 1 \in Calls /\ 0 \in 0..MaxCalls /\ stage = "idle"
  BY CallFacts, ChannelAssumption DEF Connect, ChannelInv, Calls
<1>2. new \in Call
  BY <1>1 DEF Call
<1>3. calls' = Append(calls, new) /\ stage' = "connect" /\ UNCHANGED <<handler, file>>
  BY DEF Connect, Connection, agentVars
<1> HIDE DEF new
<1>4. Last' = Last + 1 /\ \A c \in 1..Last : calls'[c] = calls[c]
  <2>1. calls \in Seq(Call)
    BY DEF ChannelInv, ChannelTypeOK
  <2> QED
    BY <1>2, <1>3, <2>1, AppendProperties DEF Last
<1>5. \A c \in 1..Last' : c \in 1..Last \/ c = Last'
  BY <1>1, <1>4
<1>7. ASSUME NEW c \in 1..Last, Stays(c) PROVE Stays(c)'
  <2>1. \A d \in 1..(c - 1) : d \in 1..Last
    BY <1>1
  <2> QED
    BY <1>3, <1>4, <1>7, <2>1 DEF Stays
<1>8. handler[Last'] = "none" /\ handler' = handler
  <2>1. Last' > Last /\ Last' \in Calls
    BY <1>1, <1>4
  <2> QED
    BY <1>3, <2>1 DEF ChannelInv, RequestsFresh
<1> QED
  BY <1>4, <1>5, <1>7, <1>8 DEF LandedStays

\* A handler that opens the file now was not acknowledged, nor will it be if a
\* later call has landed: the calls before the last one are over.
LEMMA WritesOpened ==
  ASSUME ChannelInv, LandedStays, NEW d \in 1..Last, handler[d] \in {"begun", "cut"},
         UNCHANGED <<calls, stage>>,
         NEW to \in {"cut", "done"}, handler' = [handler EXCEPT ![d] = to],
         file' = [file EXCEPT ![calls[d].vm] = [by |-> d, whole |-> to = "done"]]
  PROVE  LandedStays'
<1>1. /\ Last \in Nat /\ Last' = Last /\ 1..Last \subseteq Calls
      /\ d \in Calls /\ calls[d] \in Call
      /\ \A c \in 1..Last : c \in Calls /\ calls[c].vm \in VMs
  BY CallFacts DEF ChannelInv, Last, Call
<1>2. /\ file' = [file EXCEPT ![calls[d].vm] = [by |-> d, whole |-> to = "done"]]
      /\ file \in [VMs -> [by : 0..MaxCalls, whole : BOOLEAN]]
      /\ handler \in [Calls -> {"none", "begun", "cut", "done", "failed"}]
  BY DEF ChannelInv, ChannelTypeOK
<1>3. calls[d].result # "ok"
  BY DEF ChannelInv, SuccessLanded
<1>5. ASSUME NEW c \in 1..Last, calls[c].op # "read", handler'[c] = "done"
      PROVE  Stays(c)'
  <2>1. CASE calls[c].vm # calls[d].vm
    <3>1. file'[calls[c].vm] = file[calls[c].vm] /\ c # d
      BY <1>1, <1>2, <2>1
    <3>2. Stays(c)
      BY <1>1, <1>2, <1>5, <3>1 DEF LandedStays
    <3> QED
      BY <3>1, <3>2 DEF Stays
  <2>2. CASE calls[c].vm = calls[d].vm
    <3>1. file'[calls[c].vm] = [by |-> d, whole |-> to = "done"]
      BY <1>1, <1>2, <2>2
    <3>2. c = d => to = "done"
      BY <1>1, <1>2, <1>5
    <3>3. c = d \/ d > c \/ d \in 1..(c - 1)
      BY <1>1
    <3>4. file'[calls'[c].vm] = [by |-> d, whole |-> to = "done"] /\ calls'[d].result # "ok"
      BY <1>3, <3>1
    <3>5. CASE c = d
      <4>1. file'[calls'[c].vm] = [by |-> c, whole |-> TRUE]
        BY <3>2, <3>4, <3>5
      <4> QED
        BY <4>1 DEF Stays
    <3>6. CASE d > c
      BY <3>4, <3>6 DEF Stays
    <3>7. CASE d \in 1..(c - 1)
      BY <3>4, <3>7 DEF Stays
    <3> QED
      BY <3>3, <3>5, <3>6, <3>7
  <2> QED
    BY <2>1, <2>2
<1> QED
  BY <1>1, <1>5 DEF LandedStays

LEMMA WritesAgent ==
  ASSUME ChannelInv, LandedStays, AgentStep
  PROVE  LandedStays'
<1> PICK c \in 1..Last : \/ ReadMessage(c) \/ HandleRead(c) \/ Truncate(c) \/ Fill(c)
                         \/ Fail(c) \/ Respond(c)
  BY DEF AgentStep
<1>1. /\ 1..Last \subseteq Calls
      /\ handler \in [Calls -> {"none", "begun", "cut", "done", "failed"}]
  BY CallFacts DEF ChannelInv, ChannelTypeOK
<1>2. CASE ReadMessage(c) \/ HandleRead(c) \/ Fail(c) \/ Respond(c)
  <2>1. UNCHANGED <<calls, file>>
    BY <1>2 DEF ReadMessage, HandleRead, Fail, Respond, Proceed
  <2>2. \/ handler' = handler
        \/ \E s \in {"begun", "failed"} : handler' = [handler EXCEPT ![c] = s]
        \/ calls[c].op = "read" /\ handler' = [handler EXCEPT ![c] = "done"]
    BY <1>2 DEF ReadMessage, HandleRead, Fail, Respond, Proceed
  <2>3. \A d \in 1..Last : calls[d].op # "read" /\ handler'[d] = "done" => handler[d] = "done"
    BY <1>1, <2>2
  <2> QED
    BY <2>1, <2>3, WritesUntouched
<1>3. CASE Truncate(c)
  <2>1. /\ handler[c] = "begun" /\ handler' = [handler EXCEPT ![c] = "cut"]
        /\ file' = [file EXCEPT ![calls[c].vm] = [by |-> c, whole |-> "cut" = "done"]]
        /\ UNCHANGED <<calls, stage>>
    BY <1>3 DEF Truncate, Proceed
  <2> QED
    BY <2>1, WritesOpened
<1>4. CASE Fill(c)
  <2>1. /\ handler[c] = "cut" /\ handler' = [handler EXCEPT ![c] = "done"]
        /\ file' = [file EXCEPT ![calls[c].vm] = [by |-> c, whole |-> "done" = "done"]]
        /\ UNCHANGED <<calls, stage>>
    BY <1>4 DEF Fill, Proceed
  <2> QED
    BY <2>1, WritesOpened
<1> QED
  BY <1>2, <1>3, <1>4
=============================================================================

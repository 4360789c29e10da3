---------------------------- MODULE Conversation ----------------------------
(***************************************************************************)
(* The message history of one session: send_message of src/api.py with the *)
(* compaction of src/compaction.py.  The handler suspends while the        *)
(* summary is made, and the turn streams for a long time after; meanwhile  *)
(* the same session's other requests run.                                  *)
(***************************************************************************)
EXTENDS Compaction, FiniteSets, Functions

CONSTANTS
  Requests,       \* POST /sessions/{id}/messages: bounds the turns
  Sizes,          \* JSON lengths of messages, user's and assistant's
  SummarySizes,   \* JSON lengths of summary messages
  MaxTokens,      \* MAX_CONTEXT_TOKENS
  NoPrompt,       \* a turn that has not started
  Overlap         \* a request may arrive while another is being answered

\* A message without content, and the text in front of a summary.
Overhead == 31
Heading  == 45

ASSUME ConversationAssumption ==
  /\ Sizes \subseteq Nat /\ \A s \in Sizes : s >= Overhead
  /\ SummarySizes \subseteq Nat /\ \A s \in SummarySizes : s >= Overhead + Heading
  /\ MaxTokens \in Nat
  /\ Overlap \in BOOLEAN

VARIABLES
  messages,   \* session.messages
  phase,      \* request -> where its handler and generator are
  kept,       \* request -> remaining_messages while its summary is made
  folded,     \* request -> the messages that summary is to replace
  existing,   \* request -> the previous summary it is to incorporate
  prompt,     \* request -> the message its turn sends to the model
  log,        \* history: all user and assistant messages, in order
  summary,    \* session.summary: the messages its text was made from
  truncated   \* history: messages dropped because the summary call failed

compactionVars == <<kept, folded, existing>>
vars == <<messages, phase, compactionVars, prompt, log, summary, truncated>>

Message == [role : {"user", "assistant", "summary"}, of : Requests,
            size : Sizes \cup SummarySizes]
Phases == {"unsent", "summarizing", "ready", "streaming", "done", "failed"}

TypeOK ==
  /\ messages \in Seq(Message)
  /\ phase \in [Requests -> Phases]
  /\ kept \in [Requests -> Seq(Message)]
  /\ folded \in [Requests -> SUBSET Message]
  /\ existing \in [Requests -> SUBSET Message]
  /\ prompt \in [Requests -> Message \cup {NoPrompt}]
  /\ log \in Seq(Message)
  /\ summary \subseteq Message
  /\ truncated \subseteq Message

Init ==
  /\ messages = <<>>
  /\ phase = [r \in Requests |-> "unsent"]
  /\ kept = [r \in Requests |-> <<>>]
  /\ folded = [r \in Requests |-> {}]
  /\ existing = [r \in Requests |-> {}]
  /\ prompt = [r \in Requests |-> NoPrompt]
  /\ log = <<>>
  /\ summary = {}
  /\ truncated = {}

SizesOf(list) == [i \in 1..Len(list) |-> list[i].size]
OverBudget(list) == Estimate(SizesOf(list)) > MaxTokens
Ended(r) == phase[r] \in {"unsent", "done", "failed"}

\* The message of request r is among ms.
Asks(r, ms) == \E m \in ms : m.role = "user" /\ m.of = r

-----------------------------------------------------------------------------
\* compact_messages() up to the call of the summary model, on the list l.
StartCompaction(r, l) ==
  \E target \in Targets(MaxTokens) :
    LET split == SplitIdx(SizesOf(l), target) IN
      IF split = 0
      THEN phase' = [phase EXCEPT ![r] = "ready"] /\ UNCHANGED compactionVars
      ELSE /\ phase' = [phase EXCEPT ![r] = "summarizing"]
           /\ kept' = [kept EXCEPT ![r] = SubSeq(l, split + 1, Len(l))]
           /\ folded' = [folded EXCEPT ![r] = Range(SubSeq(l, 1, split))]
           /\ existing' = [existing EXCEPT ![r] = summary]

\* The request arrives: its message is appended and the budget tested.
Send(r, size) ==
  LET mine == [role |-> "user", of |-> r, size |-> size]
      l    == Append(messages, mine)
  IN  /\ phase[r] = "unsent"
      /\ Overlap \/ \A q \in Requests : Ended(q)
      /\ messages' = l
      /\ log' = Append(log, mine)
      /\ IF OverBudget(l)
         THEN StartCompaction(r, l)
         ELSE phase' = [phase EXCEPT ![r] = "ready"] /\ UNCHANGED compactionVars
      /\ UNCHANGED <<prompt, summary, truncated>>

\* Mutant of NewSummary: the previous summary is not incorporated.
NewSummaryAlone(r) ==
  \/ summary' = folded[r] /\ UNCHANGED truncated
  \/ summary' = existing[r] /\ truncated' = truncated \cup folded[r]

\* The summary model answers, or its call fails and the previous summary, or
\* a fixed text, stands in for the answer: what was to be folded is dropped.
NewSummary(r) ==
  \/ summary' = existing[r] \cup folded[r] /\ UNCHANGED truncated
  \/ summary' = existing[r] /\ truncated' = truncated \cup folded[r]

\* Mutant of Summarized: the summary is appended instead of prepended.
SummarizedAtEnd(r, size) ==
  /\ phase[r] = "summarizing"
  /\ NewSummary(r)
  /\ messages' = Append(kept[r], [role |-> "summary", of |-> r, size |-> size])
  /\ phase' = [phase EXCEPT ![r] = "ready"]
  /\ UNCHANGED <<compactionVars, prompt, log>>

\* The summary call has ended: the list is replaced.
Summarized(r, size) ==
  /\ phase[r] = "summarizing"
  /\ NewSummary(r)
  /\ messages' = <<[role |-> "summary", of |-> r, size |-> size]>> \o kept[r]
  /\ phase' = [phase EXCEPT ![r] = "ready"]
  /\ UNCHANGED <<compactionVars, prompt, log>>

\* Mutant of Begin: the turn sends the first message of the list.
BeginOldest(r) ==
  /\ phase[r] = "ready"
  /\ prompt' = [prompt EXCEPT ![r] = messages[1]]
  /\ phase' = [phase EXCEPT ![r] = "streaming"]
  /\ UNCHANGED <<messages, compactionVars, log, summary, truncated>>

\* The generator starts: run() takes the list's last message as the query.
Begin(r) ==
  /\ phase[r] = "ready"
  /\ prompt' = [prompt EXCEPT ![r] = messages[Len(messages)]]
  /\ phase' = [phase EXCEPT ![r] = "streaming"]
  /\ UNCHANGED <<messages, compactionVars, log, summary, truncated>>

\* Mutant of Complete: the request ends in a state of its own.
CompleteUnknown(r, size) ==
  LET reply == [role |-> "assistant", of |-> r, size |-> size]
  IN  /\ phase[r] = "streaming"
      /\ messages' = Append(messages, reply)
      /\ log' = Append(log, reply)
      /\ phase' = [phase EXCEPT ![r] = "complete"]
      /\ UNCHANGED <<compactionVars, prompt, summary, truncated>>

\* The stream ends: the reply goes to the session's list of that moment.
Complete(r, size) ==
  LET reply == [role |-> "assistant", of |-> r, size |-> size]
  IN  /\ phase[r] = "streaming"
      /\ messages' = Append(messages, reply)
      /\ log' = Append(log, reply)
      /\ phase' = [phase EXCEPT ![r] = "done"]
      /\ UNCHANGED <<compactionVars, prompt, summary, truncated>>

\* The client disconnects or the turn raises: there is no reply.
Fail(r) ==
  /\ phase[r] \in {"ready", "streaming"}
  /\ phase' = [phase EXCEPT ![r] = "failed"]
  /\ UNCHANGED <<messages, compactionVars, prompt, log, summary, truncated>>

Next ==
  \/ \E r \in Requests, size \in Sizes : Send(r, size)
  \/ \E r \in Requests, size \in SummarySizes : Summarized(r, size)
  \/ \E r \in Requests : Begin(r)
  \/ \E r \in Requests, size \in Sizes : Complete(r, size)
  \/ \E r \in Requests : Fail(r)

Spec == Init /\ [][Next]_vars

-----------------------------------------------------------------------------
\* What the list's summary message stands for, if it has one.
Recalled ==
  IF \E m \in Range(messages) : m.role = "summary" THEN summary ELSE {}

(***************************************************************************)
(* No message disappears unnoticed: each is in the list verbatim, or in    *)
(* what the list's summary was made from, through any number of summaries  *)
(* of summaries (spec-v2.md: the oldest messages are replaced by a         *)
(* summary, the recent ones kept verbatim), or it was due to be folded     *)
(* when a summary call failed.                                             *)
(***************************************************************************)
NothingLost == Range(log) \subseteq Range(messages) \cup Recalled \cup truncated

(***************************************************************************)
(* After at most one leading summary, the list is the end of the           *)
(* conversation as it happened: nothing is reordered or left out between.  *)
(***************************************************************************)
RecentVerbatim ==
  \E split \in 0..1 :
    /\ split <= Len(messages)
    /\ split = 1 => messages[1].role = "summary"
    /\ LET recent == SubSeq(messages, split + 1, Len(messages))
       IN  /\ Len(recent) <= Len(log)
           /\ recent = SubSeq(log, Len(log) - Len(recent) + 1, Len(log))

(***************************************************************************)
(* A turn sends the model the message of its own request, or the summary   *)
(* message, with whatever text, that its own compaction put in its place.  *)
(***************************************************************************)
PromptIsOwn ==
  \A r \in Requests :
    prompt[r] # NoPrompt =>
      /\ prompt[r].of = r
      /\ \/ prompt[r].role = "user"
         \/ prompt[r].role = "summary" /\ kept[r] = <<>> /\ Asks(r, folded[r])

(***************************************************************************)
(* Compaction keeps the latest message (compaction.py: "Keep at least the  *)
(* last message"; test_compaction.py: "The most recent message should be   *)
(* preserved") if it stays below 70% of the budget on its own, by a token  *)
(* for every message that is rounded.                                      *)
(***************************************************************************)
KeepsLast ==
  \A r \in Requests :
    LET latest == messages[Len(messages)].size
    IN  phase[r] = "summarizing" /\ 10 * (Estimate(<<latest>>) + Len(messages)) <= 7 * MaxTokens
          => kept[r] # <<>>

(***************************************************************************)
(* What compaction keeps is under 70% of the budget, although every        *)
(* message's tokens are rounded down on their own and the list's at once.  *)
(***************************************************************************)
RemainderFits ==
  \A r \in Requests :
    phase[r] = "summarizing" => 10 * Estimate(SizesOf(kept[r])) <= 7 * MaxTokens
=============================================================================

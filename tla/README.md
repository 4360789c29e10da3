# Claude Harness in TLA+

Specifications of the harness server (`src/*.py`), of its Firecracker microVMs and the
guest agent that serves calls in them, and of the clients `tui.py` and `cli.py`, model-checked with TLC, with theorems
checked by TLAPS. Paths below are relative to the repository; line numbers are those
of the commit the specifications were written from.

## 1. The system

| Component | Code | State | Operations |
|---|---|---|---|
| Container pool | `src/pool.py` | `_available` (FIFO of idle sandboxes), `_active` (container id → session id), the replenish task | start, replenish round, claim, adopt, release, shutdown |
| Sessions and endpoints | `src/sessions.py`, `src/api.py` | `sessions` (id → Session: container id, messages, permissions, summary) | create, reconnect, get, delete, send message, upload, download, list, resolve permission, lifespan |
| Sandbox backend | `src/backend.py`, `src/sandbox.py`, `src/firecracker.py` | Docker: none in the process. Firecracker: `_vms`, a process and a directory per VM | create, exec, copy, list, destroy, is_running, recyclable |
| Agent loop | `src/agent.py` | `_event_queue`, `_tool_results` and its lock, the position of the generator | run (a generator), one task per tool call |
| Permissions | `src/permissions.py` | three tool sets, `_pending` (request id → decision, event) | check, request_approval, resolve, wait_for_decision |
| Conversation, compaction | `src/api.py`, `src/compaction.py` | `messages`, `summary` of a session | append, compact across an await, prompt, reply |
| Vsock client, guest agent | `src/firecracker.py`, `guest-agent/src/main.rs` | a connection per request; commands running in the guest | connect, request with timeouts; read, dispatch, write |
| Snapshot baking | `firecracker/snapshot/bake-snapshot.py` | a Firecracker process being prepared | boot, wait for agent, pause, snapshot |
| Tools | `src/tools.py`, the quoting in `src/sandbox.py` and `guest-agent/src/main.rs` | none | read_file, write_file, bash_execute, grep_search |
| Clients | `tui.py`, `cli.py` | `session_id`, `container_id`, `_streaming`, the screen, worker threads (TUI); a process per command (CLI) | create, delete, send, stream, quit |

How they interact. One asyncio event loop runs the endpoints, the replenish task,
every turn's generator and every tool task. Handlers call the session manager, it
calls the pool, the pool calls the backend; all backend calls are synchronous and
hold up the loop. A turn runs for minutes: it captures the session object and its
container id (`src/api.py:115`), gives the SDK a set of tool callbacks, and yields
SSE events while the CLI, an external process, decides which tool to call. A tool
call that needs approval waits on an `asyncio.Event` which another request, the
client's answer, sets. Sandboxes live outside the process and survive it.

What is hard about it:

- *Ownership of sandboxes.* Two books (`_active`, `sessions`) and a queue say who
  has which container; create, reconnect, delete, replenish, shutdown, a crash and a
  dying sandbox change them. Exclusive use is a property of the combination.
- *State captured across suspensions.* The container id of a turn, the message
  list while a summary is made, the session during an upload.
- *A generator that is not always listening.* Buffers are drained only when the
  SDK delivers a message; a lock is held across yields; a request waits for an
  answer that can be late, doubled or missing.
- *Partial failure.* create, exec, destroy and the reset command fail one by one,
  and the code goes on.
- *Threads without locks.* The TUI's workers and its UI thread write the same three
  attributes; what the interface shows lags behind what was started.
- *Two notations.* Commands are quoted for a shell by two backends, in two ways.
- *Late effects.* A call into a VM that timed out on the host runs on in the guest.
- *Arithmetic.* The split of the history with rounded estimates.

## 2. Modules

| Module | Models | Correctness |
|---|---|---|
| `ContainerPool` | `ContainerPool` of `src/pool.py` over a backend, Docker (`Recyclable`) or Firecracker | operations, as actions; properties are stated where they are composed |
| `SessionManager` | `src/sessions.py`, the endpoints and lifespan of `src/api.py`, turns and uploads as users of a container | exclusive bindings, agreement of the books, no orphans, the size limit, what the reset isolates, refill, refinement of `SandboxLease` |
| `SandboxLease` | what sessions promise: exclusive leases, of single use unless the backend recycles | abstract specification |
| `PermissionManager` | `src/permissions.py` | operations |
| `AgentLoop` | `AgentLoop.run` and the tool tasks of `src/agent.py`, the approval endpoint; the CLI as environment | permissions, streaming, termination, no blocking |
| `Compaction` | the arithmetic of `src/compaction.py` | operators |
| `Conversation` | `send_message` of `src/api.py` with compaction, overlapping requests | nothing lost, order, prompts, budget |
| `VsockChannel` | `VsockClient` of `src/firecracker.py` and the guest agent `guest-agent/src/main.rs`, one call at a time over concurrent handlers | responses belong to requests, acknowledged writes stay, calls end |
| `FirecrackerBackend` | the rest of `src/firecracker.py` and `firecracker/snapshot/bake-snapshot.py`, composed with `VsockChannel` | nothing stray, ready when returned, refinement of `SandboxBackend` |
| `SandboxBackend` | the promise behind `src/backend.py`: create in one step, effects at most once, in a running sandbox, before success | abstract specification |
| `SessionService` | the session endpoints as a client program sees them, with lost responses; no idle timeout | operations |
| `CliClient` | `cli.py` | operations |
| `TuiClient` | `tui.py`, next to `CliClient` | no session forgotten, one stream, a truthful top bar, the prompt returns |
| `ToolCommands` | `src/tools.py` with the quoting of `DockerBackend.exec` and of the guest agent; a shell's lexer as environment | what arrives, which answers are true |
| `MCSessionManager`, `MCAgentLoop`, `MCFirecracker` | small instances for TLC | |
| `SessionManager_proofs`, `AgentLoop_proofs`, `VsockChannel_proofs`, `FirecrackerBackend_proofs`, `TuiClient_proofs`, `Conversation_proofs`, `ToolCommands_proofs` | | theorems, invariants, lemmas and proofs |
| `SequenceLemmas` | | induction and recursion over numbers and sequences, facts about sequences; used by the last two |

### ContainerPool and SessionManager

`available` and `active` are `_available` and `_active`; a missing key of the dict is
`NoSession`. `sessions` is the session table restricted to what the pool depends on,
the container id; `turn[s]` is the container id that a running turn or upload of the
session object `s` holds, which outlives the table's entry. `box` is the state of a
sandbox on the host: `unborn` (an id create() has not returned), `running`, `dead`,
`gone`, or `lost` (a VM whose backend object died with the server, so that
`is_running` denies it). `residue[c]` records which session left state in `c` and
of what kind (`ZoneKinds`), and `left` which existing sandboxes a step of the code gave up.

The reset of `release` is `rm -rf /workspace/* /workspace/.[!.]*` (`src/pool.py:63`). It
removes what these two patterns match (`globbed`) and nothing else: names that begin with
`..`, files outside `/workspace` and processes started in the background stay
(`Wiped`), and such a process goes on writing (`BackgroundWrite`, `ProcessWrites`), in the
turns of its session, after its deletion and in the next one's.

Atomicity: no method of the pool suspends except for `asyncio.sleep` in the replenish
loop and the await of its cancelled task in `shutdown`: `Queue.put` on an unbounded
queue does not. A handler that creates or deletes a session is therefore one step,
and so is a replenish round. Turns and uploads do suspend; they are three actions
(`BeginTurn`, `ToolCall`, `EndTurn`). A backend call inside a tool call is synchronous
and therefore atomic with it. Graceful shutdown is one step: uvicorn ends its requests
before the lifespan resumes, and the replenish task is only ever found asleep.

Refusals (404, 409, 503) leave the state alone and are stutters. `Faults` names the
failures of an instance: `create`, `exec` and `destroy` raise, `reset` (the reset
command exits non-zero or times out), `death` of a sandbox, `crash` of the server. On
Firecracker destroy cannot fail halfway: it ends in `kill()` and `rmtree` ignores
errors. `ClientsReconnect` and `DeleteDuringTurn` say what clients do; the code
permits both.

### PermissionManager and AgentLoop

A call stands for its approval's request id. `decision[c]` is set iff its event is.
The timer of `asyncio.wait_for` and the waiter's return are two steps (`TimerFires`,
`Wake`): the timer only cancels the wait, other callbacks run before the waiter does,
and the timeout wins over an answer that arrives in between. The generator `run()` goes from yield to
yield: `Receive`, `YieldEvent`, `YieldResult`, `Handle`. Whether another task
can run while it is suspended at a yield depends on the SSE response: `SlowClient`
says that sending an event may suspend (a full socket buffer). The lock is held
exactly while `pc = "results"`; a tool task that deposits then acquires a
`threading.Lock` held by its own thread, and `blocked` becomes true for good.
A call that is let through ends with a result in the buffer (`Deposit`) or with an
exception of `dispatch_tool` that leaves `_run_tool` before it (`Raise`); the CLI is told
of both.

The CLI (`Ask`, `Report`, `Conclude`, `Abort`) is external: it asks for sets of calls,
reports each when its task has ended, and ends the turn when none is open.
Text, tool_call and usage events change no state and are left out.

### Compaction and Conversation

A message is its role, its request and the length of its JSON text; `Estimate` is
`len(json.dumps(list)) // 4`, including the separators. `Targets` allows the two
integers that `int(max * 0.7)` can give in floating point. `Summarized` is the
return of the await in `compact_messages`. `summary` is the set of messages that the
text of `session.summary` was made from: those of the previous summary and the folded ones
(`NewSummary`), or, when the call failed, those of the previous summary alone
(`src/compaction.py:76-78`, "falling back to truncation"); what is dropped then is in
`truncated`. What the model keeps of what it is given, of each message the first 500
characters (line 58), is outside. `Begin` is
the generator's start, when `run()` takes the last message of the *current* list.
`Overlap` says whether a request may arrive while another is being answered; the
code does not prevent it.

### VsockChannel and FirecrackerBackend

The host makes one call at a time: `_run_async` makes the event loop wait for the
thread that makes it (`Free`). `stage` is where the last call is in `_request`, `calls`
the history with results; `ok` and `error` are answers, `timeout` and `broken`
(refused, reset, closed in mid-message) are not. `Connect` opens a connection per
request, `Handshake` is the device's `OK`, `Send` ends when `drain()` does: at once
if little of the request stays in the transport (`Buffered`), otherwise when the guest reads.
Of a `small` request nothing stays, of a `medium` one a part does, which is sent while the
guest reads (`unsent`, `Flush`), also after the client has closed.
`TimeOut` may come at any moment of the two waits that have a limit: clock values are
abstracted, so that every race between an answer and its timer is explored.
An answer, a failure or a timeout decides the call's result (`Decide`), but the caller has it
only after the finally clause (`src/firecracker.py:74-76`): `Close` waits, without a limit,
until nothing is unsent or the connection is lost. A handshake that times out is
before the `try`: nothing is closed.

On the guest a connection is a task that reads, handles and responds. It does not
notice that the host has closed, so a request that was sent is served although the
call is over (`ReadMessage` has no guard on `open`); only `Respond` fails. All writes,
by `write_file` or by the shell commands of `src/tools.py`, truncate and then fill;
an "exec" can fail between the two because `timeout` kills it, any write because the
disk is full. The file system is one file per VM, and `file[v].by` names the call that
last opened it: that is all the property about late writes distinguishes.

`FirecrackerBackend` has an action per stage of `create()`: directory, copy, process,
socket, load, registration, and the except block; `task` is the operation in progress.
`Restore` loads whatever files there are, as `_restore_snapshot` asks nothing about them;
if they are torn the guest may serve, hang, or the load be refused (`Resumed`,
`RestoreRaises`). `Register` puts the VM into `_vms` whatever became of it since.
`RestoreRaises` includes a load that was done but not answered in time. The two
failures before the `try`, the wait that raises in the except block (`AbortStuck`) and
a crash of the server leave things behind, and `NothingStray` names exactly these.
`guest`, `proc` and `dirs` are three states because they end at different times.
The bake runs concurrently, and again: it writes its two files in place (`BakeWrite`), and
until it ends (`BakeSave`), or for good if it fails there, they are `torn`. Of a whole
snapshot the model keeps whether its agent listened. That `rmtree`, which ignores errors,
removes a directory is assumed. `SandboxBackend` sees a guest
that was resumed as running, also while `create()` has not returned: an effect in
it is an effect. Its `Create`, `Stop` and effects are what `ContainerPool` takes for
single steps. A server restart is in `ContainerPool`; here the server that
follows a crash has an empty `_vms`.

### SessionService, CliClient and TuiClient

`live` is the server's table of sessions as its clients see it: POST and DELETE take
effect in one step (which `SessionManager` justifies), but the answer to a POST can be
late or lost, and a DELETE can fail. `left` records why a client gave a session up.
The reasons are the places where the clients accept it: an unanswered POST, a failed
DELETE (neither client repeats one), an error that ends `cli.py interactive` past its
DELETE, `cli.py create`, whose purpose it is, quitting the TUI while it creates a
session, a failed worker that ends the TUI, and two workers that overwrite each other's.

`cli.py` is one process at a time, `cli` its position. In `tui.py` a handler runs on the
UI thread to its end, but other threads run between any two of its statements: the
handlers that write what workers read are cut at each shared write (`DeleteReads`,
`DeleteClears`, `DeleteEnds`; `Quit`, `QuitEnds`), workers at each shared read or
write. `at[w]` is the statement a worker is at, `id[w]` its local id. `call_from_thread`
waits for the UI thread, so `Show`, `Report`, `Disable` and `Enable` need it free.
`Open` has three outcomes: the stream, a lost connection, which is reported, and, for a
session the server does not have, a 404, whose report reads the text of a response that was
not read (`tui.py:519`). That raises `ResponseNotRead` inside the except clause: the
finally block runs (`Clear`, `Enable`), then the worker fails and Textual ends the app
(`Fails`, a worker's `exit_on_error`), with no DELETE. The
top bar is written by one handler from one reading of the two ids; its step is whole.
`container` holds the session a container id was returned for.

`hasty` becomes true when the user starts something before the interface has shown the
last thing started (no refusal stops him then: `_streaming` is still false). Races
between workers are the code's answer to a hasty user; the properties say
that they do not happen to any other, whatever the threads' timing.

### ToolCommands

One call: command line, quoting, the shell that starts `timeout`, the command, the
answer. A text is a sequence over eight classes of characters, as many as the
two quotings and a POSIX shell tell apart; `Words` is that shell's lexer, reduced to
quotes, backslashes, blanks, operators and expansions. `Repr` is Python's `repr()` of a
string, which `DockerBackend.exec` uses as if it were a shell's notation; `ShellEscape`
is the guest agent's `shell_escape`. The programs' results are external (`Outcomes`).

## 3. What TLC checks

| Run | Instance | Shows |
|---|---|---|
| `pool_docker` | recycling; 4 ids, 3 sessions, pool 2..3; all faults but `reset`; no reconnects, no deletes under a turn; files the reset matches, background processes | bindings stay exclusive, the books agree, nothing is forgotten, the limit holds, the reset isolates what it matches but for background processes, `SandboxLease` is implemented |
| `pool_firecracker` | not recycling; reconnects, deletes under turns, files anywhere and background processes; `create`, `death`, `crash` | a turn that outlives its session meets nobody else's VM, no state at all passes between sessions, `SandboxLease` is implemented |
| `pool_docker_reconnect` | recycling with reconnects, no crash; `FairSpec` | the limit, and every shortage ends while the code's sum counts containers |
| `turn` | two calls to two tools, every policy, answers doubled, late or missing, tools that raise, aborts; `FairSpec` | permissions, `_pending`, streaming of all that was buffered, order, no blocking, termination, when the SSE send does not suspend |
| `conversation` | three turns, one at a time, messages of four sizes, one of them above the target alone, summary calls that fail | nothing lost but to a failed summary call, order, own prompts, latest message kept if it fits, remainder within the target |
| `firecracker` | one VM, two calls of four kinds, two bakes, every failure; `FairSpec` | strays only where named, VMs ready unless their snapshot was torn, own answers, no late acknowledged write, calls end unless a guest hangs before it has read, `SandboxBackend` is implemented |
| `tui` | two sessions, two workers, a CLI process, lost responses, failing DELETEs, workers that end the app; `FairSpec` | no session forgotten but for the reasons named, one stream, top bar, the prompt returns |
| `tools` | arguments of up to four characters of eight classes, four tools, both backends | exactly which commands and arguments arrive, which answers are true |
| `reconnect_binds_twice` | violation of `ExclusiveBinding` | finding 1 |
| `turn_outlives_session` | violation of `ResetIsolates` | finding 2 |
| `slow_client_blocks_loop` | violation of `LoopNeverBlocks` | finding 3 |
| `overlap_loses_message` | violation of `NothingLost` | finding 4 |

Bounds. Four container ids against a limit of three let a container be destroyed and
replaced while the pool is full; three sessions are one more than two conflicting
owners, so that a third party can return a container in between; a pool of 2..3 has
rounds of one and of two creations and a claim on demand. Container and session ids
are only compared, so the safety runs use symmetry; the run with a liveness
property does not. One turn has two calls: two tasks suffice for one to deposit while
the other's event is being sent. In `firecracker` VMs meet only in the backend's single
operation, so one VM shows what a VM does; two calls let one be abandoned and another
succeed beside its handler, and two bakes let the second tear the files of the first
while a VM is created (the theorems are for any number of each).
In `conversation` the budget is 80 tokens and the
target 55 or 56. One message size is the least there is (8 tokens), so that rounding shows;
two messages of the others (25, 33) stay within the target, pass it or pass the budget;
the fourth (59 tokens) lies between target and budget on its own, so that it is summarised
away when it is the latest. Races between workers
of the TUI are between two of them and the UI thread, over at most two sessions, of
which one may be the CLI's. Two characters are the longest pattern that either quoting or
the lexer reacts to; four, with the text around the argument, also show the mixtures
(a single quote, a double one and an expansion in one command). Deadlock checking
is off where the system may stop: ids, sessions or requests run out, a turn is over.

Fairness. `pool_docker_reconnect` assumes weak fairness of the replenish round, full or cut
short by a `create()` that raises, as long as it creates something: the task loops until
it is cancelled and catches every exception, and a backend that refuses for ever can
refill no pool. The round is enabled by the code's own sum of its queue and its dict
(`Total`), the shortage is counted in sandboxes; that the first lets every shortage
end is what `ShortageEnds` says. The two sums part when an idle container is adopted: it is
counted twice, and released it is queued twice. `Shortage` leaves these states
out (`IsInjective`, `Pooled \cap InUse`), since there the property is false: a second
consequence of finding 1. `turn` assumes that the event
loop runs ready tasks and timers and that the CLI calls its tools, reports and
concludes. Nothing is assumed of the client: it may never answer. `firecracker`
assumes that the thread of a call runs, that its timers fire and that its transport sends
what the guest takes (`ClientStep`), and nothing of the guest or the agent. `tui` assumes that threads run, that handlers of the UI thread end,
and that a request is answered or given up: ten seconds for all but the stream, whose
300 seconds are per read, but which ends because every turn does (`TurnEnds`, under its
own assumptions). Nothing is assumed of the user.

Each property of a passing run is broken by some plausible bug in the mapped code;
the definitions commented *Mutant of* next to the originals are those bugs, and
`PROJECT.json` says which property each must break.

## 4. What TLAPS proves

*The pool and the sessions* (`SessionManager_proofs`). For every set of containers and
sessions, every pool size and every set of faults, with the assumptions `PoolAssumption` and
`SessionAssumption` on the constants:

| Theorem | Hypothesis | Statement |
|---|---|---|
| `TypeCorrect` | | `Spec => []TypeOK` |
| `BooksKept` | `SafeDeployment` | `Spec => [](TypeOK /\ Bookkeeping)` |
| `Exclusive` | `SafeDeployment` | `Spec => []ExclusiveBinding` |
| `Leases` | `SafeDeployment` | `Spec => ImplementsLease` |
| `NothingForgotten` | | `Spec => []NoOrphans` |
| `TurnsKeptApart` | `SafeUse` | `Spec => [](TurnKeeps /\ TurnsApart)` |
| `Isolated` | `SafeUse`, `Recyclable => "reset" \notin Faults` | `Spec => []ResetIsolates` |
| `NothingLeaks` | `~Recyclable` | `Spec => []NoStateLeaks` |
| `Bounded` | `SafeDeployment`, `MinSize <= MaxSize` | `Spec => []WithinMaxSize` |

`SafeDeployment` is *the backend does not recycle, or no client reconnects*;
`SafeUse` adds, for a backend that recycles, that no session is deleted under its turn.
`Isolated` is about the files that the reset's patterns match, and excepts what
a background process of the other session wrote; about all other traces nothing holds on
Docker, and `NothingLeaks` everything on a backend that destroys.
The violation runs 1 and 2 show that the hypotheses are needed.

The argument. `ExclusiveBinding` is not inductive: a claim takes the head of the
queue, so the queue must hold no container that is in use, nor one twice
(`QueueOfIdle`); an on-demand container must be in no book (`UnbornUntouched`); a
release must remove the binding of the very session it is called for
(`BindingAgrees`); a start fills the queue of a server that holds nothing
(`DownIsEmpty`); and on Firecracker a reconnect is harmless because a VM that a
client has seen runs only while it is bound (`SingleUse`). Their conjunction,
`Bookkeeping`, is inductive; the step lemma has a case per action. The other theorems
add an invariant of their own on top of it: `TurnKeeps` (a turn's container is its
session's, as long as the session lives), `CleanKept` (a file the reset matches is found only
where its own session or turn still is, or a process of it), `TotalWithin` (the sum the code compares with
`max_size`). `NothingForgotten` needs only `DownIsEmpty`. The lemmas on heads, tails,
appends and concatenations carry the queue through the proofs.

*The turn* (`AgentLoop_proofs`). For every set of calls and tools and every policy, with
`PermissionAssumption` and `AgentAssumption`:

| Theorem | Hypothesis | Statement |
|---|---|---|
| `TurnTypeOK` | | `Spec => []TypeOK` |
| `OnlyPermittedCallsRun` | | `Spec => []RunsOnlyIfPermitted` |
| `RequestsPrecedeResults` | | `Spec => []RequestBeforeResult` |
| `CompletedTurnStreamsAll` | | `Spec => []TurnStreamsAll` |
| `PromptLoopNeverBlocks` | `~SlowClient` | `Spec => []LoopNeverBlocks` |
| `PromptPendingIffWaiting` | `~SlowClient` | `Spec => []PendingIffWaiting` |

The argument. A call that ran is over, and a request that is over is not in `_pending`,
so no later timeout can concern it (`PermissionInv`); with a blocked thread nothing
fires at all. For the stream, the two buffers together with what was sent cover every
call that got so far, a raised one with its request only, and while results are drained all their requests have been sent,
because the events were drained first and no task can add a result under the lock
(`StreamInv`). A turn that reaches its last message has a CLI that is done, which means
that every call was reported, so that no task is left to fill a buffer after its drain
(`EndInv`, `DoneMeansQuiet`). Three of the theorems hold for a slow client
too; the last two are what finding 3 takes away.

*The Firecracker backend* (`FirecrackerBackend_proofs`, on `VsockChannel_proofs`). For
every set of VMs, number of calls and bakes, set of requests and set of faults, with
`ChannelAssumption` and `BackendAssumption`:

| Theorem | Statement |
|---|---|
| `BackendTypeOK` | `Spec => []TypeOK` |
| `NothingLeftBehind` | `Spec => []NothingStray` |
| `VMsJoinReady` | `Spec => JoinsReady` |
| `NoCrossedAnswers` | `Spec => []AnswerIsOwn` |
| `WritesLast` | `Spec => []LastWriteStays` |
| `BackendImplemented` | `Spec => ImplementsBackend` |

The argument. `NothingStray` needs to know what exists at each stage of `create()`
(`TaskKnows`) and that an id not yet given out has nothing (`Unused`). `JoinsReady` is
about two steps: the registration, which finds a guest that was resumed, though perhaps no
longer alive (`GuestBegun`), and the restore. That a restore from whole files finds a
listening agent goes back to the bake's ping (`AgentHeard`: no stage after the ping, and no
whole snapshot, without an agent); of torn files nothing can be said, and the property
says nothing.
The client compares no ids, so `AnswerIsOwn` rests on connections: whatever waits in
the streams of connection k belongs to call k (`OwnConnections`), and a response that
waits was made by a handler that had returned (`AnswersReturned`), so that success
means an effect (`SuccessLanded`); a handler runs once because its request is sent once,
by `Send` or, the rest of it, by `Flush`, which may come after the call is decided and before
it is over (`RequestsFresh`). Together they are `ChannelInv`; `VsockChannel_proofs` shows that each
step of the client, the agent and the guest keeps it. `LastWriteStays` is not inductive,
as a write lands before it is acknowledged: `LandedStays` states it from the landing
on. A handler that opens the file afterwards is of a later call, or of an earlier one,
which is over, and was not acknowledged because it had not landed. For the refinement,
a guest exists exactly from its one restore on (`GuestBegun` again); then a restore is a
creation, the end of a process a stop, a handler's last step an effect, and what
decides a call a return.

*The clients* (`TuiClient_proofs`). For every set of sessions and of workers, with
`ServiceAssumption`:

| Theorem | Statement |
|---|---|
| `TuiTypeOK` | `Spec => []TypeOK` |
| `SessionsAccountedFor` | `Spec => []NoneForgotten` |
| `ResponsesDoNotOverlap` | `Spec => []OneStream` |
| `TopBarNeverLies` | `Spec => []TopBarTruthful` |

The argument. Each session on the server has a holder, a variable of a process or the
local id of a worker on its way to store or delete it, or was given up, at the latest by
the worker that ends the app (`Accounted`), and
workers overwrite each other's only under a hasty user (`RacedOnlyIfHasty`). Without
one, a single worker at a time is between its start and the interface's reaction, and it
creates only while there is no session (`OneUnseen`), a single one is on its way to the
end of a stream and has `_streaming` set from the moment the next could start
(`OneSending`), and the two ids and the top bar follow one another from statement to
statement (`BarFollows`). `StagesInv` says which worker can be at which statement.

*The conversation* (`Conversation_proofs`). For every set of requests, all sizes and every
budget, with `ConversationAssumption`:

| Theorem | Hypothesis | Statement |
|---|---|---|
| `ConversationTypeOK` | | `Spec => []TypeOK` |
| `MessagesKept` | `~Overlap` | `Spec => []NothingLost` |
| `RecentKept` | `~Overlap` | `Spec => []RecentVerbatim` |
| `PromptsAreOwn` | `~Overlap` | `Spec => []PromptIsOwn` |
| `LatestKept` | `~Overlap` | `Spec => []KeepsLast` |
| `RemainderWithinTarget` | `~Overlap`, `MaxTokens >= Estimate(<<Overhead>>)` | `Spec => []RemainderFits` |

The argument. The first four use one fact of the arithmetic: the loop gives up between
none and all of the messages (a set of indices has a least one). `ConversationInv`
follows a request's message: while the summary is made it is the last one kept, or
among the folded ones, which with the kept ones make up the list, and the summary to
incorporate is still the session's, so that what only it stands for goes into the
next one (`WhileSummarizing`); when the turn can start it is the last of the list, or the
summary is (`WhenReady`). A list that is the end of the log stays one under appending,
dropping from the front and prepending a summary (`Verbatim`). The hypothesis is what
finding 4 takes away.

The last two are about the arithmetic itself, for lists of any length. `running_tokens`
loses at least the estimate of the messages passed less three quarters of a token for each
(`RunningBounds`), and it never drops below what the rest is estimated at
(`RestBelowRunning`). So the latest message is given up only if it and the parts lost
by rounding exceed the target (`LastGivenUp`): the property's margin of a token per message
is what the proof needs. Conversely the loop must stop somewhere, or its `else` branch keeps a
message of any size (`RestFits`): for that the list must be short, compared with the budget,
and `ShortList` is that invariant, through the three messages a list can
gain between two looks at the budget: summary, reply, next message. It needs a budget that holds at
least a message without content (8 tokens; `src/config.py:20` has 100,000): with a budget of
0 or 1 the property is false.

*The tools* (`ToolCommands_proofs`). For arguments of every length (`MaxLen` only makes TLC's
instance finite), on both backends:

| Theorem | Statement |
|---|---|
| `CommandsArrive` | `Spec => []CommandArrives` |
| `ArgumentsArrive` | `Spec => []ArgumentArrives` |
| `AnswersTruthful` | `Spec => []AnswerTruthful` |

The argument. The properties are equivalences: they say exactly which texts arrive, so each
needs both directions for every text. A replacement character by character and a scan by a shell
commute with appending (`TranslatedAppend`, `ScannedAppend`), and whatever is stated of all
texts is an induction on the last character. `CommandsArrive`: inside quotes one word
grows (`Inside`), and what a replacement adds to it depends on the character alone
(`Yields`, `QuotedScan`). For `shell_escape` that is the character itself. For
`repr()` there are three cases (`ReceivedSingle`, `ReceivedDouble`, `ReceivedBoth`): in single
quotes the shell takes Python's escapes literally; in double quotes it undoes `\\` but
expands every `$`; with both quotes in the text the first escaped one ends the
quoting, and the quotes never match again. A text that holds a changed character is changed as a whole, as no
replacement makes up for it (`TranslationChanges`). `ArgumentsArrive` compares two readings
of a line: as long as all characters are ordinary, the word read is the argument so far (`Clean`);
after the first that is not, the scan has ended the word too early, holds a mark that is in no
argument, or is too short by what was swallowed, and no character can mend that (`Lost`,
`LostStays`). In a container both shells read the line, and a backslash is doubled by one and
halved by the other.

*Induction.* The library's induction theorems take an operator as a parameter, which these
provers cannot instantiate. `SequenceLemmas` states what is proved as the *set* of the
numbers, or of the sequences, that have the property, and derives induction for it
from the well-foundedness of `<` (a counterexample would have a least one: `LeastNumber`,
`NumberInduction`, `AppendInduction`). A recursive function is the solution of its
equations: there is one (`RecursionExists`), and no other (`StepsAgree`).

Model-checked only: the four liveness properties (`ShortageEnds`, `TurnEnds`, `CallEnds`,
`PromptReturns`), which need fairness and `ENABLED`. Every safety property and
every refinement that a passing run checks is also a theorem.

## 5. Findings

1. **Reconnect binds a container twice** (`src/pool.py:57`). `adopt` does not take the
   container out of `_available`. Create, delete, reconnect, create: two sessions.
2. **A turn outlives its session** (`src/api.py:115`). DELETE neither waits for nor
   cancels a running turn; on Docker its tool calls go on in a container that another
   session has claimed. `TurnsApart` fails with it.
3. **A slow client blocks the event loop** (`src/agent.py:133`). The generator yields
   with a `threading.Lock` held; a tool task that deposits its result then waits on
   its own thread.
4. **Overlapping requests lose a message** (`src/api.py:112`). The list is replaced
   with one made from a snapshot taken before the summary was awaited. (In the same
   configuration `PromptIsOwn` fails too: `src/agent.py:124` takes the last message of
   the list when the stream starts, whoever sent it.)

A second consequence of 1: the container that is queued and adopted counts twice in
`src/pool.py:29`, and once its second session is deleted it is queued twice. The
replenish task then sees a pool that is full when it is not, and the shortage stays
(`ShortageEnds` without the third and fourth conjunct of `Shortage` fails).

Further disagreements that have no run of their own.

*The turn.* A tool call whose dispatch raises (a dead container, `VM not found`, a
timeout of the vsock, an error of the guest agent; `src/agent.py:83`) leaves no
`tool_result`: lines 84-87 are skipped, the model is told of the error, the client
never is (`TurnStreamsAll` without `task[c] = "raised"` fails). When the summary call fails,
the messages it was to fold are dropped with it, and what stands in their place is the
summary before or a fixed text (`src/compaction.py:78`; `NothingLost` without `truncated`
fails). `_event_queue` is drained only when the SDK delivers a message
(`src/agent.py:128`), and while the only call waits for its approval there is none: the
client is told of the request after its timeout, although `.planning/spec-v2.md:63`
says "Server emits an SSE event" and `:73` "blocks [...] until the client responds"
(in `turn`, a step of `Timeout(c)` with `c \notin announced` while nothing but `Answer`
could happen). An approval that arrives between the timer and the waiter's return gets
200 and is overwritten with a denial (`src/permissions.py:55`; `TimerFires`, `Answer`,
`Wake`). An empty `allowed_tools` list allows everything (`src/permissions.py:23`). A
latest message above 70% of the budget is summarised away when the list is over it, and
the turn sends the model the summary in place of the user's message
(`src/compaction.py:44`: the `break` leaves nothing, and the `else` of line 47, "Keep at
least the last message", is not reached; in `conversation` `KeepsLast` without its
condition on the latest message fails, and so does `PromptIsOwn` without its second
case). The compacted history is never
given to the SDK client, which starts afresh every turn (`src/agent.py:127`).

*Sandboxes.* Three failures of `create()` leave a directory or a process
(`src/firecracker.py:141`, `:144`, `:174`). An upload to a guest that hangs holds up
the whole server for ever (`src/firecracker.py:64`), and so does any call of which a part
is unsent when its 60 seconds are over: `wait_closed()` (`:76`) has no limit, and a transport
does not close before it has sent what it holds (`CallEnds` without `Stuck`
fails). The snapshot's files are written in place and loaded unseen
(`firecracker/snapshot/bake-snapshot.py:188`, `src/firecracker.py:211`): a VM created while
a bake writes, or after one that failed between its two files, goes to the pool
whether it serves or not (`JoinsReady` without `snapshot.kind = "torn"` fails). The bake saves a memory that has its disk mounted read-write, deletes that disk
(`firecracker/snapshot/bake-snapshot.py:285`), and `create()` restores the memory on a
fresh copy of the image (`src/firecracker.py:141`), while the script's line 5 promises "a
full snapshot (memory + vmstate + disk)". `ping()` promises a bool and lets
`IncompleteReadError` through (`src/firecracker.py:82`; without a caller). After a bake
that failed between its two files `make` does not bake again (`firecracker/Makefile:38`).
The reset's return code is not looked at (`src/pool.py:63`; adding `"reset"` to `Faults`
of `pool_docker` breaks `ResetIsolates`). Names under `/workspace` that begin with `..`
match neither of the reset's two patterns, files outside are not in its reach, and
a process that a command left in the background goes on running and writing, although
`.planning/plan-v2.md:165` says cleanup "must not leave state that leaks between
sessions" (`NoStateLeaks` fails on a recycling backend with any of `"dotdot"`, `"outside"` and
`"process"` in `Zones`, and `ResetIsolates` without its last disjunct with `"process"`). After a crash, adopted
containers come on top of a new pool (`"crash"` in `pool_docker_reconnect` breaks
`WithinMaxSize`); deleting a session wipes the files that `.planning/spec-v2.md:23` says a
reconnect finds.

*Clients.* A session a client leaves behind lives for ever: `.planning/spec.md:32`
has "1 hour idle timeout", no code does (`left` in `tui`). A message to a session
that the server does not have, because its user deleted it while the message was under way,
another client did, or the server was started again, ends the TUI: the report of the 404 reads `e.response.text` of a stream that was
not read (`tui.py:519`), the exception passes `except Exception`, which belongs to the same
`try`, and the app exits without a DELETE of the session it may have by then, with a user
who waited for everything (`Fails`). Two messages sent quickly
both stream, in spite of "Wait for the current response to finish" (`tui.py:473`;
`OneStream` without `~hasty` fails), and the text of a message that is refused is gone
from the prompt (`tui.py:471`). The approve command shown for a request is made from the
session of that moment (`tui.py:290`). `cli.py` talks to port 8000 (`cli.py:10`), the TUI
to 8001.

*Tools.* On Docker `bash_execute` runs another command than the one given if it has a
line break, a backslash, or a single quote next to a double one or a `$`
(`src/sandbox.py:26`; `Plain` is the exact boundary), although `.planning/spec.md:23`
says "run any bash command"; and on both backends the command is run by `sh`. Paths and
patterns are words of a command line (`src/tools.py:7`, `:16`, `:35`). A search
that was killed is reported as "no matches" (`src/tools.py:41`), and so is one
whose matches are blank lines (`:43`); matches have no line numbers, which
`.planning/spec.md:24` promises and `rg` without `-n` prints only on a terminal.

## 6. Plan

Done: the pool and the sessions, the agent loop and permissions, the conversation with its
compaction, the Firecracker backend and the bake with its channel and guest, and the clients, all with
proofs, and the tools: what a passing run checks is proved for every instance, except for
liveness. Section 7 lists what stays outside.

Considered and left: `ContainerPool` as a user of `SandboxBackend`. The pool makes one
backend call at a time and waits for it, so the composition would show only that
its `box` follows `SandboxBackend`'s, step by step.

## 7. Not modelled

- The wording and layout of events, prompts and summaries; the SDK and the CLI beyond
  the messages `run()` depends on; the Docker daemon beyond success and failure.
- Containers that a failing `docker run` creates but does not start, and Docker's short ids
  and names, under which one container has several keys in `_active`.
- That a sandbox handed out by `claim` is alive: the code does not test it.
- Clock values of the vsock timeouts; what a running VM reads when a bake overwrites the
  memory file it has mapped; an `rmtree` that fails, whose errors
  `src/firecracker.py:175` and `:255` ignore; the agent's TCP fallback, which Linux does not build.
- The order of a `tool_result` and the `tool_call` it answers: no text promises one, and
  the two carry nothing to pair them by.
- The TUI's log, file chips and `_fetch_files`, which only read and display; the
  parsing of the SSE stream; a shell beyond its lexer.
- The tar archives of Docker's `copy_to` and `copy_from`; `list_files`.
- `src/config.py`, `src/main.py`: values of constants.
- Build scripts, images, the demo, the tests.

# A TLA+ verification of the Claude agent SDK for Rust

This directory holds a formal model of the crate, the model-checking runs over
it, and machine-checked proofs. Paths below are relative to the crate (`src/...`
is the crate's `src` directory).

## 1. The system

The crate has two halves that share little more than error and message types.

**The HTTP half** (`client/`, `transport.rs`, `streaming.rs`, `batch/`, `types/`)
builds requests of the Messages API and parses answers. It keeps no state between
calls. Its loops are the SSE line splitter and the polling of a batch.

**The agent half** (`agent.rs`, `agent_runtime.rs`, `extensions.rs`, `sessions/`)
drives a Claude Code process over an `AgentTransport`: newline-delimited JSON in
both directions, multiplexing the conversation, a bidirectional control protocol
and a mirror of the transcript. Its sessions are files that the CLI writes and
the crate reads and edits, or entries of a session store that the crate feeds.

```
   application                     tasks of the runtime                 outside
 ----------------        ----------------------------------------   -------------
 query / receive  <----  channel (100) <---- reader task  <-------- CLI process
        |                      ^                |  |  |                  ^
        |                      +- ceiling timer-+  |  +--> handler ------+
 control request --> pending --- resolved by ------+       tasks         |
        +----------------------- write ----------------------------------+
                                                   | enqueue
                              mirror batcher <-----+
                              eager / inline / final drains ----> SessionStore
```

### Components

| Component | State | Operations | Interacts with |
|---|---|---|---|
| Mirror batcher (`sessions/mirror.rs`) | pending buffer and its counters, flush lock | enqueue, flush, close | called by the reader, spawned eager tasks, `Runtime::close`; calls the store |
| Run tracker (`agent_runtime.rs`) | tasks in flight, session state, result/turn/ended flags, deadline | on_system_frame, on_result, on_turn_activity, on_ceiling | reader and ceiling timer, under one mutex |
| Message stream | bounded channel, wake-up of the timer | send of frames, markers and errors; receive, query | reader, timer, application |
| Control protocol | table of waiters, table of handler tasks | send_control_request, route, spawn handler, cancel, fail, close | callers, reader, handlers, CLI |
| Client lifecycle (`agent.rs`, `resume.rs`) | slot of the runtime, closed flag, shared transport, temporary resume tree | connect, close, drop | everything above |
| SDK MCP server (`agent.rs`) | table of calls in flight | initialize, list, call, cancelled | handler tasks |
| Frames and callbacks (`agent.rs`, `extensions.rs`) | ids of hook callbacks, the last error result | parse a frame, answer a hook, a permission, an MCP message | reader, handlers, application |
| Session store (`sessions/store.rs`, `summary.rs`) | transcripts, mtimes, summaries | append, load, list, delete | batcher, queries, resume, import |
| Store queries, import, resume (`sessions/`) | none of their own, but several steps | list, get, import, materialize | the store |
| Conversation chain and fork (`filesystem.rs`, `mutations.rs`) | none | build the chain, fork | transcripts |
| Sessions on disk (`filesystem.rs`, `mutations.rs`) | the files | find, list, rename, tag, delete, fork | the CLI, other processes |
| SSE stream, batches, client (`streaming.rs`, `batch/`, `client/`) | buffer and lines of a stream; a request builder | next, poll, every call of the API | the server, a custom transport |
| Wire types (`types/`) | none | serialize, deserialize | the client |

### What is hard, and what makes each component correct

* **Mirror.** A drain takes the whole buffer before it waits for the flush lock,
  three kinds of task run drains, an append can fail, time out and land later,
  and the reader with its drain can be aborted at any await. Correct means: no
  frame is forgotten or sent twice, appends of a file keep the order of the
  stream, a flush that returned leaves nothing behind that was enqueued before
  it, a call that may still land has no second call next to it, and every
  detached frame gets an outcome.
* **Run boundary.** A result ends a turn, not always the run. The CLI's state
  frames, delegated agents and a ceiling decide, and two tasks (reader, timer)
  both may end a run and send its marker. Correct means: the ceiling counts only
  in a gap between turns, every such gap is bounded, an expired deadline that was
  replaced is ignored, and a query returns, with the result that ended its run.
* **Control protocol.** A response may come before the write returns, during the
  timeout, after it, or not at all; handlers are spawned, cancelled and drained
  from different tasks. Correct means that the two tables are exact, that nobody
  who waits is left out by close, and that a cancelled handler stays silent.
* **Lifecycle.** connect can fail at each of its awaits or be dropped there;
  close runs in a task its caller may forget; a new session shares the transport
  of the old. Correct means that a temporary tree with credentials has an owner until
  connect hands it over (afterwards some failures leave it behind, section 6) and
  outlives the child that reads it, that a teardown comes to its end, and that it closes
  its own session.
* **MCP server.** A call and its cancellation are two tasks, and ids come again.
  Correct means that the table is exact and that a cancelled call ends.
* **Store.** Summaries are folded batch by batch, listings are made of several
  reads, sessions are imported in batches that may fail. Correct means that a
  summary says what the transcript says, that a listing shows nothing that never
  was, and that import and resume are inverse.
* **Conversation.** A transcript is a tree with parallel branches. Correct means
  that what is read from it is whole and in order, and that a fork reads the same.
* **Disk.** Several processes find, then change; the same session may be in several
  directories. Correct means that a deleted session stays away and that the title that
  was written is what lookups and listings show.
* **HTTP half.** The network cuts a stream anywhere; polls are dropped; setters of a
  message share fields and come in any order. Correct means that every item arrives once
  and in order, that a poll ends, and that the message on the wire has what the setters
  were given.

## 2. Modules

| Module | Models | Checked by |
|---|---|---|
| `MirrorBatcher` | the batcher, its drains, the reader as far as the mirror goes, both teardowns | `mirror`, `mirror_loss`; proofs in `MirrorBatcherProofs` |
| `RunTracker` | the transitions of `RunTracker`, as operators on a record | through `RunBoundary` |
| `RunBoundary` | reader, timer, channel, `receive`, `query`; extends `RunTracker` | `run_boundary`, `stream_end`; proofs in `RunBoundaryProofs` |
| `ControlProtocol` | outbound requests, inbound handlers, cancel, fail, close | `control`; proofs in `ControlProtocolProofs` |
| `ClientLifecycle` | connect, close, drop, reconnect, the temporary tree | `lifecycle`; proofs in `ClientLifecycleProofs` |
| `McpServer` | messages of an in-process MCP server, calls and cancellations | `mcp`; proofs in `McpServerProofs` |
| `Ordered` | what a loop picks from a list, in the order of a key | through `ConversationChain` and `SessionFiles` |
| `ConversationChain` | the conversation of a transcript, as operators; extends `Ordered` | `conversation`; proofs in `ConversationChainProofs` |
| `ForkTranscript` | the copy a fork makes; extends `ConversationChain` | `conversation`; proofs in `ConversationChainProofs` |
| `TranscriptInfo` | what a listing shows, by the fold and by head and tail | through the two below |
| `SessionStore` | the in-memory store as a value, keys, contracts; extends `TranscriptInfo` | through `StoreCalls` |
| `StoreQueries` | the pieces of store-backed queries; extends `SessionStore` | through `StoreCalls` |
| `StoreCalls` | listing, resume and import in steps, next to writers; extends `StoreQueries` | `store`; proofs in `StoreCallsProofs` |
| `SessionFiles` | sessions on disk; extends `TranscriptInfo` and `Ordered` | `files`; proofs in `SessionFilesProofs` |
| `WireTypes` | the JSON forms of the Messages API and what serde makes of a value | through the two below |
| `SseStream` | the stream of events; extends `WireTypes` | `api` |
| `EventStream` | abstract: what a stream promises | implemented by `SseStream` in `api` |
| `ApiClient` | builder, client, batches; extends `SseStream` | `api` |
| `AgentForms` | frames, hook inputs and outputs, permission updates; extends `WireTypes` | through `AgentFrames` |
| `AgentFrames` | what becomes of the CLI's frames and requests; extends `AgentForms` | `frames` |
| `MC...` | the instances for TLC | |

In each module the helpers come first, then one action per operation grouped by
the task that makes it, then the specification with its fairness, then the
properties. An operator whose comment starts with `MUTANT` is a plausible wrong
version of an operator that follows it and is used by no action: it documents
what a property is there to catch, and putting it in place of the right one
makes TLC find the violation (`PROJECT.json`, `mutants`). Variables called
history are read by properties and by no guard.

### How Tokio is modelled

* **Granularity.** An action is a stretch of code between two points at which
  another task could be observed to run: an await that may suspend, or the release
  of a lock.
* **Two schedulers.** `scheduler` is chosen initially among `Schedulers`. On a
  *multi-thread* runtime any two actions of different tasks interleave. On a
  *current-thread* runtime a task that does not have to wait goes on, so a
  few actions are merged (`Detach` with its request for the lock, `Offer` with the
  request for room) or are fenced off (`ReaderYields`, `MidPoll`, `Runs`). Several
  properties hold only there and say so. Tokio's cooperative budget may
  make a task yield at an await that is ready, once it used the budget up; this is
  not modelled.
* **Abort.** An aborted task is dropped at its next suspension point. With one
  thread that is where it is; with several it may go on for a while.
  Dropping a future drops what it owns: a batch, a place in the queue of a lock,
  the sender of a handler's gate, an append under way.
* **Tokio's mutex and channel are fair**: waiters are served in the order in which
  they asked. A channel is a sequence; an item beyond the capacity belongs to a
  sender that still waits. `Notify` is one permit.
* **Panics** are not modelled (the std mutexes recover from poisoning; a callback that
  panics ends its handler without an answer).

### MirrorBatcher

A frame is its position in the stream, so a set of frames is also a vector in
enqueue order. A *drain* is a task: number `f` is the eager drain that frame `f`
scheduled, `Reader` the reader's inline flush before a result, `ReaderClose` and
`RuntimeClose` the detached final flushes. `pc`, `batch`, `attempt`, `failed` are
the locals of a drain, `lock` the flush lock with its queue. `outcome` records
what became of each frame: `open` (nothing yet), `stored`, `skipped` (no entries, or
no session key), `failed` and then `reported`, or `lost` with an aborted reader.
Entries of a frame stay together, and their size is the length that
`json.dumps` gives a list of entries of equal length (`JsonLen`). `outstanding`
holds appends whose caller gave up: they may still land.

### RunTracker and RunBoundary

`RunTracker` has no state of its own: each transition takes the tracker and
returns the new one with the code's boolean, "the run just ended". Task frames
that are not of a deferring type, or not terminal, change nothing and count as
`other`. `running` stands for every state but `idle` and `requires_action`,
which the code treats alike. `RunBoundary` lets the CLI send any frame at any
time. `hand` holds what a sender has still to send; a marker carries the number
of results seen when the run ended, which the code does not have: only
properties look at it. `workedAt` and `gapStart` are history, too: when the CLI last
worked in a turn, and when the gap between turns last began or began again. A result's flush of the mirror comes before the tracker
update, which to this module looks like a frame that arrives later. A frame that
does not parse ends a query like an error (`TakeError`). Time advances only
while somebody has a deadline.

### ControlProtocol

`pending` and `inflight` are the two tables, `mailbox` what a waiter's oneshot
holds, `wire` the frames the reader has not read, `current` the frame it is in
the middle of. A handler goes through `gated`, `running` (the callback),
`writing`, `removing`, `done`. What a request asks for, and which callback serves
it, is left out: a callback returns at any time. A caller goes through `registered`,
`written` (the CLI has the frame, the write has not returned: the response may come, and
be routed, or the write may still fail) and `waiting`. After the transport closed
a write fails, and never reaches the CLI. Each inbound id is used once.

### ClientLifecycle

A session is the number of its connect. `slot` is the client's runtime, `child`
the session whose process the one transport runs, `call` the connect under way
(`load`, `write`, `rmtree` for the error path of the materialization, `spawn`,
`handshake`, and the roll-backs), `s[g].pc` how far `Runtime::close` is, and `by`
whether the detached task or a caller's future runs it. `s[g].tree` is the
temporary directory; `stuck` means that its removal was given up. While
`materialize_resume_session` runs a `TempTreeGuard` owns the tree; it hands it
over to connect (`made`), and that to the runtime. `CancelConnect` and `AbandonClose`
drop the future at any await. A reader whose runtime went away is detached and
goes on reading from the transport; it may take the next session's answer.

### McpServer

A handler of a message goes through the code of `handle`; a call registers its
number under the JSON-RPC id (the number is its generation), runs, and leaves.
`cancelled[t]` is the oneshot trigger, which is used by a cancellation or dropped by a call
that replaces the registration. When result and trigger are both ready
`select!` takes either. `Abort` drops the future with its guard.

### ConversationChain and ForkTranscript

The state is a transcript, to which `Write` appends entries behind their parents
and `WriteAgain` a batch that was written before. Everything the code computes from it is an operator: the
last-wins index, the walk from the newest leaf, the recovery of orphaned
parallel results (`Missed`, `Recovered`, `RecoverOrphans`), the messages of a session
with paging, and the fork. The walk, the responses recovered so far and the calls answered so
far are recursive functions, of the number of steps or of a place; what a loop picks from the
transcript is a set of places, put in order by its key (`InOrder`). The guard of `Write` is what
is assumed of the CLI: entries of one writer under each other, an answer to calls of one response,
which are the parent's own if that is an assistant entry and else, on the main chain, calls above
it. An entry is reduced to what these look at: type,
message id, ids of calls and results, source, writer (main chain or sidechain),
meta and team flags.

### TranscriptInfo, SessionStore, StoreQueries, StoreCalls

An entry is an object: a function on the keys it has. `FoldSummary` is the
incremental fold, which reads an entry by its keys. `LiteInfo` is what head and tail of a
transcript show; the 64 KiB windows are `Window` entries. It searches the text of the
lines, where a key may also stand in what is nested in the entry: `before` and `after` hold
the nested occurrences in front of the entry's own keys and behind them (`FirstIn`,
`LastIn`, `IsInText`). A line has its keys in sorted order, as serde_json without
`preserve_order` writes them, unless the CLI wrote it and put the type first (`typeFirst`);
only lines that begin with their type are found as tags (`BeginsWithType`). Lines are
compact JSON: the second pattern of the scan, with a space behind the colon, is left out. The store is a value, since one mutex guards it,
and each of its operations is an operator. `StoreCalls` has the calls that are
not atomic: `list_sessions_from_store` (listing, summaries, loads of gaps one by one),
the materialization for a resume (candidates, load, subkeys, each subkey's load)
and the import (file by file, batch by batch, each subagent's sidecar last). The sorted
candidates of a resume are the set of those not tried yet, of which the newest is next
(`IsNext`); rows of one time may come in either order. Between two steps a mirror appends and an application renames, tags or deletes; any
adapter call may fail.

### SessionFiles

A path is its sanitized name: a stem, or a stem of 200 characters and a hash.
`file` and `agents` are the disk, `ino` tells a re-created file from the one a
process has open. A call finds its file, then acts on it in the steps of the
code: open and append, remove the transcript and remove the directory of its
agents, read the source, create the fork and fill it. `Crash` ends a process
between any two.

### WireTypes, SseStream, EventStream, ApiClient

`Shape` describes each type by what serde requires, knows and flattens, and `Read`
gives what is left of a JSON value that went through it. A line of a stream is three parts
and a newline, and a chunk may end between any two, so a field name, a
character and a line can each be cut. `EventStream` is the promise: the items in
order, an error in place of what was not received, and the end. `SseStream`
implements it with `left` mapped to the items of what has not been yielded
(`Left`). `ApiClient` runs the setters of a builder, sends, and reads answers; a
custom transport implements some operations and refuses the others. `given` is the history
of the setters, with their arguments: `RequestArrives` compares it with the body that is
sent, by rules of its own (`HasAllGiven`).

### AgentForms and AgentFrames

Frames are read field by field, not by serde (`Pick`); hook inputs and outputs
by serde, so `Read` of `WireTypes` is used. `AgentFrames` lets the CLI send any
of a set of frames and requests, the application receive, callbacks return what they may, and the
process end in every way. A frame of the instance comes with the message it stands
for, written down independently of the parser.

## 3. Runs

| Run | Shows | Distinct states |
|---|---|---|
| `mirror` | the batcher's properties | 630,823 |
| `mirror_loss` | violated: close loses what the aborted reader had detached | |
| `run_boundary` | the tracker's, the timer's and the query's properties | 700,274 |
| `stream_end` | violated: the end of the stream with a session store | |
| `control` | the control protocol's properties | 2,418,001 |
| `lifecycle` | trees have an owner until they are handed over and outlive their child, teardowns end and close their own session | 39,316 |
| `mcp` | the table of calls is exact, a cancelled call ends | 1,028,330 |
| `conversation` | conversations are whole and in order, forks read the same | 135,238 |
| `store` | summaries, listings, resume, import and contracts under concurrent writers | 727,543 |
| `files` | deletions last, written titles are shown | 565,269 |
| `api` | a message has what its setters were given, streams implement `EventStream`, polls end | 39,942 |
| `frames` | frames surface, exits are explained, requests are answered | 893,316 |

**The two violated runs** check what a comment of the code says and the code does not
do; `PROJECT.json` quotes each (`findings`). `mirror_loss` needs a `Runtime::close`
in the middle of a flush. `stream_end` needs nothing but the end of the CLI's
output, with a session store.

### Bounds

* **`mirror`.** Two frames, two paths (one without a session key), zero or one
  entry, two attempts. With `MaxBytes = 11` a frame of one entry crosses the byte
  threshold and one without entries does not. Two frames with their two
  eager drains, the inline drain (reused by every result) and the two final ones give five
  drains that overlap: every pair of a batch detached and a lock not yet held. A third
  frame adds a longer queue for the lock and no new kind of step. Two attempts
  have a first, a last and a backoff in between.
* **`run_boundary`.** Four frames, one agent, one query, a channel of one
  item, a ceiling of one tick. Four frames are enough for a result, a state, an agent that starts
  and settles, and for a run that ends, reopens and ends again. Four are not
  enough for everything that could go wrong (section 6 has an example that needs five), but
  the safety properties are proved for any number. With a channel of one
  item every second send waits, so both senders are ever blocked. A ceiling of one
  tick expires, or is disarmed and armed again in the instant of its expiry.
* **`control`.** Two outbound requests and one inbound: enough for a
  response to one while the other registers, is written, times out or is failed, next to a
  handler in each of its states and its cancel. The CLI has one unread frame at a time
  (`MaxWire = 1`): the reader takes them one by one and anyone may step in between, so a longer
  pipe only delays. With `MaxWire = 2` the run takes twice as long and passes, too; the proofs
  are for any.
* **`lifecycle`.** Two sessions, so that each teardown meets a next session; one retry of
  the removal of a tree; one MCP server. A behaviour ends when both sessions are
  used up, so deadlock is not checked.
* **`mcp`.** Four messages over two ids: a call, its cancellation, a call that uses the id
  again and one that does not.
* **`conversation`.** Five entries with parents up to two back are the least in which two
  parallel calls, their results and a continuation make both recoveries happen; all
  transcripts of that size are checked. The bound ends a behaviour: no deadlock check.
* **`store`.** Two sessions, of which one has a subagent and is also on disk, three writes,
  one multi-step call, one failure. Batches are chosen so that every field of a
  summary is set, replaced and cleared; one quotes a title in the input of a tool. `Window = 4`
  holds what a transcript of these writes decides.
* **`files`.** One session and one fork of it, two processes with two calls in all, two writes
  of the CLI, of which one may only create the file, and four directories: the main one, two for
  the second worktree, whose stem is of full length, one with the right hash and one with
  another, and one for a third worktree. So a session may have a copy that a lookup finds and a listing
  does not read, next to one that it reads. The prompt nests a title that a renamed session must
  not show. The processes are symmetric, and the run has no liveness
  property.
* **`api`.** Two setters of any kind, in either order, on an empty draft and on one that has
  what `build` requires: each setter comes before and behind each other that shares a field with
  it. Two calls, one dropped poll. A day is 4 units, and the intervals are 0, 1, 2, 3 and 5: none, one that
  divides the day, one that does not, and one longer than the day.
* **`frames`.** Three frames, or a request and two frames, or two requests (`MaxTraffic = 4`
  counts a request twice). That is enough for an error result, something after it and the failure,
  and for two requests under way at the same time.

### Fairness

Each module states weak fairness next to its specification:

* Tasks of the runtime that can go on do (Tokio polls a woken task).
* An append ends by its timeout (`tokio::time::timeout` around it), a control
  request by its own, and time passes while a deadline is pending.
* A query is polled until it returns; permission, hook and tool callbacks return.
  (`McpServer` does not assume that a tool returns: `CancelSettles` is about one
  that may run for ever.)
* A close that has begun goes on, since the client runs it on a detached task;
  `ClientLifecycle` assumes it of that task only, and of the flush and the
  transport calls it makes, not of a caller's future.
* `ApiClient`: requests are answered or fail, and sleeps end. The client sets no
  read timeout, so a server that is silent for ever would hang a call; that is assumed away.
  A stream is polled again after a dropped poll.
* Not assumed: that the CLI sends anything, answers or ends, that the application
  receives, closes or connects, and, in `ControlProtocol`, that the reader comes
  back to read the next frame, since it may wait for an application that does not
  receive.

### Refinement

`DeliversEvents` is the specification of `EventStream` under a mapping: `state` is
`stream`, with `drained` (the body is read, items may be queued) seen as `open`, `got` the
items got, and `left` (operator `Left`) the items in the queued lines, the buffer and
the rest of the body, parsed as the kind of the stream parses them. TLC checks initial
states, steps and the liveness of `EventStream`. Streams of other kinds (typed, raw,
custom) and every way to cut the bytes implement the one specification.

## 4. Proofs

All theorems are for every value of the constants under the named assumptions
of the modules (`MirrorAssumption`, `BoundaryAssumption`, `ControlAssumption`, ...), which say no
more than the types of the parameters, that there is at least one attempt and room
for one message, that a special value is not a member of the set it marks the absence of, and,
in `CallsAssumption`, that keys have a project and a session, that batches and the lines of files
are sequences, and that the files to import are one session's: its main transcript and what is
under it in the directory of its subagents; only these have sidecars, and no line on disk is a
metadata entry (`import.rs:98` says so).
TLC checked each inductive invariant below on the instance of its component's run before it
was proved. In each module there is one lemma per action, or group of actions that leave the
same parts alone, and the temporal theorem combines them.

| Theorem | States | Module |
|---|---|---|
| `TypeCorrect` | `Spec => []TypeOK` | `MirrorBatcherProofs` |
| `NoFrameForgotten` | `Spec => []OneOwner` | `MirrorBatcherProofs` |
| `EagerDrainScheduled` | `Spec => []EagerScheduled` | `MirrorBatcherProofs` |
| `OneCallPerFrame` | `Spec => []NoConcurrentDuplicate` | `MirrorBatcherProofs` |
| `AppendsKeepOrder` | `Spec => []OrderedOnOneThread` | `MirrorBatcherProofs` |
| `FlushIsBarrier` | `Spec => FlushBarrier` (an action property) | `MirrorBatcherProofs` |
| `DeadlineInGap` | `Spec => []DeadlineOnlyInGap` | `RunBoundaryProofs` |
| `GapBounded` | `Spec => []GapHasDeadline` | `RunBoundaryProofs` |
| `CeilingCountsOnlyTheGap` | `Spec => CeilingCountsGap` (an action property) | `RunBoundaryProofs` |
| `QueryGetsRunEnding` | `Spec => []QueryReturnsRunEnding` | `RunBoundaryProofs` |
| `TablesExact` | `Spec => []TablesAgree` | `ControlProtocolProofs` |
| `AnswersArrive` | `Spec => []NoAnswerLost` | `ControlProtocolProofs` |
| `NobodyLeftBehind` | `Spec => []CloseSettles` | `ControlProtocolProofs` |
| `SilentAfterCancel` | `Spec => CancelSilences` (an action property) | `ControlProtocolProofs` |
| `TreeIsSafe` | `Spec => []TreeIsKept` | `ClientLifecycleProofs` |
| `ClosesItsOwnChild` | `Spec => NoForeignClose` (an action property) | `ClientLifecycleProofs` |
| `TableExact` | `Spec => []InFlightExact` | `McpServerProofs` |
| `DeletedStaysGone` | `Spec => []DeletedIsGone` | `SessionFilesProofs` |
| `WritesShow` | `Spec => []WritesAreShown` | `SessionFilesProofs` |
| `StoreConforms` | `Spec => []Conforms` | `StoreCallsProofs` |
| `SummariesFold` | `Spec => []SummariesCurrent` | `StoreCallsProofs` |
| `SummariesAgree` | `Spec => []SummariesMatch` | `StoreCallsProofs` |
| `ListsSinceEnumeration` | `Spec => []ListedSinceEnumeration` | `StoreCallsProofs` |
| `ContinuesNewest` | `Spec => []ResumesNewestConversation` | `StoreCallsProofs` |
| `ImportsResume` | `Spec => []ImportedSessionResumes` | `StoreCallsProofs` |
| `RecoveryInserts` | `Spec => []RecoveryFits` | `ConversationChainProofs` |
| `ResponsesWhole` | `Spec => []ResponseIsWhole` | `ConversationChainProofs` |
| `AnswersAreKept` | `Spec => []AnsweredCallsStayAnswered` | `ConversationChainProofs` |
| `ForkEnds` | `Spec => []ForkEndsAtMessage` (a part of `ForkIsFaithful`) | `ConversationChainProofs` |

None of the properties is inductive by itself. What each needs:

* **Mirror, ownership.** A drain may hand on only what it owns, which depends on where it is.
  `IInv` adds that what was enqueued is exactly what has an outcome (`FramesEnqueued`), that a
  drain owns frames only between its detach and its end, and works on a group only while it has
  one (`DrainShape`), that a failed frame waits in exactly one drain's report (`FailedOwner`),
  how the state of the reader and the teardown go with the state of their drains
  (`ControlShape`), and that the queue of the flush lock holds exactly the drains that are in
  it, once (`LockShape`).
* **Mirror, calls and order.** What an abandoned append may still write is settled
  (`SettledCalls`), and a drain appends only open frames, so the two never meet. The order on
  one thread needs that the queue of the lock is in the order of the frames the drains in it
  own, and behind all of them comes the buffer (`QueueInOrder`), and that of a path nothing that
  has not been called for is older than what was (`CallsInOrder`); together `ThreadInv`. The
  queue's order is also why a flush is a barrier: a drain gets the lock only behind every
  drain that detached earlier, also if its own batch is empty.
* **Tracker.** `DeadlineOnlyInGap` and `GapHasDeadline` speak of the tracker alone, so the lemmas
  go transition by transition, for any frame and any time; every action of the module then
  either applies one transition or leaves the tracker alone. `CeilingCountsGap` needs
  `GapInv`: the deadline, and the one the timer waits for, is at least a ceiling after the CLI
  last worked, and after the beginning of the gap if the CLI reports work; only the timer's
  own deadline ends a run in a step that is not the reader's (`OnlyTheTimer`).
* **Run endings.** `EndingInv` says of the channel, of what a sender still holds and of what the
  query holds, that every marker follows the result it is about with no other result in
  between (`MarkersFollow`, `LastResult`). Its lemmas say how that moves through `Append`,
  `Tail` and the split of what fits into the channel and what waits. It needs the shape of what
  two senders hold at the same time (`ShapeInv`), of which on one thread only one has items
  that end a run.
* **Control protocol.** `IInv` says of the CLI's frames which may be in the pipe (a request once
  and before its handler, a cancel behind its request: `WireInv`), what the reader has in its
  hands (`ReaderInv`), that a waiter is in exactly one of table, reader's hands, mailbox
  (`WaiterInv`), and what one thread excludes: a handler that runs before it is registered,
  a reader that is half through a frame when another task runs (`OneThreadInv`).
* **Lifecycle.** `IInv` says that sessions begin in order and nobody names one before
  (`BegunInv`), that connect has the client for itself (`ExclusiveInv`), that before the child
  is spawned there is no teardown (`SpawnInv`), whose child is behind the transport
  (`ChildInv`), and that a teardown removes the tree only behind the call of the transport's
  close (`TeardownInv`, `ClosedFirst`).
* **MCP server.** `IInv` has the table's three directions (what it holds, what it must hold, why
  somebody was told) as parts of their own, over all calls, also those that have not come.
* **Files.** A deleted session can only come back through a call that found the file before. So
  `IInv` says what a call holds at each of its steps, that the file it has open is older than
  any file made now (by inode), and that an append only goes to a file that is there. That
  lookups return a place where a file is needs that the search through directories returns one
  of the directories; which one plays no part.
* **Files, what is shown.** Here which one is the point. `ShownInv` says that a call alone with its
  session has found nothing in the places behind it (`Seeks`), so that what it finds is what a
  lookup finds (`FindIsFirst`), and that this stays so until it writes (`Opened`; `FindKept`: a lookup
  depends on the directories and on where the session is), that a fork is in one directory
  (`ForkOnce`), and that the file written last ends in the line and is newer than every other
  copy (`WrittenOK`). `Undisturbed` is what a step may do to a call of another process, and
  `WriteHarms` gives it for every step that writes one file. From there `LastShows` says that the
  tail and the head of a file that ends in a title show it, whatever else is in the file and
  whatever its entries nest (`TitleInText`), and `WrittenIsShown` that no other copy survives the listing.
* **Store, contracts.** The contracts quantify over a store's state, so `Conforms` follows from a
  state that is `WellFormed`: every key with data has a write time of its own, none later than the
  last one given out, the main transcripts that are there have the summaries, and each is the fold
  of the whole transcript with its write time. `AppendKeeps` and
  `DeleteKeeps` prove both at once, that the operation keeps this and keeps its contract.
  What they need of keys are facts about sequences: a main transcript's key is a pair, and a key
  under it is that pair and a subpath that is not empty (`UnderMain`).
* **Store, summaries.** `SummariesCurrent` is a part of `WellFormed`; what it takes is that a fold
  joins: to fold a batch onto the fold of what was there is to fold both in one go
  (`FoldJoined`). That is an induction over a recursive function. The library's induction theorems
  are out of the provers' reach, so it goes by the least length that fails: a set of naturals
  that is not empty has a least member (`Least`), a fold exists up to each length
  (`FoldExists`) and is the only one (`FoldIs`).
* **Store, parse.** `SummariesMatch` compares two algorithms. `Holds` says what the fold of the first
  entries of a transcript holds, field by field, as the first or the last value that is there
  (`IsFirst`, `IsLast`): the last title, prompt and branch, the
  first directory and time, the first prompt that is no command, else the first command
  (`HoldsMore` for one more entry, `FoldHolds` for all, again by a least counterexample). The parse
  searches forwards in the head and backwards in the tail for the first value present. In a window
  that has all of the transcript (`WindowHasAll`) these are the same values (`FirstOfIs`, `LastOfIs`,
  `FirstPromptIs`, `FirstTimestampIs`), so `SummaryIsParse`. It needs entries that are plain
  (`IsPlain`), no field that is there but empty and no key nested that is looked for: then the text
  of a line has what the entry has (`PlainText`, `PlainAsks`). The tag is not compared. Section 6
  says what happens otherwise.
* **Store, listing.** `ListInv` has one part per step of the call. Summaries that were read may
  be behind the store but not ahead of it, and one that has the store's time for its session is the
  fold of what the store holds (`Past`); it stays so because a write gives out a new time
  (`Later`, a part of `StoreMoves`). So the freshness check of the enumeration leaves only current
  ones, and each session has one slot, or nothing to show (`Slotted`). From there on the page
  shows what was seen since, latest first (`PageRows`), and without a limit misses no
  session that always had something to show (`PageWhole`); what others write only adds to what
  was seen (`SeenGrows`). `InOrderLists` proves, again by a least counterexample, that a
  finite set in an order without ties is the range of one sorted sequence.
* **Store, resume.** The property compares what a call returns with everything seen since it began.
  `SearchInv`: until the call ends, what the store holds was seen, and every listed session that
  is no candidate any more was seen empty, deleted or a sidechain. Since the newest candidate is
  next, this covers the newer ones of the session that is picked (`PickInv`), and what others write
  later only adds to what was seen (`WrittenStep`). `CallShape` says of the record of a call only
  which form it has and which rows and keys it may hold; the rest of it is in an arbitrary set.
* **Store, import.** `ImportInv` holds as long as nobody else writes to the session. The store then
  has nothing of it but its files, and of each what earlier tries stored and a first part of
  the whole, that is its lines and its sidecar (`FilesHeld`, `Ends`). While an import appends,
  the appends still to come cut the rest of the file under way into parts (`Feeds`; `ImportsFeed`: the
  batches of any size do), files to come are as the tries before left them, the others are whole
  (`Appending`). So after the last append all are whole. What a resume then gets is read key by key
  from a store in which the session does not change (`Resumed`), and the subkeys it lists are
  those of the files with a line or a sidecar (`SubkeysAre`). `EndsShows` closes the circle: the
  metadata of what is stored is the sidecar, since it comes last, and the rest ends with
  the lines (`TranscriptEnds`, by a least counterexample). An append or delete of another
  session leaves all of this alone (`AppendElsewhere`, `DeleteElsewhere`), because no key is under two
  sessions.
* **Conversation, the transcript.** Nothing is assumed of the tree but what `Write` keeps:
  `TranscriptInv` (`InOrderAlways`) says that an entry's uuid is the place where it was written
  first, behind its parent, so that entries with one uuid are one entry (`Dated`), that a result
  below an assistant entry answers only its calls (`OwnCalls`), and that the calls a result answers
  are of one response (`OneResponse`). From there the theorems are about what the operators
  compute, for any transcript.
* **Conversation, the operators.** A recursive function is met by a least counterexample, as in
  the store: the steps exist (`StepsExist`), hold what each step keeps (`Induct`), and so the walk is
  a path that meets no uuid twice (`PathGrows`, `WalkIs`, `MainWalkIs`). `RecoveredIs` says what the
  recovery holds of every response on the chain: what was missed of it given all that was seen by
  then, and that of two responses the later has seen what was put back of the earlier
  (`HoldsRecovered`). `MissedIs` says of each what it consists of: the blocks not seen, the
  response's own results, and strays that answer a call still open (`HoldsMissed`). `LaidOut` gives every
  entry of the conversation its origin, an entry of the chain or a place in what was put back
  behind one (`Layout`, by `Flattened`: what `FlattenSeq` computes). So no uuid is there twice
  (`NoUuidTwice`: within a list, between a list and the chain, between two lists), and the chain
  keeps its order (`Inserts`).
* **Conversation, results.** A result that was put back is of the response it stands behind and
  answers calls of that response alone (`AnswersItsResponse`, from `OneResponse`), whose last entry on
  the chain and whose recovered blocks are before it (`ResultsFollow`). That no call loses its answer
  goes by cases: the answer is on the chain, is put back here or with another response
  (`SeenIsThere`), or is a stray that was left out because another answers the call (`LeftOut`).
* **Conversation, a fork at a message.** What is cut behind the first entry of that uuid ends with
  the place where the message was first written, and everything before it is older (`CutIs`, from
  `Dated`: batches written twice only repeat what is older); so it is without the progress entries
  (`WrittenIs`). A walk goes back in time (`WalkGoesBack`), past whatever progress entries, so
  no parent that is rewired names the message (`ParentIsOlder`). Its copy is therefore a leaf, of the
  main chain, and the last entry of all (`ForkIs`), which `pick_best` takes
  (`EndIsLeaf`), whichever leaf it took of the source.

Only model-checked, and why:

* *Liveness*: `EventuallySettles`, `GapEnds`, `QuerySettles`, `HandlersAnswer`, `CloseFinishes`,
  `CancelSettles`, `PollEnds`. The prover does not prove liveness under fairness.
* *The refinement* `DeliversEvents`. It has a liveness part, and the step simulation is about a
  recursive reading of the bytes that are left, for sequences of any length (induction over
  data).
* *What rests on JSON values.* `FramesSurface`, `ExitExplained` and
  `AnswersMatch` are about the recursive reading of JSON values in `WireTypes`, `RECURSIVE` operators
  over a tree, and `RequestArrives` is stated in a module that extends it: no such module can hold
  a theorem.
* *Whole forks.* The other part of `ForkIsFaithful`, `ForkKeepsConversation`, compares the
  conversations of two transcripts, the source and its copy, and holds for the shapes of entries of the instance: the copy drops the team flag, so that
  with entries of a team the leaf of the fork may be another one.

The `TypeOK` of `MirrorBatcher` is proved (`TypeCorrect`); those of `RunBoundary`, `ControlProtocol` and
`ClientLifecycle` document the state and are a
part of their invariants. No run lists them.

## 5. Not modelled, and why

The components with status `not_modelled` or `partly` in `PROJECT.json` say why.

* External, and present only as what they may do to this code: the CLI, the
  transport, adapters of a session store, the HTTP library and the server, Tokio.
* No state and no decision: `models.rs`, `lib.rs`, the wording of errors, options that
  only become arguments of the CLI (sandbox, plugins, MCP configuration), ISO timestamps.
* Conversions no property depends on: `simple_hash` (only that two implementations may
  differ), `canonicalize_path`, the Unicode sanitizing of tags, copying and redacting
  credentials, byte reading.
* Wire types: explicit nulls of optional serde fields count as absent.
* `RunBoundary`: `mirror_error` frames on the message stream, two queries at a time.
* `MirrorBatcher`: the stop of the stream by a malformed frame as a case of its own (it ends the
  reader like an error).
* `ControlProtocol`: ids used twice, callbacks that panic. `AgentFrames` does not repeat
  cancellation, and leaves out the initialize request, the validation of options, the
  status of MCP servers, and outputs for events a matcher cannot subscribe to.
* `ConversationChain`: a main-chain entry below a sidechain, and repeats of single entries (whole
  batches do repeat). A cycle of parents cannot be written by the CLI and is left out.
* `StoreCalls`: `SummariesMatch` leaves out empty titles, prompts, branches and directories, nested
  keys and the tag (fold and lite parse differ there, see
  below); `fork_session_via_store` is an append; the refusal of file checkpointing.

## 6. Where code and documentation part

Besides the findings of the two violated runs, modelling showed these. They are
stated here for the reader of the code; no run is about them.

*Runtime.*
* A leftover deadline. A result arms the ceiling, an agent starts, the CLI reports `idle` (the
  agent keeps the run open and the deadline stays), the agent settles. `rearm_between_turns` does
  nothing unless the CLI reports work (`agent_runtime.rs:1087-1090`), so the deadline of the result
  is left, and the timer may end the run in the instant after the agent settled, although
  998-999 has "the wait between turns starts over now that it settled" and 1057-1059 "the ceiling
  starts over once it settles". A first version of `CeilingCountsGap` asked for a whole ceiling
  after the agent in every case: TLC found no error with four frames, the proof failed at this step,
  and with five frames TLC has the counterexample. The property now states what the code
  guarantees: no agent in flight, a whole ceiling since the CLI last worked in a turn, and
  since the gap began or an agent settled if the CLI still reports work.
* On a multi-thread runtime two drains can take the flush lock in the other order than
  they detached (`mirror.rs:223`, against 88-89 and 153). `OrderedOnOneThread` is
  therefore about one thread.
* The timer ends a run, then sends its marker; on several threads a result of a reopened
  run can come in between (`agent_runtime.rs:1154`, against 281-284).
* A clean end of the stream leaves callers of control requests to their timeouts
  (`agent_runtime.rs:506`, against 329-330).
* `transport.connect` that fails (`agent_runtime.rs:154`), a connect given up during it or during
  the handshake, a stale runtime that is replaced (`agent.rs:2677`) and the drop of a
  client leave the temporary tree, with its copy of the credentials, behind, although a failure
  "rolls back" (`agent.rs:2660-2664`). `TreeIsKept` says nothing of these trees; a replaced runtime's reader may take the next
  session's answer to initialize. A second close returns while the first still runs.
* With the permission prompt tool set to `stdio` by hand and no callback, a
  permission request gets an error as its answer.
* A permission suggestion of an unknown type, mode or behaviour is dropped, alone, and so is one
  with a rule that names no tool; a directory that is no string is left out of its list;
  fields of an update that its type does not use are dropped by `to_wire`.

*Sessions.*
* `list_sessions` matches directories by the full hashed name (`filesystem.rs`, around 853), so a
  directory with another hash that `find_project_dir` finds (162-166) is not listed; a name of
  exactly 200 characters matches directories of other projects; with one worktree
  only the own directory is listed, although a lookup falls back to worktrees.
* Listings keep the newest copy of a session, lookups take the first; `delete` removes the first.
  With three worktrees this shows: a session has a copy under another hash, which a lookup finds
  and a rename writes, and an older one in the directory of the third, which alone is
  listed; the listing keeps the old title. A first version of `WritesAreShown` asked for
  the new title of every listing that has the session, which held with two worktrees. The
  attempt to prove it led to the counterexample, and the property now speaks of
  listings that read the directory that was written, and says when they do.
* A crash inside `delete_session` leaves the agents' directory without a session;
  an append to a file that was unlinked meanwhile reports success; a crash inside a fork
  leaves an empty file, which lookups skip.
* A tag that the crate writes is not shown by a parse. The parse takes the last line of the tail that
  starts with `{"type":"tag"` (`filesystem.rs:547-551`). `tag_session` and
  `tag_session_via_store` write an object of `json!` (`mutations.rs:91-96`, `847-851`), whose keys
  serde_json without `preserve_order` (`Cargo.toml`) sorts, so that the line starts with
  `{"sessionId"`. For the same reason the hoist of `type` in `entries_to_jsonl`
  (`store_queries.rs:45-75`), on which the comment at 542-546 relies, has no effect. A tag of the CLI's
  own stays after the crate's clear, and in a store the fold shows the tag and the parse does not. So
  `SummariesMatch` and `WritesAreShown` say nothing of tags.
* The lite parse looks for its keys in the text of the lines (`filesystem.rs:209-258`), and so do the
  checks for a sidechain (506-513) and for what rules a prompt out (326-335). A title, branch,
  directory, prompt, timestamp or flag that is nested in a message or in the input of a tool counts like the
  entry's own: the comment at 542-546 knows this hazard and avoids it for tags only. The fold reads the
  keys of the entry itself, so the two differ on such transcripts, against
  `store_queries.rs:5-8`; and an occurrence with a space behind the colon wins over later ones without
  (232-256). `WritesAreShown` holds in spite of this, since what is written comes last.
* Empty `customTitle`, `lastPrompt` or `gitBranch` make the fold and the lite parse differ, and so
  does an empty first `cwd` (the fold takes the first that is not empty, `summary.rs:235`, the parse
  gives up at the first, `filesystem.rs:539`); the 64 KiB windows lose a title in the middle of a long transcript.
* In a listing from a store, a gap that loads to nothing still takes a place on its page;
  `append([])` creates a session and moves its mtime; a rename or tag of an unknown session creates it.
* An import after a failed import appends what is there again; a sidecar's own `type` is lost. Of an
  empty file without a sidecar nothing is appended, so that the store does not list it and a resume does
  not bring it back. The first `ImportedSessionResumes` asked for every file; the proof needed this
  case, and the instance now has such a file.
* A subagent's file with the name `..jsonl` is imported under the subpath `subagents/.`, which a resume
  refuses (`resume.rs:802-806`). `CallsAssumption` leaves it out.
* The fork's walk to a written parent has no set of seen entries (`mutations.rs:287`).
* A fork loses a result that hangs from a progress entry above its call, and a fork up to a
  message may end in siblings that were recovered.

*HTTP.*
* With an interval of more than a day `poll_until_complete` makes no poll and reports
  a timeout (`batch/mod.rs:251`, against 232); it makes no poll after its last sleep; one failing
  request ends it. Its doc (227) names the states Canceled and Expired, which
  `BatchStatus` has not.
* `results` skips lines that do not parse (doc 169-170: an error).
* `stream(true)` followed by `send` gets a stream for a body and an error; `system` followed by
  `system_with_cache` drops the plain prompt (`client/builder.rs:183-190`), which `RequestArrives` states as it is; a server tool with a description and a schema among
  its extra fields reads back as a custom tool.
* Blocks and deltas the typed stream does not know are errors in their place, and the stream goes on.

## 7. Plan

1. On which sets of shapes of entries a whole fork keeps the conversation
   (`ForkKeepsConversation`), as an assumption on `Shape`, and the proof from it.

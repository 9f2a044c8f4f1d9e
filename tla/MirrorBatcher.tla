---------------------------- MODULE MirrorBatcher ----------------------------
(***************************************************************************)
(* The transcript mirror of a session (sessions/mirror.rs), driven by the  *)
(* reader task and the teardown of the runtime (agent_runtime.rs).         *)
(*                                                                         *)
(* The reader peels transcript_mirror frames off the stream and enqueues   *)
(* them.  A drain detaches the whole pending buffer under a std mutex,     *)
(* waits for the flush lock, and appends what it detached to the session   *)
(* store: one append per file path, retried on an error, given up on a     *)
(* timeout.  Drains are started by an enqueue that exceeds a threshold     *)
(* (a spawned task), by the reader before it yields a result (inline), by  *)
(* the reader at the end of the stream and by Runtime::close (both on a    *)
(* detached task).                                                         *)
(*                                                                         *)
(* A frame is the position it has in the stream, so a set of frames is     *)
(* also a Vec of them in enqueue order.  The entries of a frame stay       *)
(* together.  A drain is a task; its program counter is where it may be    *)
(* suspended or, on a multi-thread runtime, preempted.                     *)
(***************************************************************************)
EXTENDS Naturals, Sequences

CONSTANTS
    Path,          \* the file paths frames carry
    Resolvable,    \* those under projects_dir, which have a session key
    EntryCounts,   \* how many entries a frame may carry
    EntryBytes,    \* the length of one entry as json.dumps writes it
    MaxFrames,     \* bound: frames the reader enqueues
    MaxEntries,    \* max_pending_entries
    MaxBytes,      \* max_pending_bytes
    MaxAttempts,   \* MIRROR_APPEND_MAX_ATTEMPTS
    Schedulers     \* the flavours of Tokio runtime considered

ASSUME MirrorAssumption ==
    /\ Resolvable \subseteq Path
    /\ EntryCounts \subseteq Nat
    /\ EntryBytes \in Nat
    /\ MaxFrames \in Nat
    /\ MaxEntries \in Nat
    /\ MaxBytes \in Nat
    /\ MaxAttempts \in Nat \ {0}
    /\ Schedulers \subseteq {"current_thread", "multi_thread"}

Frame == 1..MaxFrames

\* The drains.  The eager drain that frame f schedules is task f.
Reader == 0
ReaderClose == MaxFrames + 1
RuntimeClose == MaxFrames + 2
Task == 0..(MaxFrames + 2)

VARIABLES
    scheduler,    \* the flavour of the Tokio runtime
    frames,       \* the frames enqueued so far: their path and entry count
    pending,      \* Pending.items
    entries,      \* Pending.entries
    bytes,        \* Pending.bytes
    pc,           \* where each drain is
    batch,        \* the frames a drain detached and has not finished with
    attempt,      \* append attempts made for the current group of a drain
    failed,       \* the frames of the errors a drain has yet to report
    lock,         \* flush_lock: its holder, then its waiters
    reader,       \* the reader task
    closing,      \* the teardown of the runtime
    outcome,      \* what became of each frame
    mark,         \* history: frames enqueued when a running drain detached
    lastCalled,   \* history: the last frame handed to append, by path
    outstanding   \* appends whose caller gave up and which may still land

buffer == <<frames, pending, entries, bytes>>
drains == <<pc, batch, attempt, failed, lock, mark>>
store == <<lastCalled, outstanding>>
vars == <<scheduler, buffer, drains, reader, closing, outcome, store>>

PC == {"idle", "spawned", "detached", "queued", "flushing", "appending",
       "backoff", "done"}
Outcome == {"none", "open", "stored", "skipped", "failed", "reported", "lost"}

Init ==
    /\ scheduler \in Schedulers
    /\ frames = <<>>
    /\ pending = {} /\ entries = 0 /\ bytes = 0
    /\ pc = [t \in Task |-> "idle"]
    /\ batch = [t \in Task |-> {}]
    /\ attempt = [t \in Task |-> 0]
    /\ failed = [t \in Task |-> {}]
    /\ mark = [t \in Task |-> 0]
    /\ lock = <<>>
    /\ reader = "reading"
    /\ closing = "open"
    /\ outcome = [f \in Frame |-> "none"]
    /\ lastCalled = [p \in Path |-> 0]
    /\ outstanding = {}

-----------------------------------------------------------------------------
(* Helpers *)

First(fs) == CHOOSE f \in fs : \A g \in fs : f <= g
Last(fs) == CHOOSE f \in fs : \A g \in fs : g <= f

\* "[", the entries separated by ", ", "]".
JsonLen(n) == 2 + n * EntryBytes + (IF n = 0 THEN 0 ELSE 2 * (n - 1))

\* MUTANT: an enqueue looks at the number of entries only.
OverEntries(n, b) == n > MaxEntries

OverThreshold(n, b) == n > MaxEntries \/ b > MaxBytes

\* do_flush appends per path, in first-seen order: the group of a drain is
\* every frame it has left with the path of the first frame it has left.
GroupPath(t) == frames[First(batch[t])].path
Group(t) == {f \in batch[t] : frames[f].path = GroupPath(t)}
Appendable(t) ==
    /\ GroupPath(t) \in Resolvable
    /\ \E f \in Group(t) : frames[f].n > 0

\* Where a drain is in the queue of the lock.
InLock == {"queued", "flushing", "appending", "backoff"}

\* The queue of the lock when one of its tasks is gone.
Without(q, t) ==
    LET k == CHOOSE i \in 1..Len(q) : q[i] = t
    IN  [i \in 1..(Len(q) - 1) |-> IF i < k THEN q[i] ELSE q[i + 1]]

Settle(fs, o) == [f \in Frame |-> IF f \in fs THEN o ELSE outcome[f]]

\* The reader looks at the closed flag between two frames.
NextFrame == IF closing = "open" THEN "reading" ELSE "ending"

\* An aborted task is not polled again.  On a multi-thread runtime it may be
\* running when the abort comes, and goes on for a while (here: for as long as
\* it likes, more than the runtime lets it).
Alive(t) ==
    t = Reader => closing \in {"open", "closed"} \/ scheduler = "multi_thread"

\* The reader in the middle of a poll: on a current-thread runtime neither the
\* application nor an abort comes in before its next await.  (Drains touch only
\* the buffer and the lock, each in one step, so they may interleave here.)
MidPoll == pc[Reader] \in {"spawned", "flushing"}
ReaderYields == scheduler = "current_thread" => ~MidPoll

-----------------------------------------------------------------------------
(* The reader task *)

\* enqueue: the frame goes to the end of the buffer.
Push(p, n) ==
    /\ frames' = Append(frames, [path |-> p, n |-> n])
    /\ pending' = pending \union {Len(frames) + 1}
    /\ entries' = entries + n
    /\ bytes' = bytes + JsonLen(n)
    /\ outcome' = [outcome EXCEPT ![Len(frames) + 1] = "open"]

\* enqueue_mirror_frame: push, and schedule an eager flush past a threshold.
Enqueue(p, n) ==
    /\ reader = "reading" /\ Alive(Reader)
    /\ Len(frames) < MaxFrames
    /\ Push(p, n)
    /\ pc' = IF OverThreshold(entries + n, bytes + JsonLen(n))
               THEN [pc EXCEPT ![Len(frames) + 1] = "spawned"] ELSE pc
    /\ reader' = NextFrame
    /\ UNCHANGED <<scheduler, batch, attempt, failed, lock, mark, closing, store>>

\* track_error_result: a result frame flushes before it is yielded.
ReadResult ==
    /\ reader = "reading" /\ Alive(Reader)
    /\ reader' = "flushing"
    /\ pc' = [pc EXCEPT ![Reader] = "spawned"]
    /\ UNCHANGED <<scheduler, buffer, batch, attempt, failed, lock, mark,
                   closing, outcome, store>>

\* The flush returned: the result is yielded and the loop goes on.
YieldResult ==
    /\ reader = "flushing" /\ Alive(Reader)
    /\ pc[Reader] = "done"
    /\ pc' = [pc EXCEPT ![Reader] = "idle"]
    /\ reader' = NextFrame
    /\ UNCHANGED <<scheduler, buffer, batch, attempt, failed, lock, mark,
                   closing, outcome, store>>

\* End of stream, read error, malformed frame or closed flag: batcher.close()
\* runs the last flush of the reader on a task of its own.
EndOfStream ==
    /\ reader \in {"reading", "ending"} /\ Alive(Reader)
    /\ reader' = "closing"
    /\ pc' = [pc EXCEPT ![ReaderClose] = "spawned"]
    /\ UNCHANGED <<scheduler, buffer, batch, attempt, failed, lock, mark,
                   closing, outcome, store>>

ReaderEnds ==
    /\ reader = "closing" /\ Alive(Reader)
    /\ pc[ReaderClose] = "done"
    /\ reader' = "ended"
    /\ UNCHANGED <<scheduler, buffer, drains, closing, outcome, store>>

\* The runtime drops the future of an aborted reader.  What its drain had
\* detached goes with it, and the flush lock is released.
ReaderDies ==
    /\ closing \in {"aborted", "dropped"}
    /\ reader \notin {"ended", "aborted"}
    /\ ~MidPoll /\ pc[Reader] # "detached"
    /\ reader' = "aborted"
    /\ pc' = [pc EXCEPT ![Reader] = "idle"]
    /\ batch' = [batch EXCEPT ![Reader] = {}]
    /\ failed' = [failed EXCEPT ![Reader] = {}]
    /\ attempt' = [attempt EXCEPT ![Reader] = 0]
    /\ mark' = [mark EXCEPT ![Reader] = 0]
    /\ lock' = IF pc[Reader] \in InLock THEN Without(lock, Reader) ELSE lock
    /\ outcome' = Settle(batch[Reader] \union failed[Reader], "lost")
    /\ outstanding' = IF pc[Reader] = "appending"
                        THEN outstanding \union {Group(Reader)} ELSE outstanding
    /\ UNCHANGED <<scheduler, buffer, closing, lastCalled>>

-----------------------------------------------------------------------------
(* Teardown *)

\* Runtime::close sets the closed flag, and then cancels the handlers and
\* fails the waiters, which suspends.
BeginClose ==
    /\ closing = "open"
    /\ ReaderYields
    /\ closing' = "closed"
    /\ UNCHANGED <<scheduler, buffer, drains, reader, outcome, store>>

\* Runtime::close goes on: abort the reader, then the final mirror flush on a
\* detached task, which the caller of close cannot cancel.
AbortAndFlush ==
    /\ closing = "closed"
    /\ ReaderYields
    /\ closing' = "aborted"
    /\ pc' = [pc EXCEPT ![RuntimeClose] = "spawned"]
    /\ UNCHANGED <<scheduler, buffer, batch, attempt, failed, lock, mark,
                   reader, outcome, store>>

\* Drop of the client: abort_reader sets the flag, aborts, and flushes nothing.
DropClient ==
    /\ closing = "open"
    /\ ReaderYields
    /\ closing' = "dropped"
    /\ UNCHANGED <<scheduler, buffer, drains, reader, outcome, store>>

-----------------------------------------------------------------------------
(* A drain *)

\* The flush lock is a Tokio mutex: free, or its waiters are served in order.
AskForLock(t) ==
    /\ lock' = Append(lock, t)
    /\ pc' = [pc EXCEPT ![t] = IF lock = <<>> THEN "flushing" ELSE "queued"]

\* MUTANT: the buffer is read here and cleared by nobody.
DetachKeepsBuffer(t) ==
    /\ pc[t] = "spawned" /\ Alive(t)
    /\ batch' = [batch EXCEPT ![t] = pending]
    /\ mark' = [mark EXCEPT ![t] = Len(frames)]
    /\ AskForLock(t)
    /\ UNCHANGED <<scheduler, buffer, attempt, failed, reader, closing, outcome, store>>

\* MUTANT: an empty buffer returns before the lock is taken.
DetachEarlyReturn(t) ==
    /\ pc[t] = "spawned" /\ Alive(t)
    /\ batch' = [batch EXCEPT ![t] = pending]
    /\ pending' = {} /\ entries' = 0 /\ bytes' = 0
    /\ IF pending = {}
         THEN /\ pc' = [pc EXCEPT ![t] = "done"]
              /\ UNCHANGED <<lock, mark>>
         ELSE /\ mark' = [mark EXCEPT ![t] = Len(frames)]
              /\ AskForLock(t)
    /\ UNCHANGED <<scheduler, frames, attempt, failed, reader, closing, outcome, store>>

\* drain: take the pending buffer, then ask for the flush lock.  A task of a
\* current-thread runtime does both without another task in between.
Detach(t) ==
    /\ pc[t] = "spawned" /\ Alive(t)
    /\ batch' = [batch EXCEPT ![t] = pending]
    /\ pending' = {} /\ entries' = 0 /\ bytes' = 0
    /\ mark' = [mark EXCEPT ![t] = Len(frames)]
    /\ IF scheduler = "current_thread"
         THEN AskForLock(t)
         ELSE /\ pc' = [pc EXCEPT ![t] = "detached"]
              /\ UNCHANGED lock
    /\ UNCHANGED <<scheduler, frames, attempt, failed, reader, closing, outcome, store>>

RequestLock(t) ==
    /\ pc[t] = "detached" /\ Alive(t)
    /\ AskForLock(t)
    /\ UNCHANGED <<scheduler, buffer, batch, attempt, failed, mark, reader,
                   closing, outcome, store>>

\* The lock reaches a waiter.
Acquire(t) ==
    /\ pc[t] = "queued" /\ Head(lock) = t /\ Alive(t)
    /\ pc' = [pc EXCEPT ![t] = "flushing"]
    /\ UNCHANGED <<scheduler, buffer, batch, attempt, failed, lock, mark,
                   reader, closing, outcome, store>>

\* do_flush skips a path without entries, and drops one without a session key.
SkipGroup(t) ==
    /\ pc[t] = "flushing" /\ Alive(t)
    /\ batch[t] # {} /\ ~Appendable(t)
    /\ batch' = [batch EXCEPT ![t] = @ \ Group(t)]
    /\ outcome' = Settle(Group(t), "skipped")
    /\ UNCHANGED <<scheduler, buffer, pc, attempt, failed, lock, mark, reader,
                   closing, store>>

\* append_with_retry makes an attempt, after the backoff if it is not the first.
CallAppend(t) ==
    /\ Alive(t)
    /\ \/ pc[t] = "flushing" /\ batch[t] # {} /\ Appendable(t)
       \/ pc[t] = "backoff"
    /\ pc' = [pc EXCEPT ![t] = "appending"]
    /\ attempt' = [attempt EXCEPT ![t] = @ + 1]
    /\ lastCalled' = [lastCalled EXCEPT ![GroupPath(t)] = Last(Group(t))]
    /\ UNCHANGED <<scheduler, buffer, batch, failed, lock, mark, reader,
                   closing, outcome, outstanding>>

\* The current group of the drain is over, with an outcome.
GroupEnds(t, o) ==
    /\ pc' = [pc EXCEPT ![t] = "flushing"]
    /\ batch' = [batch EXCEPT ![t] = @ \ Group(t)]
    /\ attempt' = [attempt EXCEPT ![t] = 0]
    /\ outcome' = Settle(Group(t), o)

AppendOk(t) ==
    /\ pc[t] = "appending" /\ Alive(t)
    /\ GroupEnds(t, "stored")
    /\ UNCHANGED <<scheduler, buffer, failed, lock, mark, reader, closing, store>>

RetriesLeft(t) == attempt[t] < MaxAttempts

\* MUTANT: a group that failed for good goes back to the pending buffer.
AppendErrRequeues(t) ==
    /\ pc[t] = "appending" /\ Alive(t)
    /\ IF RetriesLeft(t)
         THEN /\ pc' = [pc EXCEPT ![t] = "backoff"]
              /\ UNCHANGED <<batch, attempt, pending>>
         ELSE /\ pc' = [pc EXCEPT ![t] = "flushing"]
              /\ batch' = [batch EXCEPT ![t] = @ \ Group(t)]
              /\ attempt' = [attempt EXCEPT ![t] = 0]
              /\ pending' = pending \union Group(t)
    /\ UNCHANGED <<scheduler, frames, entries, bytes, failed, lock, mark,
                   reader, closing, outcome, store>>

\* An attempt fails: try again, or give the group up and keep the error.
AppendErr(t) ==
    /\ pc[t] = "appending" /\ Alive(t)
    /\ IF RetriesLeft(t)
         THEN /\ pc' = [pc EXCEPT ![t] = "backoff"]
              /\ UNCHANGED <<batch, attempt, outcome, failed>>
         ELSE /\ GroupEnds(t, "failed")
              /\ failed' = [failed EXCEPT ![t] = @ \union Group(t)]
    /\ UNCHANGED <<scheduler, buffer, lock, mark, reader, closing, store>>

\* MUTANT: a timeout is retried like an error.
AppendTimeoutRetries(t) ==
    /\ pc[t] = "appending" /\ Alive(t)
    /\ IF RetriesLeft(t)
         THEN /\ pc' = [pc EXCEPT ![t] = "backoff"]
              /\ UNCHANGED <<batch, attempt, outcome, failed>>
         ELSE /\ GroupEnds(t, "failed")
              /\ failed' = [failed EXCEPT ![t] = @ \union Group(t)]
    /\ outstanding' = outstanding \union {Group(t)}
    /\ UNCHANGED <<scheduler, buffer, lock, mark, reader, closing, lastCalled>>

\* An attempt times out: no retry, since the call may still land.
AppendTimeout(t) ==
    /\ pc[t] = "appending" /\ Alive(t)
    /\ GroupEnds(t, "failed")
    /\ failed' = [failed EXCEPT ![t] = @ \union Group(t)]
    /\ outstanding' = outstanding \union {Group(t)}
    /\ UNCHANGED <<scheduler, buffer, lock, mark, reader, closing, lastCalled>>

\* The store: a call nobody waits for lands, or is given up.
LateAppend(g) ==
    /\ outstanding' = outstanding \ {g}
    /\ UNCHANGED <<scheduler, buffer, drains, reader, closing, outcome, lastCalled>>

\* MUTANT: a drain with errors to report keeps the lock.
FinishKeepsLock(t) ==
    /\ pc[t] = "flushing" /\ batch[t] = {} /\ Alive(t)
    /\ lock' = IF failed[t] = {} THEN Tail(lock) ELSE lock
    /\ outcome' = Settle(failed[t], "reported")
    /\ failed' = [failed EXCEPT ![t] = {}]
    /\ pc' = [pc EXCEPT ![t] = "done"]
    /\ mark' = [mark EXCEPT ![t] = 0]
    /\ UNCHANGED <<scheduler, buffer, batch, attempt, reader, closing, store>>

\* Nothing to append, or all of it dealt with: release the lock, then report
\* the errors, which does not suspend (on_error uses try_send).
Finish(t) ==
    /\ pc[t] = "flushing" /\ batch[t] = {} /\ Alive(t)
    /\ lock' = Tail(lock)
    /\ outcome' = Settle(failed[t], "reported")
    /\ failed' = [failed EXCEPT ![t] = {}]
    /\ pc' = [pc EXCEPT ![t] = "done"]
    /\ mark' = [mark EXCEPT ![t] = 0]
    /\ UNCHANGED <<scheduler, buffer, batch, attempt, reader, closing, store>>

Drain(t) ==
    \/ Detach(t) \/ RequestLock(t) \/ Acquire(t) \/ SkipGroup(t) \/ CallAppend(t)
    \/ AppendOk(t) \/ AppendErr(t) \/ AppendTimeout(t) \/ Finish(t)

-----------------------------------------------------------------------------
(* Specification *)

\* Everything is over: the client is gone and no task is left.
Finished ==
    /\ closing \in {"aborted", "dropped"}
    /\ reader \in {"ended", "aborted"}
    /\ \A t \in Task : pc[t] \in {"idle", "done"}
    /\ UNCHANGED vars

ReaderStep ==
    \/ \E p \in Path, n \in EntryCounts : Enqueue(p, n)
    \/ ReadResult \/ YieldResult \/ EndOfStream \/ ReaderEnds \/ ReaderDies

Next ==
    \/ ReaderStep
    \/ BeginClose \/ AbortAndFlush \/ DropClient
    \/ \E t \in Task : Drain(t)
    \/ \E g \in outstanding : LateAppend(g)
    \/ Finished

\* The runtime polls every task that can go on, an append ends by its timeout
\* at the latest, and a close that has begun goes on.  Nothing forces the CLI
\* to send a frame or the application to close.
Fairness ==
    /\ \A t \in Task : WF_vars(Drain(t))
    /\ WF_vars(YieldResult) /\ WF_vars(ReaderEnds) /\ WF_vars(ReaderDies)
    /\ WF_vars(AbortAndFlush)

Spec == Init /\ [][Next]_vars /\ Fairness

-----------------------------------------------------------------------------
(* Properties *)

\* The shape of the state.  A drain makes at most MaxAttempts attempts for a
\* group (append_with_retry), and the flush lock has no waiter twice.
TypeOK ==
    /\ scheduler \in Schedulers
    /\ frames \in Seq([path : Path, n : EntryCounts])
    /\ Len(frames) <= MaxFrames
    /\ pending \subseteq Frame
    /\ entries \in Nat /\ bytes \in Nat
    /\ pc \in [Task -> PC]
    /\ batch \in [Task -> SUBSET Frame]
    /\ attempt \in [Task -> 0..MaxAttempts]
    /\ failed \in [Task -> SUBSET Frame]
    /\ lock \in Seq(Task)
    /\ reader \in {"reading", "flushing", "ending", "closing", "ended", "aborted"}
    /\ closing \in {"open", "closed", "aborted", "dropped"}
    /\ outcome \in [Frame -> Outcome]
    /\ mark \in [Task -> 0..MaxFrames]
    /\ lastCalled \in [Path -> 0..MaxFrames]
    /\ outstanding \subseteq SUBSET Frame

\* No frame is forgotten and none is sent twice: a frame without an outcome
\* has exactly one owner, the pending buffer or one drain (drain takes the
\* buffer whole, do_flush hands each group on once).
OneOwner ==
    /\ pending = {f \in Frame : outcome[f] = "open"
                                  /\ \A t \in Task : f \notin batch[t]}
    /\ \A t \in Task : \A f \in batch[t] :
         /\ outcome[f] = "open"
         /\ \A u \in Task : f \in batch[u] => u = t

\* The buffer stays bounded: past a threshold there is always an eager drain
\* scheduled that has yet to detach (enqueue's return value and its caller).
EagerScheduled ==
    entries > MaxEntries \/ bytes > MaxBytes => \E t \in Frame : pc[t] = "spawned"

\* A frame no append was made for yet is later than every frame already handed
\* to append for its path: appends keep the enqueue order across drains.
AppendsInOrder ==
    \A f \in Frame :
        (/\ outcome[f] = "open"
         /\ \A t \in Task : f \in batch[t] => attempt[t] = 0)
          => f > lastCalled[frames[f].path]

\* On a current-thread runtime the appends keep the order.
OrderedOnOneThread == scheduler = "current_thread" => AppendsInOrder

\* On a current-thread runtime a flush returns with nothing left to append of
\* what was enqueued before it, be it in its own batch or in another drain's:
\* a result is yielded to a consumer that sees an up-to-date store.
EnqueuedBefore(t) == 1..(IF pc[t] = "spawned" THEN Len(frames) ELSE mark[t])
FlushBarrier ==
    [][\A t \in Task :
         scheduler = "current_thread" /\ pc[t] # "done" /\ pc'[t] = "done"
           => \A f \in EnqueuedBefore(t) : outcome'[f] # "open"]_vars

\* A call that may still land never has a second call for the same frames next
\* to it (append_with_retry does not retry a timeout).
NoConcurrentDuplicate ==
    \A t \in Task : \A g \in outstanding :
        pc[t] = "appending" => Group(t) \intersect g = {}

\* What a drain detached ends up stored, skipped, reported, or lost with an
\* aborted reader, whatever the store does; and once Runtime::close has started
\* its final flush, so does every frame still in the buffer (on a multi-thread
\* runtime the aborted reader may enqueue one behind that flush).
EventuallySettles ==
    \A f \in Frame :
        (/\ outcome[f] = "open"
         /\ \/ f \notin pending
            \/ closing = "aborted" /\ scheduler = "current_thread")
          ~> outcome[f] \in {"stored", "skipped", "reported", "lost"}

\* What the batcher's documentation promises: a batch is dropped only after its
\* final attempt fails, and then reported; and Runtime::close flushes what the
\* reader it aborted did not.
CloseLosesNothing == closing # "dropped" => \A f \in Frame : outcome[f] # "lost"
=============================================================================

------------------------- MODULE MirrorBatcherProofs -------------------------
(***************************************************************************)
(* Theorems about MirrorBatcher, for every set of paths, number of frames, *)
(* threshold, number of attempts and scheduler.                            *)
(***************************************************************************)
EXTENDS MirrorBatcher, WellFoundedInduction, TLAPS

-----------------------------------------------------------------------------
(* The first and the last frame of a set of frames *)

NatLess == {p \in Nat \X Nat : p[1] < p[2]}

\* A non-empty set of naturals has a least element.
LEMMA LeastExists ==
    ASSUME NEW S \in SUBSET Nat, S # {}
    PROVE  \E x \in S : \A y \in S : x <= y
<1>1. IsWellFoundedOn(NatLess, Nat)
  BY NatLessThanWellFounded DEF OpToRel, NatLess
<1>2. PICK x \in S : \A y \in S : ~ (<<y, x>> \in NatLess)
  BY <1>1, WFMin
<1>3. ASSUME NEW y \in S PROVE x <= y
  <2>1. x \in Nat /\ y \in Nat
    OBVIOUS
  <2>2. <<y, x>> \in Nat \X Nat /\ <<y, x>>[1] = y /\ <<y, x>>[2] = x
    BY <2>1
  <2>3. ~ (y < x)
    BY <1>2, <2>2 DEF NatLess
  <2>4. QED
    BY <2>1, <2>3
<1>4. QED
  BY <1>3

\* First and Last of a non-empty set of frames are its least and its greatest.
LEMMA FirstLast ==
    ASSUME NEW S \in SUBSET Frame, S # {}
    PROVE  /\ First(S) \in S /\ \A g \in S : First(S) <= g
           /\ Last(S) \in S /\ \A g \in S : g <= Last(S)
<1> USE MirrorAssumption DEF Frame
<1>1. S \in SUBSET Nat
  OBVIOUS
<1>2. \E x \in S : \A y \in S : x <= y
  BY <1>1, LeastExists
<1>3. \E x \in S : \A y \in S : y <= x
  <2> DEFINE U == {MaxFrames - y : y \in S}
  <2>1. U \in SUBSET Nat
    OBVIOUS
  <2>2. U # {}
    <3>1. PICK y \in S : TRUE
      OBVIOUS
    <3>2. MaxFrames - y \in U
      BY <3>1
    <3>3. QED
      BY <3>2
  <2>3. \E u \in U : \A v \in U : u <= v
    <3> HIDE DEF U
    <3> QED BY <2>1, <2>2, LeastExists
  <2>4. PICK x \in S : \A v \in U : MaxFrames - x <= v
    BY <2>3
  <2>5. \A y \in S : MaxFrames - x <= MaxFrames - y
    BY <2>4
  <2>6. \A y \in S : y <= x
    BY <2>5
  <2>7. QED
    BY <2>6
<1>4. QED
  BY <1>2, <1>3 DEF First, Last

\* The tasks are those of the frames and the three others, all different.
LEMMA TaskKinds ==
    /\ Frame \subseteq Task
    /\ Reader \in Task /\ ReaderClose \in Task /\ RuntimeClose \in Task
    /\ Reader \notin Frame /\ ReaderClose \notin Frame /\ RuntimeClose \notin Frame
    /\ Reader # ReaderClose /\ Reader # RuntimeClose /\ ReaderClose # RuntimeClose
BY MirrorAssumption DEF Frame, Task, Reader, ReaderClose, RuntimeClose

-----------------------------------------------------------------------------
(* The inductive invariant *)

\* The frames enqueued are those with an outcome, and a frame the reader has
\* not enqueued has not scheduled its eager drain.
FramesEnqueued ==
    \A f \in Frame :
        /\ outcome[f] = "none" <=> f > Len(frames)
        /\ f > Len(frames) => pc[f] = "idle"

\* What a drain holds, by where it is.
DrainShape ==
    \A t \in Task :
        /\ pc[t] \in {"idle", "spawned", "done"} => batch[t] = {} /\ failed[t] = {}
        /\ pc[t] \in {"appending", "backoff"} => batch[t] # {}
        /\ pc[t] = "backoff" => attempt[t] < MaxAttempts
        /\ pc[t] \notin {"appending", "backoff"} => attempt[t] = 0

\* An error not yet reported belongs to one drain.
FailedOwner ==
    \A t \in Task : \A f \in failed[t] :
        /\ outcome[f] = "failed"
        /\ \A u \in Task : f \in failed[u] => u = t

\* The tasks of the reader and of the teardown start from rest.
ControlShape ==
    /\ reader # "flushing" => pc[Reader] = "idle"
    /\ reader \in {"reading", "flushing", "ending"} => pc[ReaderClose] = "idle"
    /\ closing # "aborted" => pc[RuntimeClose] = "idle"

\* The queue of the lock holds each task that waits for it or has it, once; its
\* head has it.
LockShape ==
    /\ \A t \in Task : pc[t] \in InLock <=> \E i \in 1..Len(lock) : lock[i] = t
    /\ \A i, j \in 1..Len(lock) : lock[i] = lock[j] => i = j
    /\ \A t \in Task : pc[t] \in InLock \ {"queued"} => lock[1] = t

IInv ==
    /\ TypeOK /\ OneOwner
    /\ FramesEnqueued /\ DrainShape /\ FailedOwner /\ ControlShape /\ LockShape

-----------------------------------------------------------------------------
(* The initial states *)

LEMMA InitIInv == Init => IInv
<1> SUFFICES ASSUME Init PROVE IInv
  OBVIOUS
<1> USE MirrorAssumption DEF Init, Frame
<1>1. TypeOK
  BY DEF TypeOK, PC, Outcome, Task
<1>2. OneOwner
  BY DEF OneOwner
<1>3. FramesEnqueued /\ DrainShape /\ FailedOwner
  BY DEF FramesEnqueued, DrainShape, FailedOwner, Task, Reader
<1>4. ControlShape
  BY DEF ControlShape, Task, Reader, ReaderClose, RuntimeClose
<1>5. LockShape
  BY DEF LockShape, InLock
<1>6. QED
  BY <1>1, <1>2, <1>3, <1>4, <1>5 DEF IInv

-----------------------------------------------------------------------------
(* The queue of the flush lock *)

\* A step that leaves the queue alone, moves no task in or out of it and lets
\* only its head go on from waiting keeps its shape.
LEMMA LockUnchanged ==
    ASSUME LockShape, UNCHANGED lock,
           \A t \in Task : pc'[t] \in InLock <=> pc[t] \in InLock,
           \A t \in Task : pc'[t] \in InLock \ {"queued"}
                            => pc[t] \in InLock \ {"queued"} \/ lock[1] = t
    PROVE  LockShape'
BY DEF LockShape, InLock

\* A task that asks for the lock joins its queue.
LEMMA LockAsked ==
    ASSUME TypeOK, LockShape, NEW t \in Task, pc[t] \notin InLock, AskForLock(t)
    PROVE  LockShape' /\ lock' \in Seq(Task)
<1>1. /\ lock \in Seq(Task) /\ Len(lock) \in Nat /\ pc \in [Task -> PC]
      /\ lock' = Append(lock, t)
  BY DEF TypeOK, AskForLock
<1>2. /\ Len(lock') = Len(lock) + 1 /\ lock' \in Seq(Task)
      /\ \A i \in 1..Len(lock) : lock'[i] = lock[i]
      /\ lock'[Len(lock) + 1] = t
  BY <1>1
<1>3. \A i \in 1..Len(lock) : lock[i] # t
  BY <1>1 DEF LockShape
<1>4. /\ pc'[t] \in {"flushing", "queued"}
      /\ pc'[t] = "flushing" => Len(lock) = 0
      /\ \A u \in Task : u # t => pc'[u] = pc[u]
  BY <1>1 DEF AskForLock
<1>5. \A u \in Task : pc'[u] \in InLock <=> \E i \in 1..Len(lock') : lock'[i] = u
  <2>1. TAKE u \in Task
  <2>2. CASE u = t
    BY <2>2, <1>1, <1>2, <1>4 DEF InLock
  <2>3. CASE u # t
    <3>1. pc'[u] \in InLock <=> \E i \in 1..Len(lock) : lock[i] = u
      BY <2>3, <1>4 DEF LockShape
    <3>2. 1..Len(lock') = 1..Len(lock) \union {Len(lock) + 1}
      BY <1>1, <1>2
    <3>3. QED
      BY <2>3, <3>1, <3>2, <1>2
  <2>4. QED
    BY <2>2, <2>3
<1>6. \A i, j \in 1..Len(lock') : lock'[i] = lock'[j] => i = j
  <2>1. 1..Len(lock') = 1..Len(lock) \union {Len(lock) + 1}
    BY <1>1, <1>2
  <2>2. QED
    BY <2>1, <1>2, <1>3 DEF LockShape
<1>7. \A u \in Task : pc'[u] \in InLock \ {"queued"} => lock'[1] = u
  <2>1. TAKE u \in Task
  <2>2. HAVE pc'[u] \in InLock \ {"queued"}
  <2>3. CASE u = t
    BY <2>2, <2>3, <1>1, <1>2, <1>4
  <2>4. CASE u # t
    <3>1. pc[u] \in InLock \ {"queued"}
      BY <2>2, <2>4, <1>4
    <3>2. lock[1] = u /\ \E i \in 1..Len(lock) : lock[i] = u
      BY <3>1 DEF LockShape
    <3>3. QED
      BY <3>2, <1>1, <1>2
  <2>5. QED
    BY <2>3, <2>4
<1>8. QED
  BY <1>2, <1>5, <1>6, <1>7 DEF LockShape

\* The place of a task in the queue.
Place(t) == CHOOSE i \in 1..Len(lock) : lock[i] = t

LEMMA PlaceInQueue ==
    ASSUME LockShape, NEW t \in Task, pc[t] \in InLock
    PROVE  Place(t) \in 1..Len(lock) /\ lock[Place(t)] = t
BY DEF LockShape, Place

\* The queue q is what is left of the lock's when t is gone.
LeavesQueue(q, t) ==
    /\ q \in Seq(Task) /\ Len(q) = Len(lock) - 1
    /\ \A i \in 1..(Len(lock) - 1) :
         q[i] = IF i < Place(t) THEN lock[i] ELSE lock[i + 1]

\* Without takes a task out of the queue wherever it is in it.
LEMMA WithoutLeaves ==
    ASSUME TypeOK, LockShape, NEW t \in Task, pc[t] \in InLock
    PROVE  LeavesQueue(Without(lock, t), t)
<1>1. lock \in Seq(Task) /\ Len(lock) \in Nat
  BY DEF TypeOK
<1>2. Place(t) \in 1..Len(lock)
  BY PlaceInQueue
<1>3. Without(lock, t) = [i \in 1..(Len(lock) - 1) |->
                            IF i < Place(t) THEN lock[i] ELSE lock[i + 1]]
  BY DEF Without, Place
<1>4. \A i \in 1..(Len(lock) - 1) :
        (IF i < Place(t) THEN lock[i] ELSE lock[i + 1]) \in Task
  BY <1>1, <1>2
<1>5. Len(lock) - 1 \in Nat /\ Without(lock, t) \in [1..(Len(lock) - 1) -> Task]
  BY <1>1, <1>2, <1>3, <1>4
<1>6. Without(lock, t) \in Seq(Task) /\ Len(Without(lock, t)) = Len(lock) - 1
  BY <1>3, <1>5
<1>7. QED
  BY <1>3, <1>6 DEF LeavesQueue

\* Tail takes the holder out of the queue.
LEMMA TailLeaves ==
    ASSUME TypeOK, LockShape, NEW t \in Task, pc[t] \in InLock \ {"queued"}
    PROVE  LeavesQueue(Tail(lock), t)
<1>1. lock \in Seq(Task) /\ Len(lock) \in Nat /\ lock[1] = t
  BY DEF TypeOK, LockShape
<1>2. Place(t) \in 1..Len(lock) /\ lock[Place(t)] = t
  BY PlaceInQueue
<1>3. 1 \in 1..Len(lock) /\ lock # <<>>
  BY <1>1, <1>2
<1>4. Place(t) = 1
  BY <1>1, <1>2, <1>3 DEF LockShape
<1>5. /\ Tail(lock) \in Seq(Task) /\ Len(Tail(lock)) = Len(lock) - 1
      /\ \A i \in 1..(Len(lock) - 1) : Tail(lock)[i] = lock[i + 1]
  BY <1>1, <1>3
<1>6. \A i \in 1..(Len(lock) - 1) : ~ (i < Place(t))
  BY <1>1, <1>4
<1>7. QED
  BY <1>5, <1>6 DEF LeavesQueue

\* A task that leaves the queue, from wherever it is, leaves the others in order.
LEMMA LockLeft ==
    ASSUME TypeOK, LockShape, NEW t \in Task, pc[t] \in InLock,
           LeavesQueue(lock', t),
           pc'[t] \notin InLock, \A u \in Task : u # t => pc'[u] = pc[u]
    PROVE  LockShape' /\ lock' \in Seq(Task)
<1> DEFINE k == Place(t)
           n == Len(lock)
<1>1. lock \in Seq(Task) /\ n \in Nat
  BY DEF TypeOK
<1>2. k \in 1..n /\ lock[k] = t
  BY PlaceInQueue
<1>3. \A i \in 1..(n - 1) : lock'[i] = IF i < k THEN lock[i] ELSE lock[i + 1]
  BY DEF LeavesQueue
<1>6. lock' \in Seq(Task) /\ Len(lock') = n - 1
  BY DEF LeavesQueue
<1>a. n = Len(lock)
  OBVIOUS
<1> HIDE DEF k, n
<1>7. \A u \in Task : pc'[u] \in InLock <=> \E i \in 1..Len(lock') : lock'[i] = u
  <2>1. TAKE u \in Task
  <2>2. \A i \in 1..n : lock[i] = t => i = k
    BY <1>2, <1>a DEF LockShape
  <2>3. ASSUME NEW i \in 1..(n - 1) PROVE lock'[i] # t /\ \E j \in 1..n : lock[j] = lock'[i]
    BY <1>1, <1>2, <1>3, <1>a, <2>2
  <2>4. ASSUME NEW j \in 1..n, j # k PROVE \E i \in 1..(n - 1) : lock'[i] = lock[j]
    <3>1. CASE j < k
      <4>1. j \in 1..(n - 1) /\ lock'[j] = lock[j]
        BY <3>1, <1>1, <1>2, <1>3
      <4>2. QED
        BY <4>1
    <3>2. CASE k < j
      <4>1. j - 1 \in 1..(n - 1) /\ ~ (j - 1 < k) /\ (j - 1) + 1 = j
        BY <3>2, <1>1, <1>2
      <4>2. lock'[j - 1] = lock[j]
        BY <4>1, <1>3
      <4>3. QED
        BY <4>1, <4>2
    <3>3. QED
      BY <3>1, <3>2, <2>4, <1>1, <1>2
  <2>5. CASE u = t
    BY <2>3, <2>5, <1>6
  <2>6. CASE u # t
    <3>1. pc'[u] \in InLock <=> \E j \in 1..n : lock[j] = u
      BY <2>6, <1>a DEF LockShape
    <3>2. ASSUME NEW j \in 1..n, lock[j] = u PROVE \E i \in 1..(n - 1) : lock'[i] = u
      BY <3>2, <2>4, <2>6, <1>2
    <3>3. QED
      BY <3>1, <3>2, <2>3, <1>6
  <2>7. QED
    BY <2>5, <2>6
<1>8. \A i, j \in 1..Len(lock') : lock'[i] = lock'[j] => i = j
  <2>1. TAKE i, j \in 1..Len(lock')
  <2>2. HAVE lock'[i] = lock'[j]
  <2> DEFINE g(x) == IF x < k THEN x ELSE x + 1
  <2>3. g(i) \in 1..n /\ g(j) \in 1..n
    BY <1>1, <1>2, <1>6
  <2>4. lock'[i] = lock[g(i)] /\ lock'[j] = lock[g(j)]
    BY <1>3, <1>6
  <2>5. g(i) = g(j)
    <3> HIDE DEF g
    <3>1. \A x, y \in 1..n : lock[x] = lock[y] => x = y
      BY <1>a DEF LockShape
    <3>2. lock[g(i)] = lock[g(j)]
      BY <2>2, <2>4
    <3>3. QED
      BY <2>3, <3>1, <3>2
  <2>6. QED
    BY <2>5, <1>1, <1>2, <1>6
<1>9. \A u \in Task : pc'[u] \in InLock \ {"queued"} => lock'[1] = u
  <2>1. TAKE u \in Task
  <2>2. HAVE pc'[u] \in InLock \ {"queued"}
  <2>3. u # t /\ pc[u] \in InLock \ {"queued"}
    BY <2>2
  <2>4. lock[1] = u /\ k # 1
    BY <2>3, <1>2 DEF LockShape
  <2>5. 1 \in 1..(n - 1) /\ 1 < k
    BY <2>4, <1>1, <1>2
  <2>6. QED
    BY <2>4, <2>5, <1>3
<1>10. QED
  BY <1>6, <1>7, <1>8, <1>9 DEF LockShape

-----------------------------------------------------------------------------
(* The steps of the reader and of the teardown *)

LEMMA EnqueueStep ==
    ASSUME IInv, NEW p \in Path, NEW n \in EntryCounts, Enqueue(p, n)
    PROVE  IInv'
<1> USE MirrorAssumption DEF IInv, Enqueue, Push, Frame
<1>1. Len(frames) \in Nat /\ Len(frames) + 1 \in Frame /\ Len(frames') = Len(frames) + 1
  BY DEF TypeOK
<1>2. TypeOK'
  <2>1. frames' \in Seq([path : Path, n : EntryCounts])
    BY DEF TypeOK
  <2>2. entries' \in Nat /\ bytes' \in Nat
    <3>1. n \in Nat /\ EntryBytes \in Nat /\ n * EntryBytes \in Nat
      OBVIOUS
    <3>2. JsonLen(n) \in Nat
      BY <3>1 DEF JsonLen
    <3>3. QED
      BY <3>1, <3>2 DEF TypeOK
  <2>3. pc' \in [Task -> PC]
    BY <1>1 DEF TypeOK, PC, Task
  <2>4. pending' \subseteq Frame /\ outcome' \in [Frame -> Outcome]
    BY <1>1 DEF TypeOK, Outcome
  <2>5. Len(frames') <= MaxFrames /\ reader' \in {"reading", "ending"}
    BY <1>1 DEF NextFrame
  <2>6. QED
    BY <2>1, <2>2, <2>3, <2>4, <2>5 DEF TypeOK, store
<1>3. /\ pc[Len(frames) + 1] = "idle" /\ pc'[Len(frames) + 1] \in {"idle", "spawned"}
      /\ \A t \in Task : t # Len(frames) + 1 => pc'[t] = pc[t]
  <2>1. pc[Len(frames) + 1] = "idle"
    <3>1. Len(frames) + 1 > Len(frames)
      BY <1>1
    <3>2. QED
      BY <1>1, <3>1 DEF FramesEnqueued
  <2>2. Len(frames) + 1 \in Task
    BY <1>1, TaskKinds
  <2>3. pc \in [Task -> PC]
    BY DEF TypeOK
  <2>4. QED
    BY <2>1, <2>2, <2>3
<1>4. /\ outcome[Len(frames) + 1] = "none" /\ outcome'[Len(frames) + 1] = "open"
      /\ \A f \in Frame : f # Len(frames) + 1 => outcome'[f] = outcome[f]
  BY <1>1 DEF TypeOK, FramesEnqueued
<1>5. OneOwner'
  BY <1>1, <1>4 DEF TypeOK, OneOwner
<1>6. FramesEnqueued'
  BY <1>1, <1>3, <1>4, TaskKinds DEF FramesEnqueued
<1>7. DrainShape'
  BY <1>3 DEF DrainShape
<1>8. FailedOwner'
  BY <1>4 DEF FailedOwner, TypeOK
<1>9. ControlShape'
  BY <1>1, <1>3, TaskKinds DEF ControlShape, NextFrame
<1>10. LockShape'
  <2>1. \A t \in Task : pc'[t] \in InLock <=> pc[t] \in InLock
    BY <1>3 DEF InLock
  <2>2. QED
    BY <1>3, <2>1, LockUnchanged DEF InLock
<1>11. QED
  BY <1>2, <1>5, <1>6, <1>7, <1>8, <1>9, <1>10

\* A step that starts a drain at rest, or puts a finished one to rest, touches
\* nothing a drain owns.
LEMMA RestingTask ==
    ASSUME IInv, NEW t \in Task, NEW v \in {"idle", "spawned"},
           pc[t] \in {"idle", "done"}, pc' = [pc EXCEPT ![t] = v],
           t \notin Frame, TypeOK',
           UNCHANGED <<buffer, batch, attempt, failed, lock, mark, outcome, store>>
    PROVE  OneOwner' /\ FramesEnqueued' /\ DrainShape' /\ FailedOwner' /\ LockShape'
<1> USE DEF IInv, buffer, store
<1>1. /\ pc'[t] = v
      /\ \A u \in Task : u # t => pc'[u] = pc[u]
  BY DEF TypeOK
<1>2. OneOwner' /\ FailedOwner'
  BY DEF OneOwner, FailedOwner
<1>3. FramesEnqueued'
  BY <1>1, TaskKinds DEF FramesEnqueued
<1>4. DrainShape'
  BY <1>1 DEF DrainShape
<1>5. LockShape'
  <2>1. \A u \in Task : pc'[u] \in InLock <=> pc[u] \in InLock
    BY <1>1 DEF InLock
  <2>2. QED
    BY <1>1, <2>1, LockUnchanged DEF InLock
<1>6. QED
  BY <1>2, <1>3, <1>4, <1>5

LEMMA ReadResultStep == ASSUME IInv, ReadResult PROVE IInv'
<1> USE DEF IInv, ReadResult
<1>1. pc[Reader] = "idle" /\ Reader \in Task /\ Reader \notin Frame
  BY TaskKinds DEF ControlShape
<1>2. TypeOK'
  BY <1>1 DEF TypeOK, PC, buffer, store
<1>3. OneOwner' /\ FramesEnqueued' /\ DrainShape' /\ FailedOwner' /\ LockShape'
  BY <1>1, <1>2, RestingTask
<1>4. ControlShape'
  BY <1>1, TaskKinds DEF ControlShape, TypeOK
<1>5. QED
  BY <1>2, <1>3, <1>4

LEMMA YieldResultStep == ASSUME IInv, YieldResult PROVE IInv'
<1> USE DEF IInv, YieldResult
<1>1. pc[Reader] = "done" /\ Reader \in Task /\ Reader \notin Frame
  BY TaskKinds
<1>2. TypeOK'
  BY <1>1 DEF TypeOK, PC, buffer, store, NextFrame
<1>3. OneOwner' /\ FramesEnqueued' /\ DrainShape' /\ FailedOwner' /\ LockShape'
  BY <1>1, <1>2, RestingTask
<1>4. ControlShape'
  BY <1>1, TaskKinds DEF ControlShape, TypeOK, NextFrame
<1>5. QED
  BY <1>2, <1>3, <1>4

LEMMA EndOfStreamStep == ASSUME IInv, EndOfStream PROVE IInv'
<1> USE DEF IInv, EndOfStream
<1>1. pc[ReaderClose] = "idle" /\ ReaderClose \in Task /\ ReaderClose \notin Frame
  BY TaskKinds DEF ControlShape
<1>2. TypeOK'
  BY <1>1 DEF TypeOK, PC, buffer, store
<1>3. OneOwner' /\ FramesEnqueued' /\ DrainShape' /\ FailedOwner' /\ LockShape'
  BY <1>1, <1>2, RestingTask
<1>4. ControlShape'
  BY <1>1, TaskKinds DEF ControlShape, TypeOK
<1>5. QED
  BY <1>2, <1>3, <1>4

LEMMA AbortAndFlushStep == ASSUME IInv, AbortAndFlush PROVE IInv'
<1> USE DEF IInv, AbortAndFlush
<1>1. pc[RuntimeClose] = "idle" /\ RuntimeClose \in Task /\ RuntimeClose \notin Frame
  BY TaskKinds DEF ControlShape
<1>2. TypeOK'
  BY <1>1 DEF TypeOK, PC, buffer, store
<1>3. OneOwner' /\ FramesEnqueued' /\ DrainShape' /\ FailedOwner' /\ LockShape'
  BY <1>1, <1>2, RestingTask
<1>4. ControlShape'
  BY <1>1, TaskKinds DEF ControlShape, TypeOK
<1>5. QED
  BY <1>2, <1>3, <1>4

\* The steps that move only the reader or the teardown.
LEMMA ControlStep ==
    ASSUME IInv, ReaderEnds \/ BeginClose \/ DropClient PROVE IInv'
<1> USE DEF IInv, ReaderEnds, BeginClose, DropClient, buffer, drains, store
<1>1. TypeOK'
  BY DEF TypeOK
<1>2. ControlShape'
  BY DEF ControlShape
<1>3. OneOwner' /\ FramesEnqueued' /\ DrainShape' /\ FailedOwner'
  BY DEF OneOwner, FramesEnqueued, DrainShape, FailedOwner
<1>4. LockShape'
  BY DEF LockShape
<1>5. QED
  BY <1>1, <1>2, <1>3, <1>4

LEMMA LateAppendStep ==
    ASSUME IInv, NEW g \in outstanding, LateAppend(g) PROVE IInv'
<1> USE DEF IInv, LateAppend, buffer, drains, store
<1>1. TypeOK'
  BY DEF TypeOK
<1>2. OneOwner' /\ FramesEnqueued' /\ DrainShape' /\ FailedOwner' /\ ControlShape'
  BY DEF OneOwner, FramesEnqueued, DrainShape, FailedOwner, ControlShape
<1>3. LockShape'
  BY DEF LockShape
<1>4. QED
  BY <1>1, <1>2, <1>3

LEMMA StutterStep == ASSUME IInv, UNCHANGED vars PROVE IInv'
<1> USE DEF IInv, vars, buffer, drains, store
<1>1. TypeOK'
  BY DEF TypeOK
<1>2. OneOwner' /\ FramesEnqueued' /\ DrainShape' /\ FailedOwner' /\ ControlShape'
  BY DEF OneOwner, FramesEnqueued, DrainShape, FailedOwner, ControlShape
<1>3. LockShape'
  BY DEF LockShape
<1>4. QED
  BY <1>1, <1>2, <1>3

-----------------------------------------------------------------------------
(* The steps of a drain *)

\* The steps by which a drain takes the buffer, waits for the lock and calls
\* append leave the frames where a drain owns them.
LEMMA DetachStep == ASSUME IInv, NEW t \in Task, Detach(t) PROVE IInv'
<1> USE DEF IInv, Detach
<1>1. /\ pc[t] = "spawned" /\ batch[t] = {} /\ failed[t] = {} /\ attempt[t] = 0
      /\ pc[t] \notin InLock
  BY DEF DrainShape, InLock
<1>2. /\ pc'[t] \in {"flushing", "queued", "detached"}
      /\ pc' \in [Task -> PC]
      /\ \A u \in Task : u # t => pc'[u] = pc[u]
  BY DEF TypeOK, AskForLock, PC
<1>3. /\ batch'[t] = pending /\ \A u \in Task : u # t => batch'[u] = batch[u]
      /\ batch' \in [Task -> SUBSET Frame]
  BY DEF TypeOK
<1>4. LockShape' /\ lock' \in Seq(Task)
  <2>1. CASE scheduler = "current_thread"
    BY <1>1, <2>1, LockAsked
  <2>2. CASE scheduler # "current_thread"
    <3>1. \A u \in Task : pc'[u] = pc[u] \/ (u = t /\ pc'[u] = "detached")
      BY <2>2 DEF TypeOK
    <3>2. \A u \in Task : pc'[u] \in InLock <=> pc[u] \in InLock
      BY <3>1, <1>1 DEF InLock
    <3>3. \A u \in Task : pc'[u] \in InLock \ {"queued"} => pc[u] \in InLock \ {"queued"}
      BY <3>1 DEF InLock
    <3>4. UNCHANGED lock
      BY <2>2
    <3>5. LockShape'
      BY <3>2, <3>3, <3>4, LockUnchanged
    <3>6. QED
      BY <3>4, <3>5 DEF TypeOK
  <2>3. QED
    BY <2>1, <2>2
<1>5. TypeOK'
  <2>1. mark' \in [Task -> 0..MaxFrames]
    BY MirrorAssumption DEF TypeOK
  <2>2. QED
    BY <1>2, <1>3, <1>4, <2>1 DEF TypeOK, store
<1>6. OneOwner'
  BY <1>1, <1>3 DEF OneOwner, TypeOK
<1>7. FramesEnqueued'
  BY <1>1, <1>2, TaskKinds DEF FramesEnqueued
<1>8. DrainShape'
  BY <1>1, <1>2, <1>3 DEF DrainShape
<1>9. FailedOwner'
  BY DEF FailedOwner
<1>10. ControlShape'
  BY <1>1, <1>2, TaskKinds DEF ControlShape
<1>11. QED
  BY <1>4, <1>5, <1>6, <1>7, <1>8, <1>9, <1>10

LEMMA RequestLockStep == ASSUME IInv, NEW t \in Task, RequestLock(t) PROVE IInv'
<1> USE DEF IInv, RequestLock, buffer, store
<1>1. pc[t] = "detached" /\ pc[t] \notin InLock /\ attempt[t] = 0
  BY DEF InLock, DrainShape
<1>2. /\ pc'[t] \in {"flushing", "queued"}
      /\ pc' \in [Task -> PC]
      /\ \A u \in Task : u # t => pc'[u] = pc[u]
  BY DEF TypeOK, AskForLock, PC
<1>3. LockShape' /\ lock' \in Seq(Task)
  BY <1>1, LockAsked
<1>4. TypeOK'
  BY <1>2, <1>3 DEF TypeOK
<1>5. OneOwner' /\ FailedOwner'
  BY DEF OneOwner, FailedOwner
<1>6. FramesEnqueued'
  BY <1>1, <1>2, TaskKinds DEF FramesEnqueued
<1>7. DrainShape'
  BY <1>1, <1>2 DEF DrainShape
<1>8. ControlShape'
  BY <1>1, <1>2, TaskKinds DEF ControlShape
<1>9. QED
  BY <1>3, <1>4, <1>5, <1>6, <1>7, <1>8

\* Past the queue a drain stays in it until it finishes: what such a step does
\* to the lock and to the tasks at rest is the same for all of them.
LEMMA HolderStep ==
    ASSUME IInv, NEW t \in Task, pc' \in [Task -> PC],
           \A u \in Task : u # t => pc'[u] = pc[u],
           pc[t] \in InLock, pc'[t] \in InLock,
           pc[t] = "queued" => Head(lock) = t,
           UNCHANGED <<frames, lock, reader, closing>>,
           \A f \in Frame : outcome[f] = "none" <=> outcome'[f] = "none"
    PROVE  FramesEnqueued' /\ ControlShape' /\ LockShape'
<1> USE DEF IInv
<1>1. FramesEnqueued'
  BY TaskKinds DEF FramesEnqueued, InLock
<1>2. ControlShape'
  BY TaskKinds DEF ControlShape, InLock
<1>3. LockShape'
  <2>1. lock[1] = t
    <3>1. \E i \in 1..Len(lock) : lock[i] = t
      BY DEF LockShape
    <3>2. lock \in Seq(Task) /\ lock # <<>>
      BY <3>1 DEF TypeOK
    <3>3. Head(lock) = lock[1]
      BY <3>2
    <3>4. QED
      BY <3>3 DEF LockShape
  <2>2. QED
    BY <2>1, LockUnchanged
<1>4. QED
  BY <1>1, <1>2, <1>3

LEMMA AcquireStep == ASSUME IInv, NEW t \in Task, Acquire(t) PROVE IInv'
<1> USE DEF IInv, Acquire, buffer, store
<1>1. /\ pc' \in [Task -> PC] /\ pc'[t] = "flushing" /\ pc[t] = "queued"
      /\ \A u \in Task : u # t => pc'[u] = pc[u]
  BY DEF TypeOK, PC
<1>2. FramesEnqueued' /\ ControlShape' /\ LockShape'
  BY <1>1, HolderStep DEF InLock
<1>3. TypeOK'
  BY <1>1 DEF TypeOK
<1>4. OneOwner' /\ FailedOwner'
  BY DEF OneOwner, FailedOwner
<1>5. DrainShape'
  BY <1>1 DEF DrainShape
<1>6. QED
  BY <1>2, <1>3, <1>4, <1>5

\* The group of a drain is part of its batch, and not empty.
LEMMA GroupOfBatch ==
    ASSUME TypeOK, NEW t \in Task, batch[t] # {}
    PROVE  /\ Group(t) \subseteq batch[t] /\ Group(t) # {} /\ Group(t) \in SUBSET Frame
           /\ First(batch[t]) \in batch[t]
<1>1. batch[t] \in SUBSET Frame
  BY DEF TypeOK
<1>2. First(batch[t]) \in batch[t]
  BY <1>1, FirstLast
<1>3. First(batch[t]) \in Group(t)
  BY <1>2 DEF Group, GroupPath
<1>4. QED
  BY <1>1, <1>2, <1>3 DEF Group

LEMMA CallAppendStep == ASSUME IInv, NEW t \in Task, CallAppend(t) PROVE IInv'
<1> USE DEF IInv, CallAppend, buffer, store
<1>1. batch[t] # {} /\ pc[t] \in {"flushing", "backoff"} /\ attempt[t] < MaxAttempts
  BY MirrorAssumption DEF DrainShape
<1>2. /\ pc' \in [Task -> PC] /\ pc'[t] = "appending"
      /\ \A u \in Task : u # t => pc'[u] = pc[u]
  BY DEF TypeOK, PC
<1>3. FramesEnqueued' /\ ControlShape' /\ LockShape'
  BY <1>1, <1>2, HolderStep DEF InLock
<1>4. /\ attempt' \in [Task -> 0..MaxAttempts]
      /\ \A u \in Task : u # t => attempt'[u] = attempt[u]
  BY <1>1, MirrorAssumption DEF TypeOK
<1>5. lastCalled' \in [Path -> 0..MaxFrames]
  <2>1. Last(Group(t)) \in 0..MaxFrames
    BY <1>1, GroupOfBatch, FirstLast, MirrorAssumption DEF Frame
  <2>2. QED
    BY <2>1 DEF TypeOK
<1>6. TypeOK'
  BY <1>2, <1>4, <1>5 DEF TypeOK
<1>7. OneOwner' /\ FailedOwner'
  BY DEF OneOwner, FailedOwner
<1>8. DrainShape'
  BY <1>1, <1>2, <1>4 DEF DrainShape
<1>9. QED
  BY <1>3, <1>6, <1>7, <1>8

\* A drain is done with its current group: those frames get an outcome, and the
\* drain goes on with the rest of its batch.  A failed group is kept for the
\* report.
LEMMA GroupDone ==
    ASSUME IInv, NEW t \in Task, pc[t] \in {"flushing", "appending"}, batch[t] # {},
           NEW o \in {"stored", "skipped", "failed"},
           pc' = [pc EXCEPT ![t] = "flushing"],
           batch' = [batch EXCEPT ![t] = @ \ Group(t)],
           attempt' = [attempt EXCEPT ![t] = 0],
           outcome' = Settle(Group(t), o),
           failed' = IF o = "failed" THEN [failed EXCEPT ![t] = @ \union Group(t)] ELSE failed,
           outstanding' \in {outstanding, outstanding \union {Group(t)}},
           UNCHANGED <<scheduler, buffer, lock, mark, reader, closing, lastCalled>>
    PROVE  IInv'
<1> USE DEF IInv, buffer
<1>1. /\ Group(t) \subseteq batch[t] /\ Group(t) \in SUBSET Frame
      /\ \A f \in Group(t) : outcome[f] = "open" /\ outcome'[f] = o
      /\ \A f \in Frame : f \notin Group(t) => outcome'[f] = outcome[f]
      /\ outcome' \in [Frame -> Outcome]
  BY GroupOfBatch DEF OneOwner, Settle, Outcome, TypeOK
<1>2. /\ pc' \in [Task -> PC] /\ pc'[t] = "flushing"
      /\ \A u \in Task : u # t => pc'[u] = pc[u]
  BY DEF TypeOK, PC
<1>3. /\ batch' \in [Task -> SUBSET Frame] /\ batch'[t] = batch[t] \ Group(t)
      /\ \A u \in Task : u # t => batch'[u] = batch[u]
  BY DEF TypeOK
<1>4. /\ failed' \in [Task -> SUBSET Frame]
      /\ \A u \in Task : u # t => failed'[u] = failed[u]
      /\ failed'[t] = IF o = "failed" THEN failed[t] \union Group(t) ELSE failed[t]
  BY <1>1 DEF TypeOK
<1>5. /\ attempt' \in [Task -> 0..MaxAttempts] /\ attempt'[t] = 0
      /\ \A u \in Task : u # t => attempt'[u] = attempt[u]
  BY MirrorAssumption DEF TypeOK
<1>6. FramesEnqueued' /\ ControlShape' /\ LockShape'
  <2>1. \A f \in Frame : outcome[f] = "none" <=> outcome'[f] = "none"
    BY <1>1
  <2>2. QED
    BY <2>1, <1>2, HolderStep DEF InLock
<1>7. outstanding' \subseteq SUBSET Frame
  BY <1>1 DEF TypeOK
<1>8. TypeOK'
  BY <1>1, <1>2, <1>3, <1>4, <1>5, <1>7 DEF TypeOK
<1>9. OneOwner'
  <2>1. \A u \in Task : \A f \in batch'[u] :
          f \in batch[u] /\ f \notin Group(t) /\ outcome'[f] = outcome[f] /\ f \in Frame
    BY <1>1, <1>3 DEF OneOwner, TypeOK
  <2>2. \A f \in Frame : (outcome'[f] = "open" /\ \A u \in Task : f \notin batch'[u])
                        <=> (outcome[f] = "open" /\ \A u \in Task : f \notin batch[u])
    BY <1>1, <1>3, <2>1
  <2>3. \A u \in Task : \A f \in batch'[u] :
          outcome'[f] = "open" /\ \A v \in Task : f \in batch'[v] => v = u
    BY <2>1 DEF OneOwner
  <2>4. QED
    BY <2>2, <2>3 DEF OneOwner
<1>10. DrainShape'
  BY <1>2, <1>3, <1>4, <1>5 DEF DrainShape
<1>11. FailedOwner'
  <2>1. \A u \in Task : \A f \in failed[u] : f \notin Group(t) /\ f \in Frame
    BY <1>1 DEF FailedOwner, TypeOK
  <2>2. \A u \in Task : \A f \in failed'[u] : f \in failed[u] \/ (u = t /\ f \in Group(t) /\ o = "failed")
    <3>1. TAKE u \in Task
    <3>2. CASE u = t /\ o = "failed"
      BY <3>2, <1>4
    <3>3. CASE u = t /\ o # "failed"
      BY <3>3, <1>4
    <3>4. CASE u # t
      BY <3>4, <1>4
    <3>5. QED
      BY <3>2, <3>3, <3>4
  <2>3. QED
    BY <1>1, <2>1, <2>2 DEF FailedOwner
<1>12. QED
  BY <1>6, <1>8, <1>9, <1>10, <1>11

LEMMA SkipGroupStep == ASSUME IInv, NEW t \in Task, SkipGroup(t) PROVE IInv'
<1>1. attempt' = [attempt EXCEPT ![t] = 0] /\ pc' = [pc EXCEPT ![t] = "flushing"]
  BY DEF IInv, SkipGroup, DrainShape, TypeOK
<1>2. QED
  BY <1>1, GroupDone DEF SkipGroup, store, IInv

LEMMA AppendStep ==
    ASSUME IInv, NEW t \in Task, AppendOk(t) \/ AppendErr(t) \/ AppendTimeout(t)
    PROVE  IInv'
<1>1. batch[t] # {} /\ pc[t] = "appending"
  BY DEF IInv, DrainShape, AppendOk, AppendErr, AppendTimeout
<1>2. CASE AppendOk(t)
  BY <1>1, <1>2, GroupDone DEF AppendOk, GroupEnds, store
<1>3. CASE AppendTimeout(t)
  BY <1>1, <1>3, GroupDone DEF AppendTimeout, GroupEnds
<1>4. CASE AppendErr(t) /\ ~ RetriesLeft(t)
  BY <1>1, <1>4, GroupDone DEF AppendErr, GroupEnds, store
<1>5. CASE AppendErr(t) /\ RetriesLeft(t)
  <2> USE <1>5 DEF IInv, AppendErr, buffer, store
  <2>1. /\ pc' \in [Task -> PC] /\ pc'[t] = "backoff"
        /\ \A u \in Task : u # t => pc'[u] = pc[u]
    BY DEF TypeOK, PC
  <2>2. FramesEnqueued' /\ ControlShape' /\ LockShape'
    BY <1>1, <2>1, HolderStep DEF InLock
  <2>3. TypeOK' /\ OneOwner' /\ FailedOwner'
    BY <2>1 DEF TypeOK, OneOwner, FailedOwner
  <2>4. DrainShape'
    BY <1>1, <2>1 DEF DrainShape, RetriesLeft
  <2>5. QED
    BY <2>2, <2>3, <2>4
<1>6. QED
  BY <1>2, <1>3, <1>4, <1>5

\* A drain that finishes, or dies with the reader, leaves the queue and owns
\* nothing any more: its frames have got an outcome.
LEMMA DrainLeaves ==
    ASSUME IInv, NEW t \in Task, NEW v \in {"idle", "done"}, NEW o \in {"reported", "lost"},
           pc[t] # "idle" \/ t \notin Frame,
           pc' = [pc EXCEPT ![t] = v],
           batch' = [batch EXCEPT ![t] = {}],
           failed' = [failed EXCEPT ![t] = {}],
           attempt' = [attempt EXCEPT ![t] = 0],
           outcome' = Settle(batch[t] \union failed[t], o),
           UNCHANGED frames, UNCHANGED pending
    PROVE  /\ OneOwner' /\ FramesEnqueued' /\ DrainShape' /\ FailedOwner'
           /\ pc' \in [Task -> PC] /\ batch' \in [Task -> SUBSET Frame]
           /\ failed' \in [Task -> SUBSET Frame] /\ attempt' \in [Task -> 0..MaxAttempts]
           /\ outcome' \in [Frame -> Outcome]
<1> USE DEF IInv
<1>1. /\ pc' \in [Task -> PC] /\ pc'[t] = v
      /\ \A u \in Task : u # t => pc'[u] = pc[u]
  BY DEF TypeOK, PC
<1>2. /\ batch' \in [Task -> SUBSET Frame] /\ batch'[t] = {}
      /\ \A u \in Task : u # t => batch'[u] = batch[u]
  BY DEF TypeOK
<1>3. /\ failed' \in [Task -> SUBSET Frame] /\ failed'[t] = {}
      /\ \A u \in Task : u # t => failed'[u] = failed[u]
  BY DEF TypeOK
<1>4. /\ attempt' \in [Task -> 0..MaxAttempts] /\ attempt'[t] = 0
      /\ \A u \in Task : u # t => attempt'[u] = attempt[u]
  BY MirrorAssumption DEF TypeOK
<1>5. /\ outcome' \in [Frame -> Outcome]
      /\ \A f \in batch[t] \union failed[t] : f \in Frame /\ outcome'[f] = o
      /\ \A f \in Frame : f \notin batch[t] \union failed[t] => outcome'[f] = outcome[f]
      /\ \A f \in batch[t] \union failed[t] : outcome[f] \in {"open", "failed"}
  BY DEF Settle, Outcome, TypeOK, OneOwner, FailedOwner
<1>6. OneOwner'
  <2>1. \A u \in Task : \A f \in batch'[u] :
          f \in batch[u] /\ u # t /\ outcome'[f] = outcome[f] /\ f \in Frame
    <3>1. TAKE u \in Task
    <3>2. TAKE f \in batch'[u]
    <3>3. u # t /\ f \in batch[u] /\ f \in Frame
      BY <1>2 DEF TypeOK
    <3>4. f \notin batch[t] /\ outcome[f] = "open"
      BY <3>3 DEF OneOwner
    <3>5. f \notin failed[t]
      BY <3>4 DEF FailedOwner
    <3>6. QED
      BY <3>3, <3>4, <3>5, <1>5
  <2>2. \A f \in Frame : (outcome'[f] = "open" /\ \A u \in Task : f \notin batch'[u])
                        <=> (outcome[f] = "open" /\ \A u \in Task : f \notin batch[u])
    <3>1. TAKE f \in Frame
    <3>2. CASE f \in batch[t] \union failed[t]
      BY <3>2, <1>5 DEF FailedOwner
    <3>3. CASE f \notin batch[t] \union failed[t]
      <4>1. \A u \in Task : f \in batch'[u] <=> f \in batch[u]
        BY <3>3, <1>2
      <4>2. QED
        BY <4>1, <3>3, <1>5
    <3>4. QED
      BY <3>2, <3>3
  <2>3. \A u \in Task : \A f \in batch'[u] :
          outcome'[f] = "open" /\ \A w \in Task : f \in batch'[w] => w = u
    BY <2>1 DEF OneOwner
  <2>4. QED
    BY <2>2, <2>3 DEF OneOwner
<1>7. FramesEnqueued'
  <2>1. \A f \in Frame : outcome'[f] = "none" <=> outcome[f] = "none"
    BY <1>5
  <2>2. \A f \in Frame : f > Len(frames) => pc'[f] = "idle"
    BY <1>1, TaskKinds DEF FramesEnqueued
  <2>3. QED
    BY <2>1, <2>2 DEF FramesEnqueued
<1>8. DrainShape'
  BY <1>1, <1>2, <1>3, <1>4 DEF DrainShape
<1>9. FailedOwner'
  <2> USE DEF FailedOwner
  <2>1. TAKE u \in Task
  <2>2. TAKE f \in failed'[u]
  <2>3. u # t /\ f \in failed[u] /\ f \in Frame
    BY <1>3 DEF TypeOK
  <2>4. outcome[f] = "failed" /\ f \notin failed[t]
    BY <2>3 DEF FailedOwner
  <2>5. f \notin batch[t]
    BY <2>4 DEF OneOwner
  <2>6. QED
    BY <2>3, <2>4, <2>5, <1>3, <1>5 DEF FailedOwner
<1>10. QED
  BY <1>1, <1>2, <1>3, <1>4, <1>5, <1>6, <1>7, <1>8, <1>9

LEMMA FinishStep == ASSUME IInv, NEW t \in Task, Finish(t) PROVE IInv'
<1>1. pc[t] = "flushing" /\ batch[t] = {} /\ attempt[t] = 0
  BY DEF IInv, Finish, DrainShape
<1>2. /\ batch' = [batch EXCEPT ![t] = {}] /\ attempt' = [attempt EXCEPT ![t] = 0]
      /\ outcome' = Settle(batch[t] \union failed[t], "reported")
  BY <1>1 DEF Finish, IInv, TypeOK
<1>3. /\ OneOwner' /\ FramesEnqueued' /\ DrainShape' /\ FailedOwner'
      /\ pc' \in [Task -> PC] /\ batch' \in [Task -> SUBSET Frame]
      /\ failed' \in [Task -> SUBSET Frame] /\ attempt' \in [Task -> 0..MaxAttempts]
      /\ outcome' \in [Frame -> Outcome]
  BY <1>1, <1>2, DrainLeaves DEF Finish, buffer
<1>4. pc'[t] = "done" /\ \A u \in Task : u # t => pc'[u] = pc[u]
  BY DEF Finish, IInv, TypeOK
<1>5. LockShape' /\ lock' \in Seq(Task)
  BY <1>1, <1>4, TailLeaves, LockLeft DEF Finish, InLock, IInv
<1>6. mark' \in [Task -> 0..MaxFrames]
  BY MirrorAssumption DEF Finish, IInv, TypeOK
<1>7. TypeOK'
  BY <1>3, <1>5, <1>6 DEF Finish, IInv, TypeOK, buffer, store
<1>8. ControlShape'
  BY <1>1, <1>4, TaskKinds DEF IInv, Finish, ControlShape
<1>9. QED
  BY <1>3, <1>5, <1>7, <1>8 DEF IInv

LEMMA ReaderDiesStep == ASSUME IInv, ReaderDies PROVE IInv'
<1>1. Reader \in Task /\ Reader \notin Frame
  BY TaskKinds
<1>2. /\ OneOwner' /\ FramesEnqueued' /\ DrainShape' /\ FailedOwner'
      /\ pc' \in [Task -> PC] /\ batch' \in [Task -> SUBSET Frame]
      /\ failed' \in [Task -> SUBSET Frame] /\ attempt' \in [Task -> 0..MaxAttempts]
      /\ outcome' \in [Frame -> Outcome]
  BY <1>1, DrainLeaves DEF ReaderDies, buffer
<1>3. pc'[Reader] = "idle" /\ \A u \in Task : u # Reader => pc'[u] = pc[u]
  BY <1>1 DEF ReaderDies, IInv, TypeOK
<1>4. LockShape' /\ lock' \in Seq(Task)
  <2>1. CASE pc[Reader] \in InLock
    <3>1. LeavesQueue(lock', Reader)
      BY <2>1, <1>1, WithoutLeaves DEF ReaderDies, IInv
    <3>2. pc'[Reader] \notin InLock
      BY <1>3 DEF InLock
    <3>3. QED
      BY <2>1, <3>1, <3>2, <1>1, <1>3, LockLeft DEF IInv
  <2>2. CASE pc[Reader] \notin InLock
    <3>1. UNCHANGED lock
      BY <2>2 DEF ReaderDies
    <3>2. \A u \in Task : pc'[u] \in InLock <=> pc[u] \in InLock
      BY <2>2, <1>3 DEF InLock
    <3>3. \A u \in Task : pc'[u] \in InLock \ {"queued"} => pc[u] \in InLock \ {"queued"}
      BY <1>3 DEF InLock
    <3>4. LockShape'
      BY <3>1, <3>2, <3>3, LockUnchanged DEF IInv
    <3>5. QED
      BY <3>1, <3>4 DEF IInv, TypeOK
  <2>3. QED
    BY <2>1, <2>2
<1>5. mark' \in [Task -> 0..MaxFrames]
  <2>1. mark' = [mark EXCEPT ![Reader] = 0]
    BY DEF ReaderDies
  <2>2. mark \in [Task -> 0..MaxFrames] /\ 0 \in 0..MaxFrames
    BY MirrorAssumption DEF IInv, TypeOK
  <2>3. QED
    BY <2>1, <2>2
<1>6. outstanding' \subseteq SUBSET Frame
  <2>1. pc[Reader] = "appending" => Group(Reader) \in SUBSET Frame
    BY <1>1, GroupOfBatch DEF IInv, DrainShape
  <2>2. QED
    BY <2>1 DEF ReaderDies, IInv, TypeOK
<1>7. TypeOK'
  BY <1>2, <1>4, <1>5, <1>6 DEF ReaderDies, IInv, TypeOK, buffer
<1>8. ControlShape'
  BY <1>3, TaskKinds DEF ReaderDies, IInv, ControlShape
<1>9. QED
  BY <1>2, <1>4, <1>7, <1>8 DEF IInv

-----------------------------------------------------------------------------
(* The theorems *)

\* The invariant is inductive.
LEMMA StepIInv == IInv /\ [Next]_vars => IInv'
<1> SUFFICES ASSUME IInv, [Next]_vars PROVE IInv'
  OBVIOUS
<1>1. CASE \E p \in Path, n \in EntryCounts : Enqueue(p, n)
  BY <1>1, EnqueueStep
<1>2. CASE ReadResult
  BY <1>2, ReadResultStep
<1>3. CASE YieldResult
  BY <1>3, YieldResultStep
<1>4. CASE EndOfStream
  BY <1>4, EndOfStreamStep
<1>5. CASE ReaderEnds \/ BeginClose \/ DropClient
  BY <1>5, ControlStep
<1>6. CASE ReaderDies
  BY <1>6, ReaderDiesStep
<1>7. CASE AbortAndFlush
  BY <1>7, AbortAndFlushStep
<1>8. CASE \E t \in Task : Drain(t)
  <2>1. PICK t \in Task : Drain(t)
    BY <1>8
  <2>2. CASE Detach(t)
    BY <2>2, DetachStep
  <2>3. CASE RequestLock(t)
    BY <2>3, RequestLockStep
  <2>4. CASE Acquire(t)
    BY <2>4, AcquireStep
  <2>5. CASE SkipGroup(t)
    BY <2>5, SkipGroupStep
  <2>6. CASE CallAppend(t)
    BY <2>6, CallAppendStep
  <2>7. CASE AppendOk(t) \/ AppendErr(t) \/ AppendTimeout(t)
    BY <2>7, AppendStep
  <2>8. CASE Finish(t)
    BY <2>8, FinishStep
  <2>9. QED
    BY <2>1, <2>2, <2>3, <2>4, <2>5, <2>6, <2>7, <2>8 DEF Drain
<1>9. CASE \E g \in outstanding : LateAppend(g)
  BY <1>9, LateAppendStep
<1>10. CASE Finished \/ UNCHANGED vars
  BY <1>10, StutterStep DEF Finished
<1>11. QED
  BY <1>1, <1>2, <1>3, <1>4, <1>5, <1>6, <1>7, <1>8, <1>9, <1>10 DEF Next, ReaderStep

THEOREM Invariance == Spec => []IInv
<1>1. Init => IInv
  BY InitIInv
<1>2. IInv /\ [Next]_vars => IInv'
  BY StepIInv
<1>3. QED
  BY <1>1, <1>2, PTL DEF Spec

\* The state keeps its type; in particular append_with_retry never makes more
\* than MaxAttempts attempts for a group.
THEOREM TypeCorrect == Spec => []TypeOK
<1>1. IInv => TypeOK
  BY DEF IInv
<1>2. QED
  BY <1>1, Invariance, PTL

\* However many drains run at once, and whatever the reader's abort cuts short,
\* a frame without an outcome is in the pending buffer or in the batch of one
\* drain: drain and do_flush neither forget nor duplicate a frame.
THEOREM NoFrameForgotten == Spec => []OneOwner
<1>1. IInv => OneOwner
  BY DEF IInv
<1>2. QED
  BY <1>1, Invariance, PTL

(***************************************************************************)
(* More theorems, which rest on this invariant: the buffer is bounded, a   *)
(* call that may still land has no second one next to it, and on a         *)
(* current-thread runtime the appends keep the order of the frames and a   *)
(* flush is a barrier.                                                     *)
(***************************************************************************)

\* Every step keeps the invariant; it is used before and after.
Both == IInv /\ IInv'

-----------------------------------------------------------------------------
(* The buffer is bounded *)

LEMMA EagerStep == Both /\ EagerScheduled /\ [Next]_vars => EagerScheduled'
<1> SUFFICES ASSUME Both, EagerScheduled, [Next]_vars PROVE EagerScheduled'
  OBVIOUS
<1>1. TypeOK /\ TypeOK' /\ FramesEnqueued
  BY DEF Both, IInv
<1>2. ASSUME NEW p \in Path, NEW n \in EntryCounts, Enqueue(p, n) PROVE EagerScheduled'
  <2>1. /\ entries' = entries + n /\ bytes' = bytes + JsonLen(n)
        /\ Len(frames) + 1 \in Frame
    BY <1>1, <1>2, MirrorAssumption DEF Enqueue, Push, Frame, TypeOK
  <2>2. CASE OverThreshold(entries + n, bytes + JsonLen(n))
    BY <1>1, <1>2, <2>1, <2>2, TaskKinds DEF Enqueue, EagerScheduled, TypeOK
  <2>3. CASE ~OverThreshold(entries + n, bytes + JsonLen(n))
    BY <2>1, <2>3 DEF OverThreshold, EagerScheduled
  <2>4. QED
    BY <2>2, <2>3
<1>3. ASSUME UNCHANGED <<entries, bytes>>,
             \A f \in Frame : pc[f] = "spawned" => pc'[f] = "spawned"
      PROVE  EagerScheduled'
  BY <1>3 DEF EagerScheduled
<1>4. CASE ReadResult \/ YieldResult \/ EndOfStream \/ ReaderEnds \/ ReaderDies
  <2>1. UNCHANGED <<entries, bytes>>
    BY <1>4 DEF ReadResult, YieldResult, EndOfStream, ReaderEnds, ReaderDies, buffer
  <2>2. \A f \in Frame : pc'[f] = pc[f]
    BY <1>1, <1>4, TaskKinds
       DEF ReadResult, YieldResult, EndOfStream, ReaderEnds, ReaderDies, drains, TypeOK
  <2>3. QED
    BY <1>3, <2>1, <2>2
<1>5. CASE BeginClose \/ AbortAndFlush \/ DropClient
  <2>1. UNCHANGED <<entries, bytes>>
    BY <1>5 DEF BeginClose, AbortAndFlush, DropClient, buffer
  <2>2. \A f \in Frame : pc'[f] = pc[f]
    BY <1>1, <1>5, TaskKinds DEF BeginClose, AbortAndFlush, DropClient, drains, TypeOK
  <2>3. QED
    BY <1>3, <2>1, <2>2
<1>6. ASSUME NEW t \in Task, Detach(t) PROVE EagerScheduled'
  BY <1>6, MirrorAssumption DEF Detach, EagerScheduled
<1>7. ASSUME NEW t \in Task, Drain(t), ~Detach(t) PROVE EagerScheduled'
  <2>1. UNCHANGED <<entries, bytes>>
    BY <1>7
       DEF Drain, RequestLock, Acquire, SkipGroup, CallAppend, AppendOk, AppendErr, AppendTimeout,
           Finish, buffer
  <2>2. pc[t] # "spawned" /\ \A u \in Task : u # t => pc'[u] = pc[u]
    BY <1>1, <1>7
       DEF Drain, RequestLock, Acquire, SkipGroup, CallAppend, AppendOk, AppendErr, AppendTimeout,
           Finish, AskForLock, GroupEnds, TypeOK
  <2>3. QED
    BY <1>3, <2>1, <2>2, TaskKinds
<1>8. CASE (\E g \in outstanding : LateAppend(g)) \/ UNCHANGED vars
  BY <1>3, <1>8 DEF LateAppend, vars, buffer, drains
<1>9. QED
  BY <1>2, <1>4, <1>5, <1>6, <1>7, <1>8 DEF Next, ReaderStep, Finished

\* Past a threshold an eager drain is under way that has yet to take the buffer, so
\* it does not grow while the scheduler owes that task a poll (mirror.rs enqueue's
\* return value, agent_runtime.rs enqueue_mirror_frame).
THEOREM EagerDrainScheduled == Spec => []EagerScheduled
<1>1. Init => EagerScheduled
  BY MirrorAssumption DEF Init, EagerScheduled
<1>2. QED
  BY <1>1, EagerStep, Invariance, PTL DEF Both, Spec

-----------------------------------------------------------------------------
(* No second call for the same frames *)

\* The frames of a call that nobody waits for are settled.
SettledCalls == \A g \in outstanding : \A f \in g : outcome[f] \notin {"none", "open"}

LEMMA SettledStep == Both /\ SettledCalls /\ [Next]_vars => SettledCalls'
<1> SUFFICES ASSUME Both, SettledCalls, [Next]_vars PROVE SettledCalls'
  OBVIOUS
<1>1. /\ TypeOK /\ TypeOK' /\ FramesEnqueued /\ OneOwner /\ FailedOwner /\ DrainShape
      /\ \A g \in outstanding : g \subseteq Frame
  BY DEF Both, IInv, TypeOK
<1>2. ASSUME outstanding' \subseteq outstanding,
             \A f \in Frame : outcome[f] \notin {"none", "open"}
                                => outcome'[f] \notin {"none", "open"}
      PROVE  SettledCalls'
  BY <1>1, <1>2 DEF SettledCalls
<1>3. ASSUME NEW fs \in SUBSET Frame, outstanding' \subseteq outstanding \union {fs},
             NEW o \in {"stored", "skipped", "failed", "reported", "lost"},
             NEW gs \in SUBSET Frame, fs \subseteq gs, outcome' = Settle(gs, o)
      PROVE  SettledCalls'
  <2>1. \A f \in Frame : outcome'[f] = IF f \in gs THEN o ELSE outcome[f]
    BY <1>3 DEF Settle
  <2>2. QED
    BY <1>1, <1>3, <2>1 DEF SettledCalls
<1>4. ASSUME NEW p \in Path, NEW n \in EntryCounts, Enqueue(p, n) PROVE SettledCalls'
  <2>1. /\ outcome' = [outcome EXCEPT ![Len(frames) + 1] = "open"] /\ outstanding' = outstanding
        /\ Len(frames) + 1 \in Frame /\ outcome[Len(frames) + 1] = "none"
    BY <1>1, <1>4, MirrorAssumption DEF Enqueue, Push, store, Frame, TypeOK, FramesEnqueued
  <2>2. QED
    BY <1>1, <1>2, <2>1 DEF TypeOK
<1>5. CASE ReaderDies
  <2> DEFINE fs == IF pc[Reader] = "appending" THEN Group(Reader) ELSE {}
             gs == batch[Reader] \union failed[Reader]
  <2>1. fs \in SUBSET Frame /\ gs \in SUBSET Frame /\ fs \subseteq gs
    BY <1>1, TaskKinds, GroupOfBatch DEF TypeOK, DrainShape
  <2>2. outcome' = Settle(gs, "lost") /\ outstanding' \subseteq outstanding \union {fs}
    BY <1>5 DEF ReaderDies
  <2> HIDE DEF fs, gs
  <2>3. QED
    BY <1>3, <2>1, <2>2
<1>6. ASSUME NEW t \in Task, SkipGroup(t) \/ AppendOk(t) \/ AppendErr(t) \/ AppendTimeout(t)
      PROVE  SettledCalls'
  <2>1. batch[t] # {} /\ Group(t) \in SUBSET Frame
    BY <1>1, <1>6, GroupOfBatch DEF SkipGroup, AppendOk, AppendErr, AppendTimeout, DrainShape
  <2>2. CASE outcome' = outcome /\ outstanding' = outstanding
    BY <1>2, <2>2
  <2>3. CASE ~(outcome' = outcome /\ outstanding' = outstanding)
    <3>1. /\ outstanding' \subseteq outstanding \union {Group(t)}
          /\ \E o \in {"stored", "skipped", "failed"} : outcome' = Settle(Group(t), o)
      BY <1>6, <2>3
         DEF SkipGroup, AppendOk, AppendErr, AppendTimeout, GroupEnds, store, buffer
    <3>2. QED
      BY <1>3, <2>1, <3>1
  <2>4. QED
    BY <2>2, <2>3
<1>7. ASSUME NEW t \in Task, Finish(t) PROVE SettledCalls'
  <2>1. outcome' = Settle(failed[t], "reported") /\ outstanding' = outstanding
        /\ failed[t] \in SUBSET Frame
    BY <1>1, <1>7 DEF Finish, store, TypeOK
  <2>2. QED
    BY <1>3, <2>1
<1>8. CASE /\ outcome' = outcome /\ outstanding' \subseteq outstanding
  BY <1>2, <1>8
<1>9. QED
  <2>1. ASSUME NEW t \in Task, Detach(t) \/ RequestLock(t) \/ Acquire(t) \/ CallAppend(t)
        PROVE  SettledCalls'
    BY <1>8, <2>1 DEF Detach, RequestLock, Acquire, CallAppend, store
  <2>2. CASE ReadResult \/ YieldResult \/ EndOfStream \/ ReaderEnds \/ BeginClose \/ AbortAndFlush
             \/ DropClient \/ UNCHANGED vars
    BY <1>8, <2>2
       DEF ReadResult, YieldResult, EndOfStream, ReaderEnds, BeginClose, AbortAndFlush, DropClient,
           vars, store
  <2>3. CASE \E g \in outstanding : LateAppend(g)
    BY <1>8, <2>3 DEF LateAppend
  <2>4. QED
    BY <1>4, <1>5, <1>6, <1>7, <2>1, <2>2, <2>3 DEF Next, ReaderStep, Drain, Finished

\* While an append whose caller gave up (a timeout, an aborted reader) may still land,
\* no drain has a call for one of its frames under way, so the store never gets the same
\* entries from two calls at once (mirror.rs append_with_retry).
THEOREM OneCallPerFrame == Spec => []NoConcurrentDuplicate
<1>1. Init => SettledCalls
  BY DEF Init, SettledCalls
<1>2. IInv /\ SettledCalls => NoConcurrentDuplicate
  <2> SUFFICES ASSUME IInv, SettledCalls, NEW t \in Task, NEW g \in outstanding,
                      pc[t] = "appending"
               PROVE  Group(t) \intersect g = {}
    BY DEF NoConcurrentDuplicate
  <2>1. Group(t) \subseteq batch[t]
    BY DEF Group
  <2>2. \A f \in batch[t] : outcome[f] = "open"
    BY DEF IInv, OneOwner
  <2>3. QED
    BY <2>1, <2>2 DEF SettledCalls
<1>3. QED
  BY <1>1, <1>2, SettledStep, Invariance, PTL DEF Both, Spec

-----------------------------------------------------------------------------
(* The order of the appends, and the barrier, on a current-thread runtime *)

\* The drains are in the queue of the lock in the order in which they took the buffer:
\* what a drain took was enqueued before it did (mark), what those behind it and the
\* buffer hold came later.
QueueInOrder ==
    /\ \A t \in Task : pc[t] # "detached"
    /\ \A i \in 1..Len(lock) :
        /\ mark[lock[i]] <= Len(frames)
        /\ \A f \in batch[lock[i]] : f <= mark[lock[i]]
        /\ \A f \in pending : mark[lock[i]] < f
        /\ \A j \in 1..Len(lock) : i < j => \A f \in batch[lock[j]] : mark[lock[i]] < f

\* The frame is of the group a drain has handed to append at least once.
InCall(f) == \E t \in Task : f \in batch[t] /\ attempt[t] # 0 /\ frames[f].path = GroupPath(t)

\* The frames not handed to append yet are later than those that were.
CallsInOrder ==
    /\ \A p \in Path : lastCalled[p] <= Len(frames)
    /\ \A f \in Frame : outcome[f] = "open" /\ ~InCall(f) => lastCalled[frames[f].path] < f

ThreadInv == scheduler = "current_thread" => QueueInOrder /\ CallsInOrder

\* On a current-thread runtime a frame without an outcome is in the buffer, or in the
\* batch of a task of the queue.
LEMMA WhereOpen ==
    ASSUME IInv, QueueInOrder, NEW f \in Frame, outcome[f] = "open"
    PROVE  f \in pending \/ \E i \in 1..Len(lock) : f \in batch[lock[i]]
<1>1. f \in pending \/ \E t \in Task : f \in batch[t]
  BY DEF IInv, OneOwner
<1>2. ASSUME NEW t \in Task, f \in batch[t] PROVE \E i \in 1..Len(lock) : lock[i] = t
  <2>1. pc[t] \in InLock
    BY <1>2 DEF IInv, TypeOK, DrainShape, QueueInOrder, PC, InLock
  <2>2. QED
    BY <2>1 DEF IInv, LockShape
<1>3. QED
  BY <1>1, <1>2

\* The tasks of the queue, and the frames that are held.
LEMMA Held ==
    ASSUME IInv
    PROVE  /\ Len(lock) \in Nat /\ \A i \in 1..Len(lock) : lock[i] \in Task
           /\ Len(frames) \in Nat /\ Len(frames) <= MaxFrames
           /\ \A f \in pending : f \in Frame /\ f <= Len(frames)
           /\ \A t \in Task : \A f \in batch[t] : f \in Frame /\ f <= Len(frames)
           /\ \A f \in Frame : f <= Len(frames) => frames[f].path \in Path
           /\ \A f \in Frame : outcome[f] # "none" => f <= Len(frames)
<1>1. TypeOK /\ OneOwner /\ FramesEnqueued
  BY DEF IInv
<1>2. Len(lock) \in Nat /\ \A i \in 1..Len(lock) : lock[i] \in Task
  BY <1>1 DEF TypeOK
<1>3. Len(frames) \in Nat /\ Len(frames) <= MaxFrames
  BY <1>1 DEF TypeOK
<1>4. \A f \in Frame : outcome[f] # "none" => f <= Len(frames)
  BY <1>1, <1>3, MirrorAssumption DEF FramesEnqueued, Frame
<1>5. /\ \A f \in pending : f \in Frame /\ outcome[f] = "open"
      /\ \A t \in Task : \A f \in batch[t] : f \in Frame /\ outcome[f] = "open"
  BY <1>1 DEF OneOwner, TypeOK
<1>6. \A f \in Frame : f <= Len(frames) => frames[f].path \in Path
  <2> SUFFICES ASSUME NEW f \in Frame, f <= Len(frames) PROVE frames[f].path \in Path
    OBVIOUS
  <2>1. f \in 1..Len(frames)
    BY <1>3, MirrorAssumption DEF Frame
  <2>2. frames[f] \in [path : Path, n : EntryCounts]
    <3> DEFINE R == [path : Path, n : EntryCounts]
    <3>1. frames \in Seq(R)
      BY <1>1 DEF TypeOK
    <3> HIDE DEF R
    <3>2. frames[f] \in R
      BY <2>1, <3>1
    <3>3. QED
      BY <3>2 DEF R
  <2>3. QED
    BY <2>2
<1>7. QED
  BY <1>2, <1>3, <1>4, <1>5, <1>6

LEMMA InitThread == Init => ThreadInv
<1> SUFFICES ASSUME Init PROVE QueueInOrder /\ CallsInOrder
  BY DEF ThreadInv
<1>1. Len(lock) = 0 /\ Len(frames) = 0
  BY DEF Init
<1>2. QED
  BY <1>1 DEF Init, QueueInOrder, CallsInOrder, Task

\* Steps that move no frame.
LEMMA QuietStep ==
    ASSUME Both, ThreadInv,
           UNCHANGED <<scheduler, frames, pending, batch, attempt, lock, mark, outcome, lastCalled>>,
           \A t \in Task : pc[t] # "detached" => pc'[t] # "detached"
    PROVE  ThreadInv'
BY DEF ThreadInv, QueueInOrder, CallsInOrder, InCall, GroupPath, First

LEMMA EnqueueThread ==
    ASSUME Both, ThreadInv, NEW p \in Path, NEW n \in EntryCounts, Enqueue(p, n)
    PROVE  ThreadInv'
<1> SUFFICES ASSUME scheduler = "current_thread", QueueInOrder, CallsInOrder
             PROVE  QueueInOrder' /\ CallsInOrder'
  BY DEF ThreadInv, Enqueue
<1> DEFINE m == Len(frames) + 1
<1>1. IInv /\ TypeOK
  BY DEF Both, IInv
<1>2. /\ m \in Frame /\ m \in Nat /\ pending' = pending \union {m} /\ Len(frames') = m
      /\ outcome' = [outcome EXCEPT ![m] = "open"] /\ frames'[m].path = p
      /\ \A f \in Frame : f <= Len(frames) => frames'[f] = frames[f]
      /\ UNCHANGED <<batch, attempt, lock, mark, lastCalled>>
  <2>1. frames \in Seq([path : Path, n : EntryCounts]) /\ Len(frames) \in Nat
    BY <1>1 DEF TypeOK
  <2>2. m \in Frame /\ m \in Nat
    BY <2>1, MirrorAssumption DEF Enqueue, Frame
  <2>3. frames' = Append(frames, [path |-> p, n |-> n])
    BY DEF Enqueue, Push
  <2>4. /\ Len(frames') = m /\ frames'[m] = [path |-> p, n |-> n]
        /\ \A f \in 1..Len(frames) : frames'[f] = frames[f]
    BY <2>1, <2>3
  <2>5. QED
    BY <2>1, <2>2, <2>4, MirrorAssumption DEF Enqueue, Push, store, Frame
<1>3. \A t \in Task : pc'[t] # "detached"
  BY <1>1, <1>2, TaskKinds DEF Enqueue, TypeOK, QueueInOrder
<1> HIDE DEF m
<1>4. m = Len(frames) + 1
  BY DEF m
<1>5. \A i \in 1..Len(lock) : mark[lock[i]] \in Nat
  BY <1>1, Held, MirrorAssumption DEF TypeOK
<1>6. QueueInOrder'
  BY <1>1, <1>2, <1>3, <1>4, <1>5, Held DEF QueueInOrder
<1>7. \A t \in Task : batch[t] # {} => GroupPath(t)' = GroupPath(t)
  <2> SUFFICES ASSUME NEW t \in Task, batch[t] # {} PROVE GroupPath(t)' = GroupPath(t)
    OBVIOUS
  <2>1. First(batch[t]) \in batch[t]
    BY <1>1, GroupOfBatch
  <2>2. First(batch[t]) \in Frame /\ First(batch[t]) <= Len(frames)
    BY <1>1, <2>1, Held
  <2>3. QED
    BY <1>2, <2>2 DEF GroupPath, First
<1>8. \A f \in Frame : f <= Len(frames) /\ InCall(f) => InCall(f)'
  BY <1>2, <1>7 DEF InCall
<1>9. CallsInOrder'
  <2>1. \A q \in Path : lastCalled'[q] <= Len(frames') /\ lastCalled'[q] < m
    BY <1>1, <1>2, <1>4, Held, MirrorAssumption DEF CallsInOrder, TypeOK
  <2>2. ASSUME NEW f \in Frame, outcome'[f] = "open", ~InCall(f)'
        PROVE  lastCalled'[frames'[f].path] < f
    <3>1. CASE f = m
      BY <1>2, <2>1, <3>1
    <3>2. CASE f # m
      <4>1. outcome[f] = "open" /\ f <= Len(frames)
        BY <1>1, <1>2, <2>2, <3>2, Held DEF TypeOK
      <4>2. QED
        BY <1>2, <1>8, <2>2, <4>1 DEF CallsInOrder
    <3>3. QED
      BY <3>1, <3>2
  <2>3. QED
    BY <2>1, <2>2 DEF CallsInOrder
<1>10. QED
  BY <1>6, <1>9

\* A drain takes the whole buffer and joins the queue: it comes last in both.
LEMMA DetachThread ==
    ASSUME Both, ThreadInv, NEW t \in Task, Detach(t)
    PROVE  ThreadInv'
<1> SUFFICES ASSUME scheduler = "current_thread", QueueInOrder, CallsInOrder
             PROVE  QueueInOrder' /\ CallsInOrder'
  BY DEF ThreadInv, Detach
<1> DEFINE n == Len(lock)
<1>1. /\ IInv /\ TypeOK /\ pc[t] = "spawned" /\ batch[t] = {} /\ attempt[t] = 0
      /\ \A i \in 1..n : lock[i] # t
  BY DEF Both, IInv, Detach, DrainShape, LockShape, InLock
<1>2. /\ batch' = [batch EXCEPT ![t] = pending] /\ pending' = {}
      /\ mark' = [mark EXCEPT ![t] = Len(frames)]
      /\ UNCHANGED <<frames, attempt, outcome, lastCalled>>
      /\ lock' = Append(lock, t)
      /\ \A u \in Task : pc'[u] # "detached"
  BY <1>1 DEF Detach, AskForLock, store, QueueInOrder, TypeOK
<1>3. /\ Len(lock') = n + 1 /\ n \in Nat /\ lock'[n + 1] = t
      /\ \A i \in 1..n : lock'[i] = lock[i] /\ lock[i] \in Task
  BY <1>1, <1>2 DEF TypeOK
<1>4. /\ batch'[t] = pending /\ mark'[t] = Len(frames)
      /\ \A u \in Task \ {t} : batch'[u] = batch[u] /\ mark'[u] = mark[u]
  BY <1>1, <1>2 DEF TypeOK
<1>5. \A i \in 1..n : batch'[lock'[i]] = batch[lock[i]] /\ mark'[lock'[i]] = mark[lock[i]]
  BY <1>1, <1>3, <1>4
<1>6. batch'[lock'[n + 1]] = pending /\ mark'[lock'[n + 1]] = Len(frames)
  BY <1>3, <1>4
<1> HIDE DEF n
<1>7. QueueInOrder'
  <2>1. n = Len(lock)
    BY DEF n
  <2>2. ASSUME NEW i \in 1..Len(lock')
        PROVE  /\ mark'[lock'[i]] <= Len(frames')
               /\ \A f \in batch'[lock'[i]] : f <= mark'[lock'[i]]
               /\ \A j \in 1..Len(lock') : i < j =>
                    \A f \in batch'[lock'[j]] : mark'[lock'[i]] < f
    <3>1. CASE i \in 1..n
      <4>1. ASSUME NEW j \in 1..Len(lock'), i < j
            PROVE  \A f \in batch'[lock'[j]] : mark'[lock'[i]] < f
        <5>1. CASE j \in 1..n
          BY <1>5, <2>1, <3>1, <4>1, <5>1 DEF QueueInOrder
        <5>2. CASE j = n + 1
          BY <1>5, <1>6, <2>1, <3>1, <5>2 DEF QueueInOrder
        <5>3. QED
          BY <1>3, <5>1, <5>2
      <4>2. QED
        BY <1>2, <1>5, <2>1, <3>1, <4>1 DEF QueueInOrder
    <3>2. CASE i = n + 1
      <4>1. \A j \in 1..Len(lock') : ~ (i < j)
        BY <1>3, <3>2
      <4>2. \A f \in pending : f <= Len(frames)
        BY <1>1, Held
      <4>3. Len(frames') = Len(frames) /\ Len(frames) \in Nat
        BY <1>1, <1>2, Held
      <4>4. QED
        BY <1>6, <3>2, <4>1, <4>2, <4>3
    <3>3. QED
      BY <1>3, <3>1, <3>2
  <2>3. QED
    BY <1>2, <2>2 DEF QueueInOrder
<1>8. \A f \in Frame : InCall(f) => InCall(f)'
  BY <1>1, <1>2, <1>4 DEF InCall, GroupPath, First
<1>9. QED
  BY <1>2, <1>7, <1>8 DEF CallsInOrder

\* An append is made for a group of the drain that holds the lock: the frames of its path
\* that are left are behind it.
LEMMA CallAppendThread ==
    ASSUME Both, ThreadInv, NEW t \in Task, CallAppend(t)
    PROVE  ThreadInv'
<1> SUFFICES ASSUME scheduler = "current_thread", QueueInOrder, CallsInOrder
             PROVE  QueueInOrder' /\ CallsInOrder'
  BY DEF ThreadInv, CallAppend
<1> DEFINE p == GroupPath(t)
           last == Last(Group(t))
<1>1. /\ IInv /\ TypeOK /\ pc[t] \in InLock \ {"queued"} /\ batch[t] # {}
  BY DEF Both, IInv, CallAppend, DrainShape, InLock
<1>2. /\ lock[1] = t /\ Len(lock) \in Nat /\ 1 \in 1..Len(lock)
  <2>1. lock[1] = t /\ \E i \in 1..Len(lock) : lock[i] = t
    BY <1>1 DEF IInv, LockShape
  <2>2. QED
    BY <1>1, <2>1, Held
<1>3. last \in batch[t] /\ last \in Frame /\ last <= Len(frames) /\ frames[last].path = p
  <2>1. Group(t) \in SUBSET Frame /\ Group(t) # {} /\ Group(t) \subseteq batch[t]
    BY <1>1, GroupOfBatch
  <2>2. last \in Group(t)
    BY <2>1, FirstLast
  <2>3. QED
    BY <1>1, <2>1, <2>2, Held DEF Group
<1>4. /\ UNCHANGED <<frames, pending, batch, lock, mark, outcome>>
      /\ lastCalled' = [lastCalled EXCEPT ![p] = last]
      /\ attempt' = [attempt EXCEPT ![t] = @ + 1]
  BY DEF CallAppend, buffer
<1>5. /\ attempt'[t] # 0 /\ \A u \in Task : u # t => attempt'[u] = attempt[u]
      /\ \A u \in Task : pc'[u] # "detached"
      /\ \A u \in Task : GroupPath(u)' = GroupPath(u)
  BY <1>1, <1>4, MirrorAssumption DEF CallAppend, TypeOK, QueueInOrder, GroupPath, First
<1>6. QueueInOrder'
  BY <1>4, <1>5 DEF QueueInOrder
<1> HIDE DEF last
<1>7. ASSUME NEW f \in Frame, outcome[f] = "open", ~InCall(f)', frames[f].path = p
      PROVE  last < f
  <2>1. f \notin batch[t]
    BY <1>4, <1>5, <1>7 DEF InCall
  <2>2. last <= mark[lock[1]] /\ mark[lock[1]] \in Nat
    BY <1>1, <1>2, <1>3, MirrorAssumption DEF QueueInOrder, TypeOK
  <2>3. mark[lock[1]] < f
    <3>1. CASE f \in pending
      BY <1>2, <3>1 DEF QueueInOrder
    <3>2. ASSUME NEW i \in 1..Len(lock), f \in batch[lock[i]] PROVE mark[lock[1]] < f
      <4>1. i # 1
        BY <1>2, <2>1, <3>2
      <4>2. 1 < i
        BY <1>2, <4>1
      <4>3. QED
        BY <1>2, <3>2, <4>2 DEF QueueInOrder
    <3>3. QED
      BY <1>1, <1>7, <3>1, <3>2, WhereOpen
  <2>4. QED
    BY <1>3, <2>2, <2>3, MirrorAssumption DEF Frame
<1>8. ASSUME NEW f \in Frame, outcome[f] = "open", ~InCall(f)', frames[f].path # p
      PROVE  ~InCall(f)
  BY <1>4, <1>5, <1>8 DEF InCall
<1> HIDE DEF p
<1>9. \A q \in Path : lastCalled'[q] = IF q = p THEN last ELSE lastCalled[q]
  BY <1>1, <1>4 DEF TypeOK
<1>10. \A f \in Frame : outcome[f] = "open" => frames[f].path \in Path
  BY <1>1, Held
<1>11. CallsInOrder'
  BY <1>3, <1>4, <1>7, <1>8, <1>9, <1>10 DEF CallsInOrder
<1>12. QED
  BY <1>6, <1>11

\* A drain loses a group, which has its outcome, and goes on with what it has left.
LEMMA GroupDoneThread ==
    ASSUME Both, ThreadInv, NEW t \in Task, batch[t] # {},
           NEW o \in {"stored", "skipped", "failed"},
           batch' = [batch EXCEPT ![t] = @ \ Group(t)],
           attempt'[t] = 0, \A u \in Task : u # t => attempt'[u] = attempt[u],
           outcome' = Settle(Group(t), o),
           \A u \in Task : pc'[u] = "detached" => pc[u] = "detached",
           UNCHANGED <<scheduler, frames, pending, lock, mark, lastCalled>>
    PROVE  ThreadInv'
<1> SUFFICES ASSUME scheduler = "current_thread", QueueInOrder, CallsInOrder
             PROVE  QueueInOrder' /\ CallsInOrder'
  BY DEF ThreadInv
<1>1. IInv /\ TypeOK
  BY DEF Both, IInv
<1>2. /\ batch'[t] = batch[t] \ Group(t) /\ \A u \in Task : u # t => batch'[u] = batch[u]
      /\ \A f \in Frame : outcome'[f] = "open" => outcome[f] = "open" /\ f \notin Group(t)
  BY <1>1 DEF TypeOK, Settle
<1>3. QueueInOrder'
  <2>1. \A u \in Task : batch'[u] \subseteq batch[u]
    BY <1>2
  <2>2. \A i \in 1..Len(lock) : batch'[lock[i]] \subseteq batch[lock[i]]
    BY <1>1, <2>1, Held
  <2>3. QED
    BY <2>2 DEF QueueInOrder
<1>4. ASSUME NEW f \in Frame, outcome'[f] = "open", ~InCall(f)' PROVE ~InCall(f)
  <2> SUFFICES ASSUME NEW u \in Task, f \in batch[u], attempt[u] # 0,
                      frames[f].path = GroupPath(u)
               PROVE  FALSE
    BY DEF InCall
  <2>1. CASE u = t
    BY <1>2, <1>4, <2>1 DEF Group
  <2>2. CASE u # t
    BY <1>2, <1>4, <2>2 DEF InCall, GroupPath, First
  <2>3. QED
    BY <2>1, <2>2
<1>5. CallsInOrder'
  BY <1>2, <1>4 DEF CallsInOrder
<1>6. QED
  BY <1>3, <1>5

\* A drain leaves the queue: those that stay keep their order.
LEMMA LeaveThread ==
    ASSUME Both, ThreadInv, NEW t \in Task, pc[t] \in InLock, LeavesQueue(lock', t),
           batch' = [batch EXCEPT ![t] = {}],
           \A u \in Task : u # t => mark'[u] = mark[u] /\ attempt'[u] = attempt[u],
           \A f \in Frame : outcome'[f] = "open" => outcome[f] = "open" /\ f \notin batch[t],
           \A u \in Task : pc'[u] = "detached" => pc[u] = "detached",
           UNCHANGED <<scheduler, frames, pending, lastCalled>>
    PROVE  ThreadInv'
<1> SUFFICES ASSUME scheduler = "current_thread", QueueInOrder, CallsInOrder
             PROVE  QueueInOrder' /\ CallsInOrder'
  BY DEF ThreadInv
<1> DEFINE k == Place(t)
           at(i) == IF i < k THEN i ELSE i + 1
<1>1. IInv /\ TypeOK /\ LockShape
  BY DEF Both, IInv
<1>2. /\ k \in 1..Len(lock) /\ lock[k] = t /\ Len(lock) \in Nat
      /\ \A i \in 1..Len(lock) : i # k => lock[i] # t
  BY <1>1, PlaceInQueue, Held DEF LockShape
<1>3. Len(lock') = Len(lock) - 1
      /\ \A i \in 1..Len(lock') : at(i) \in 1..Len(lock) /\ at(i) # k /\ lock'[i] = lock[at(i)]
  BY <1>2 DEF LeavesQueue
<1>4. \A i, j \in 1..Len(lock') : i < j => at(i) < at(j)
  BY <1>2, <1>3
<1> HIDE DEF at, k
<1>5. \A u \in Task : u # t => batch'[u] = batch[u]
  BY <1>1 DEF TypeOK
<1>6. \A i \in 1..Len(lock') : /\ batch'[lock'[i]] = batch[lock[at(i)]]
                               /\ mark'[lock'[i]] = mark[lock[at(i)]]
  BY <1>1, <1>2, <1>3, <1>5, Held
<1>7. QueueInOrder'
  <2>1. ASSUME NEW i \in 1..Len(lock')
        PROVE  /\ mark'[lock'[i]] <= Len(frames')
               /\ \A f \in batch'[lock'[i]] : f <= mark'[lock'[i]]
               /\ \A f \in pending' : mark'[lock'[i]] < f
    BY <1>3, <1>6 DEF QueueInOrder
  <2>2. ASSUME NEW i \in 1..Len(lock'), NEW j \in 1..Len(lock'), i < j
        PROVE  \A f \in batch'[lock'[j]] : mark'[lock'[i]] < f
    <3>1. at(i) \in 1..Len(lock) /\ at(j) \in 1..Len(lock) /\ at(i) < at(j)
      BY <1>3, <1>4, <2>2
    <3>2. \A f \in batch[lock[at(j)]] : mark[lock[at(i)]] < f
      BY <3>1 DEF QueueInOrder
    <3>3. QED
      BY <1>6, <3>2
  <2>3. \A u \in Task : pc'[u] # "detached"
    BY DEF QueueInOrder
  <2>4. QED
    BY <2>1, <2>2, <2>3 DEF QueueInOrder
<1>8. ASSUME NEW f \in Frame, outcome'[f] = "open", ~InCall(f)' PROVE ~InCall(f)
  BY <1>5, <1>8 DEF InCall, GroupPath, First
<1>9. CallsInOrder'
  BY <1>8 DEF CallsInOrder
<1>10. QED
  BY <1>7, <1>9

LEMMA ThreadStep == Both /\ ThreadInv /\ [Next]_vars => ThreadInv'
<1> SUFFICES ASSUME Both, ThreadInv, [Next]_vars PROVE ThreadInv'
  OBVIOUS
<1>1. IInv /\ TypeOK /\ TypeOK' /\ DrainShape
  BY DEF Both, IInv
<1>2. CASE \E p \in Path, n \in EntryCounts : Enqueue(p, n)
  BY <1>2, EnqueueThread
<1>3. CASE \/ ReadResult \/ YieldResult \/ EndOfStream \/ ReaderEnds \/ BeginClose
           \/ AbortAndFlush \/ DropClient \/ UNCHANGED vars
  <2>1. UNCHANGED <<scheduler, frames, pending, batch, attempt, lock, mark, outcome, lastCalled>>
    BY <1>3
       DEF ReadResult, YieldResult, EndOfStream, ReaderEnds, BeginClose, AbortAndFlush, DropClient,
           vars, buffer, drains, store
  <2>2. \A t \in Task : pc[t] # "detached" => pc'[t] # "detached"
    BY <1>1, <1>3
       DEF ReadResult, YieldResult, EndOfStream, ReaderEnds, BeginClose, AbortAndFlush, DropClient,
           vars, drains, TypeOK
  <2>3. QED
    BY <2>1, <2>2, QuietStep
<1>4. ASSUME NEW g \in outstanding, LateAppend(g) PROVE ThreadInv'
  BY <1>4, QuietStep DEF LateAppend, buffer, drains
<1>5. CASE ReaderDies
  <2>1. /\ batch' = [batch EXCEPT ![Reader] = {}] /\ Reader \in Task
        /\ \A u \in Task : u # Reader => mark'[u] = mark[u] /\ attempt'[u] = attempt[u]
        /\ \A u \in Task : pc'[u] = "detached" => pc[u] = "detached"
        /\ UNCHANGED <<scheduler, frames, pending, lastCalled>>
    BY <1>1, <1>5, TaskKinds DEF ReaderDies, buffer, TypeOK
  <2>2. \A f \in Frame : outcome'[f] = "open" => outcome[f] = "open" /\ f \notin batch[Reader]
    BY <1>5 DEF ReaderDies, Settle
  <2>3. CASE pc[Reader] \in InLock
    BY <1>1, <1>5, <2>1, <2>2, <2>3, WithoutLeaves, LeaveThread DEF ReaderDies, IInv
  <2>4. CASE pc[Reader] \notin InLock
    <3>1. batch[Reader] = {} /\ failed[Reader] = {} /\ attempt[Reader] = 0
      BY <1>1, <1>5, <2>1, <2>4 DEF ReaderDies, DrainShape, TypeOK, PC, InLock
    <3>2. UNCHANGED <<scheduler, frames, pending, batch, attempt, lock, outcome, lastCalled>>
      BY <1>1, <1>5, <2>1, <2>4, <3>1 DEF ReaderDies, buffer, Settle, TypeOK
    <3>3. \A i \in 1..Len(lock) : lock[i] # Reader
      BY <2>1, <2>4 DEF Both, IInv, LockShape
    <3>4. \A i \in 1..Len(lock) : mark'[lock[i]] = mark[lock[i]]
      BY <1>1, <2>1, <3>3, Held
    <3>5. QueueInOrder => QueueInOrder'
      BY <2>1, <3>2, <3>4 DEF QueueInOrder
    <3>6. CallsInOrder => CallsInOrder'
      BY <3>2 DEF CallsInOrder, InCall, GroupPath, First
    <3>7. QED
      BY <3>2, <3>5, <3>6 DEF ThreadInv
  <2>5. QED
    BY <2>3, <2>4
<1>6. ASSUME NEW t \in Task, Drain(t) PROVE ThreadInv'
  <2>1. CASE Detach(t)
    BY <2>1, DetachThread
  <2>2. CASE RequestLock(t)
    BY <2>2 DEF RequestLock, ThreadInv, QueueInOrder, Both, IInv
  <2>3. CASE Acquire(t)
    BY <1>1, <2>3, QuietStep DEF Acquire, buffer, store, TypeOK
  <2>4. CASE CallAppend(t)
    BY <2>4, CallAppendThread
  <2>5. CASE SkipGroup(t) \/ AppendOk(t) \/ AppendErr(t) \/ AppendTimeout(t)
    <3>1. batch[t] # {}
      BY <1>1, <2>5 DEF SkipGroup, AppendOk, AppendErr, AppendTimeout, DrainShape
    <3>2. CASE batch' = batch /\ attempt' = attempt /\ outcome' = outcome
      BY <1>1, <2>5, <3>2, QuietStep
         DEF SkipGroup, AppendOk, AppendErr, AppendTimeout, GroupEnds, buffer, store, TypeOK
    <3>3. CASE ~(batch' = batch /\ attempt' = attempt /\ outcome' = outcome)
      <4>1. /\ batch' = [batch EXCEPT ![t] = @ \ Group(t)]
            /\ \E o \in {"stored", "skipped", "failed"} : outcome' = Settle(Group(t), o)
            /\ UNCHANGED <<scheduler, frames, pending, lock, mark, lastCalled>>
        BY <2>5, <3>3
           DEF SkipGroup, AppendOk, AppendErr, AppendTimeout, GroupEnds, buffer, store
      <4>2. /\ attempt'[t] = 0 /\ \A u \in Task : u # t => attempt'[u] = attempt[u]
            /\ \A u \in Task : pc'[u] = "detached" => pc[u] = "detached"
        BY <1>1, <2>5, <3>3
           DEF SkipGroup, AppendOk, AppendErr, AppendTimeout, GroupEnds, TypeOK, DrainShape
      <4>3. QED
        BY <3>1, <4>1, <4>2, GroupDoneThread
    <3>4. QED
      BY <3>2, <3>3
  <2>6. CASE Finish(t)
    <3>1. /\ pc[t] \in InLock \ {"queued"} /\ batch[t] = {}
          /\ batch' = [batch EXCEPT ![t] = {}] /\ lock' = Tail(lock)
          /\ UNCHANGED <<scheduler, frames, pending, lastCalled>>
      BY <1>1, <2>6 DEF Finish, InLock, buffer, store, TypeOK
    <3>2. /\ \A u \in Task : u # t => mark'[u] = mark[u] /\ attempt'[u] = attempt[u]
          /\ \A u \in Task : pc'[u] = "detached" => pc[u] = "detached"
          /\ \A f \in Frame : outcome'[f] = "open" => outcome[f] = "open"
      BY <1>1, <2>6 DEF Finish, Settle, TypeOK
    <3>3. LeavesQueue(lock', t)
      BY <1>1, <3>1, TailLeaves DEF IInv
    <3>4. QED
      BY <3>1, <3>2, <3>3, LeaveThread
  <2>7. QED
    BY <1>6, <2>1, <2>2, <2>3, <2>4, <2>5, <2>6 DEF Drain
<1>7. QED
  BY <1>2, <1>3, <1>4, <1>5, <1>6 DEF Next, ReaderStep, Finished

LEMMA ThreadInvariance == Spec => []ThreadInv
BY InitThread, ThreadStep, Invariance, PTL DEF Both, Spec

\* On a current-thread runtime a frame that no append was made for is later than every
\* frame of its path already handed to append: whatever drains are started and however
\* appends fail, the store gets a file's entries in the order of the stream (mirror.rs
\* drain, which takes the buffer and asks for the flush lock without an await between).
THEOREM AppendsKeepOrder == Spec => []OrderedOnOneThread
<1>1. IInv /\ ThreadInv => OrderedOnOneThread
  BY DEF ThreadInv, CallsInOrder, InCall, OrderedOnOneThread, AppendsInOrder
<1>2. QED
  BY <1>1, ThreadInvariance, Invariance, PTL

\* A drain that ends has the lock, and nothing is left of what was enqueued before it
\* took the buffer.
LEMMA FinishBarrier ==
    ASSUME Both, ThreadInv, scheduler = "current_thread", NEW t \in Task, Finish(t)
    PROVE  \A f \in EnqueuedBefore(t) : outcome'[f] # "open"
<1> SUFFICES ASSUME NEW f \in EnqueuedBefore(t), outcome'[f] = "open" PROVE FALSE
  OBVIOUS
<1>1. IInv /\ TypeOK /\ QueueInOrder
  BY DEF Both, IInv, ThreadInv
<1>2. mark[t] \in 0..MaxFrames /\ f \in 1..mark[t] /\ f \in Frame
  BY <1>1, MirrorAssumption DEF EnqueuedBefore, Finish, TypeOK, Frame
<1>3. outcome[f] = "open"
  BY <1>2 DEF Finish, Settle
<1>4. lock[1] = t /\ Len(lock) \in Nat /\ 1 \in 1..Len(lock)
  <2>1. lock[1] = t /\ \E i \in 1..Len(lock) : lock[i] = t
    BY <1>1 DEF Finish, IInv, LockShape, InLock
  <2>2. QED
    BY <1>1, <2>1, Held
<1>5. f \notin pending
  BY <1>1, <1>2, <1>4 DEF QueueInOrder
<1>6. ASSUME NEW i \in 1..Len(lock) PROVE f \notin batch[lock[i]]
  <2>1. CASE i = 1
    BY <1>4, <2>1 DEF Finish
  <2>2. CASE i # 1
    <3>1. 1 < i
      BY <1>4, <2>2
    <3>2. f \in batch[lock[i]] => mark[t] < f
      BY <1>1, <1>4, <3>1 DEF QueueInOrder
    <3>3. QED
      BY <1>2, <3>2
  <2>3. QED
    BY <2>1, <2>2
<1>7. QED
  BY <1>1, <1>2, <1>3, <1>5, <1>6, WhereOpen

\* On a current-thread runtime a flush is a barrier: when it returns, nothing is left to
\* append of what was enqueued before it, also if another drain had taken it (mirror.rs
\* drain asks for the flush lock with an empty batch too, agent_runtime.rs flushes before
\* it yields a result).
THEOREM FlushIsBarrier == Spec => FlushBarrier
<1>1. Both /\ ThreadInv /\ [Next]_vars =>
        [\A t \in Task :
            scheduler = "current_thread" /\ pc[t] # "done" /\ pc'[t] = "done"
              => \A f \in EnqueuedBefore(t) : outcome'[f] # "open"]_vars
  <2> SUFFICES ASSUME Both, ThreadInv, Next, NEW t \in Task, scheduler = "current_thread",
                      pc[t] # "done", pc'[t] = "done"
               PROVE  \A f \in EnqueuedBefore(t) : outcome'[f] # "open"
    OBVIOUS
  <2>1. TypeOK
    BY DEF Both, IInv
  <2>2. CASE \E u \in Task : Drain(u)
    <3>1. PICK u \in Task : Drain(u)
      BY <2>2
    <3>2. Finish(u) /\ u = t
      BY <2>1, <3>1
         DEF Drain, Detach, RequestLock, Acquire, SkipGroup, CallAppend, AppendOk, AppendErr,
             AppendTimeout, Finish, AskForLock, GroupEnds, TypeOK
    <3>3. QED
      BY <3>2, FinishBarrier
  <2>3. CASE ReaderStep
    BY <2>1, <2>3
       DEF ReaderStep, Enqueue, ReadResult, YieldResult, EndOfStream, ReaderEnds, ReaderDies, drains,
           TypeOK
  <2>4. CASE BeginClose \/ AbortAndFlush \/ DropClient \/ Finished
             \/ \E g \in outstanding : LateAppend(g)
    BY <2>1, <2>4
       DEF BeginClose, AbortAndFlush, DropClient, Finished, LateAppend, vars, drains, TypeOK
  <2>5. QED
    BY <2>2, <2>3, <2>4 DEF Next
<1>2. QED
  BY <1>1, ThreadInvariance, Invariance, PTL DEF Both, Spec, FlushBarrier
================================================================================

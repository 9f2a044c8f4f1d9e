---------------------------- MODULE McpServerProofs ----------------------------
(***************************************************************************)
(* Theorems about McpServer, for every set of ids, tools, messages and     *)
(* outcomes, and every number of messages.                                 *)
(***************************************************************************)
EXTENDS McpServer, SequenceTheorems, TLAPS

Key == Ids \cup {NoId}
Pc == {"none", "spawned", "running", "leaving", "done"}
Here == DOMAIN received

TypeOK ==
    /\ received \in Seq(Message) /\ Len(received) <= MaxMessages
    /\ pc \in [Calls -> Pc]
    /\ cancelled \in [Calls -> BOOLEAN]
    /\ inflight \in [Key -> Calls \cup {None}]

\* Nothing is done for a message before it comes.
Arrived == \A t \in Calls : t \notin Here => pc[t] = "none"

\* What the table holds runs, or is about to leave, and was not told to stop.
Held ==
    \A i \in Key, t \in Calls : inflight[i] = t =>
        t \in Here /\ Id(t) = i /\ pc[t] \in {"running", "leaving"} /\ ~cancelled[t]

\* A call that runs and was not told to stop is found.
Found == \A t \in Here : pc[t] = "running" /\ ~cancelled[t] => inflight[Id(t)] = t

\* A call is told to stop after it registered, and by a cancellation of its id.
CancelsOf(t) == {c \in Here : /\ received[c].method = "notifications/cancelled"
                              /\ Id(c) = Id(t) /\ pc[c] = "done"}
Told == \A t \in Calls : cancelled[t] =>
            t \in Here /\ pc[t] \notin {"none", "spawned"} /\ CancelsOf(t) # {}

IInv == TypeOK /\ Arrived /\ Held /\ Found /\ Told

-----------------------------------------------------------------------------
\* The messages that have come are calls, and each has an id of the table.
LEMMA Messages ==
    ASSUME TypeOK
    PROVE  /\ Len(received) \in Nat /\ Here = 1..Len(received) /\ Here \subseteq Calls
           /\ \A t \in Here : Id(t) \in Key
<1>1. Len(received) \in Nat /\ Here = 1..Len(received)
  BY DEF TypeOK, Here
<1>2. Here \subseteq Calls
  BY <1>1, McpAssumption DEF TypeOK, Calls
<1>3. ASSUME NEW t \in Here PROVE Id(t) \in Key
  <2>1. received[t] \in Message
    BY <1>1 DEF TypeOK
  <2>2. QED
    BY <2>1, McpAssumption DEF Id, Key
<1>4. QED
  BY <1>1, <1>2, <1>3

LEMMA InitIInv == Init => IInv
<1> SUFFICES ASSUME Init PROVE IInv
  OBVIOUS
<1>1. TypeOK
  BY McpAssumption DEF Init, TypeOK, Pc, Key
<1>2. Here = {}
  BY DEF Init, Here
<1>3. QED
  BY <1>1, <1>2 DEF Init, IInv, Arrived, Held, Found, Told, Calls, None, Key

LEMMA Exact == IInv => InFlightExact
<1> SUFFICES ASSUME IInv PROVE InFlightExact
  OBVIOUS
<1>1. TypeOK /\ Held /\ Found /\ Told /\ Here \subseteq Calls
  BY Messages DEF IInv
<1>2. ASSUME NEW i \in DOMAIN inflight, NEW t, t = inflight[i], t # None
      PROVE  Id(t) = i /\ pc[t] \in {"running", "leaving"} /\ ~cancelled[t]
  BY <1>1, <1>2 DEF TypeOK, Held
<1>3. ASSUME NEW t \in Here
      PROVE  /\ pc[t] = "running" /\ ~cancelled[t] => inflight[Id(t)] = t
             /\ cancelled[t] => \E c \in Here :
                  /\ received[c].method = "notifications/cancelled" /\ Id(c) = Id(t)
                  /\ pc[c] = "done"
  BY <1>1 DEF Found, Told, CancelsOf
<1>4. QED
  BY <1>2, <1>3 DEF InFlightExact, Here

-----------------------------------------------------------------------------
(* Steps *)

\* A message more; what came before is as it was.
LEMMA ReceiveStep ==
    ASSUME IInv, NEW m \in Message, Receive(m) PROVE IInv'
<1> DEFINE n == Len(received) + 1
<1>0. TypeOK /\ Arrived /\ Held /\ Found /\ Told
  BY DEF IInv
<1>1. /\ Len(received) \in Nat /\ Here = 1..Len(received) /\ Here \subseteq Calls
      /\ \A t \in Here : Id(t) \in Key
  BY <1>0, Messages
<1>2. /\ received' \in Seq(Message) /\ Len(received') = n
      /\ \A t \in Here : received'[t] = received[t]
  BY <1>0, <1>1 DEF TypeOK, Receive
<1>3. Here' = Here \cup {n} /\ n \notin Here /\ n \in Calls /\ n <= MaxMessages
  BY <1>1, <1>2, McpAssumption DEF Receive, Calls, Here
<1>4. /\ pc' = [pc EXCEPT ![n] = "spawned"] /\ UNCHANGED <<cancelled, inflight>>
  BY DEF Receive
<1> HIDE DEF n
<1>5. /\ pc' \in [Calls -> Pc] /\ pc'[n] = "spawned"
      /\ \A t \in Calls \ {n} : pc'[t] = pc[t]
  BY <1>0, <1>3, <1>4 DEF TypeOK, Pc
<1>6. \A t \in Here : Id(t)' = Id(t) /\ pc'[t] = pc[t]
  BY <1>1, <1>2, <1>3, <1>5 DEF Id
<1>7. TypeOK'
  BY <1>0, <1>2, <1>3, <1>4, <1>5 DEF TypeOK
<1>8. Arrived'
  BY <1>0, <1>3, <1>5 DEF Arrived
<1>9. Held'
  BY <1>0, <1>3, <1>4, <1>6 DEF Held
<1>10. Found'
  BY <1>0, <1>3, <1>4, <1>5, <1>6 DEF Found
<1>11. ASSUME NEW t \in Calls, cancelled'[t]
       PROVE  t \in Here' /\ pc'[t] \notin {"none", "spawned"} /\ CancelsOf(t)' # {}
  <2>1. t \in Here /\ pc[t] \notin {"none", "spawned"}
    BY <1>0, <1>4, <1>11 DEF Told
  <2>2. PICK c \in Here : /\ received[c].method = "notifications/cancelled"
                          /\ Id(c) = Id(t) /\ pc[c] = "done"
    BY <1>0, <1>4, <1>11 DEF Told, CancelsOf
  <2>3. c \in CancelsOf(t)'
    BY <1>2, <1>3, <1>6, <2>1, <2>2 DEF CancelsOf
  <2>4. QED
    BY <1>3, <1>6, <2>1, <2>3
<1>12. QED
  BY <1>7, <1>8, <1>9, <1>10, <1>11 DEF IInv, Told

\* The handler of t moves on; the messages stay, and every trigger that was used.
LEMMA ToldStep ==
    ASSUME IInv, NEW t \in Here, NEW to \in Pc \ {"none", "spawned"},
           pc[t] # "done", pc' = [pc EXCEPT ![t] = to], received' = received,
           NEW u \in Calls, cancelled[u]
    PROVE  u \in Here' /\ pc'[u] \notin {"none", "spawned"} /\ CancelsOf(u)' # {}
<1>1. t \in Calls /\ TypeOK /\ Told /\ Here \subseteq Calls /\ Here' = Here
  BY Messages DEF IInv, Here
<1>2. u \in Here /\ pc'[u] \notin {"none", "spawned"}
  BY <1>1 DEF TypeOK, Told
<1>3. CancelsOf(u) # {} /\ CancelsOf(u) \subseteq CancelsOf(u)'
  BY <1>1 DEF TypeOK, Told, CancelsOf, Id
<1>4. QED
  BY <1>1, <1>2, <1>3

\* A step of a handler that leaves the table and the triggers alone.
LEMMA QuietStep ==
    ASSUME IInv, NEW t \in Here, pc[t] \in {"spawned", "running"},
           pc' = [pc EXCEPT ![t] = IF pc[t] = "spawned" THEN "done" ELSE "leaving"],
           UNCHANGED <<received, cancelled, inflight>>
    PROVE  IInv'
<1> DEFINE to == IF pc[t] = "spawned" THEN "done" ELSE "leaving"
<1>0. to \in Pc \ {"none", "spawned"}
  BY DEF Pc
<1>1. t \in Calls /\ TypeOK /\ Arrived /\ Held /\ Found /\ Told
  BY Messages DEF IInv
<1>2. TypeOK' /\ Arrived'
  BY <1>1 DEF TypeOK, Arrived, Pc, Here
<1>3. Held' /\ Found'
  BY <1>1, Messages DEF TypeOK, Held, Found, Id, Here
<1>4. Told'
  BY <1>0, <1>1, ToldStep DEF Told
<1>5. QED
  BY <1>2, <1>3, <1>4 DEF IInv

LEMMA CancelStep ==
    ASSUME IInv, NEW t \in Here, HandleCancel(t) PROVE IInv'
<1>0. TypeOK /\ Arrived /\ Held /\ Found /\ Told
  BY DEF IInv
<1>1. t \in Calls /\ Id(t) \in Key /\ Here \subseteq Calls /\ \A u \in Here : Id(u) \in Key
  BY <1>0, Messages
<1>2. /\ pc' = [pc EXCEPT ![t] = "done"] /\ received' = received
      /\ inflight' = [inflight EXCEPT ![Id(t)] = None]
      /\ cancelled' = [c \in Calls |-> cancelled[c] \/ c = inflight[Id(t)]]
      /\ pc[t] = "spawned" /\ received[t].method = "notifications/cancelled"
  BY DEF HandleCancel, Replies
<1>3. Here' = Here /\ \A u : Id(u)' = Id(u)
  BY <1>2 DEF Here, Id
<1>4. \A c \in Calls : c # None
  BY DEF Calls, None
<1>5. TypeOK' /\ Arrived'
  BY <1>0, <1>1, <1>2, <1>3 DEF TypeOK, Arrived, Pc
<1>6. Held'
  BY <1>0, <1>1, <1>2, <1>3, <1>4 DEF TypeOK, Held
<1>7. Found'
  BY <1>0, <1>1, <1>2, <1>3 DEF TypeOK, Found
<1>8. ASSUME NEW u \in Calls, cancelled'[u]
      PROVE  u \in Here' /\ pc'[u] \notin {"none", "spawned"} /\ CancelsOf(u)' # {}
  <2>1. CASE cancelled[u]
    BY <1>2, <2>1, ToldStep DEF Pc
  <2>2. CASE ~cancelled[u]
    <3>1. u = inflight[Id(t)]
      BY <1>2, <1>8, <2>2
    <3>2. u \in Here /\ Id(u) = Id(t) /\ pc[u] \in {"running", "leaving"}
      BY <1>0, <1>1, <3>1 DEF Held
    <3>3. pc'[t] = "done" /\ pc'[u] = pc[u]
      BY <1>0, <1>1, <1>2, <3>2 DEF TypeOK
    <3>4. t \in CancelsOf(u)'
      BY <1>2, <1>3, <3>2, <3>3 DEF CancelsOf
    <3>5. QED
      BY <1>3, <3>2, <3>3, <3>4
  <2>3. QED
    BY <2>1, <2>2
<1>9. QED
  BY <1>5, <1>6, <1>7, <1>8 DEF IInv, Told

\* A call that registers replaces nobody.
LEMMA RunStep ==
    ASSUME IInv, NEW t \in Here, RunCall(t) PROVE IInv'
<1>0. TypeOK /\ Arrived /\ Held /\ Found /\ Told
  BY DEF IInv
<1>1. t \in Calls /\ Id(t) \in Key /\ Here \subseteq Calls /\ \A u \in Here : Id(u) \in Key
  BY <1>0, Messages
<1>2. inflight[Id(t)] = None
  BY DEF RunCall, Refusal, None
<1>3. /\ pc' = [pc EXCEPT ![t] = "running"] /\ received' = received
      /\ inflight' = [inflight EXCEPT ![Id(t)] = t]
      /\ cancelled' = [c \in Calls |-> cancelled[c] \/ c = inflight[Id(t)]]
      /\ pc[t] = "spawned"
  BY DEF RunCall
<1>4. cancelled' = cancelled
  <2>1. \A c \in Calls : c # inflight[Id(t)]
    BY <1>2 DEF Calls, None
  <2>2. cancelled' = [c \in Calls |-> cancelled[c]]
    BY <1>0, <1>3, <2>1 DEF TypeOK
  <2>3. QED
    BY <1>0, <2>2 DEF TypeOK
<1>5. Here' = Here /\ \A u : Id(u)' = Id(u)
  BY <1>3 DEF Here, Id
<1>6. \A c \in Calls : c # None
  BY DEF Calls, None
<1>7. TypeOK' /\ Arrived'
  BY <1>0, <1>1, <1>3, <1>4, <1>5 DEF TypeOK, Arrived, Pc
<1>8. ~cancelled[t]
  BY <1>0, <1>1, <1>3 DEF Told
<1>9. Held' /\ Found'
  BY <1>0, <1>1, <1>2, <1>3, <1>4, <1>5, <1>6, <1>8 DEF TypeOK, Held, Found
<1>10. Told'
  BY <1>3, <1>4, ToldStep DEF Told, Pc
<1>11. QED
  BY <1>7, <1>9, <1>10 DEF IInv

\* A guard removes its own registration, and no other.
LEMMA LeaveStep ==
    ASSUME IInv, NEW t \in Here, Leave(t) PROVE IInv'
<1>0. TypeOK /\ Arrived /\ Held /\ Found /\ Told
  BY DEF IInv
<1>1. t \in Calls /\ Id(t) \in Key /\ Here \subseteq Calls /\ \A u \in Here : Id(u) \in Key
  BY <1>0, Messages
<1>2. /\ pc' = [pc EXCEPT ![t] = "done"] /\ received' = received /\ cancelled' = cancelled
      /\ inflight' = [inflight EXCEPT ![Id(t)] = IF @ = t THEN None ELSE @]
      /\ pc[t] = "leaving"
  BY DEF Leave
<1>3. Here' = Here /\ \A u : Id(u)' = Id(u)
  BY <1>2 DEF Here, Id
<1>4. \A c \in Calls : c # None
  BY DEF Calls, None
<1>5. TypeOK' /\ Arrived'
  BY <1>0, <1>1, <1>2, <1>3 DEF TypeOK, Arrived, Pc
<1>6. Held' /\ Found'
  BY <1>0, <1>1, <1>2, <1>3, <1>4 DEF TypeOK, Held, Found
<1>7. Told'
  BY <1>2, ToldStep DEF Told, Pc
<1>8. QED
  BY <1>5, <1>6, <1>7 DEF IInv

LEMMA IInvStep == IInv /\ [Next]_vars => IInv'
<1> SUFFICES ASSUME IInv, [Next]_vars PROVE IInv'
  OBVIOUS
<1>1. ASSUME NEW t \in Here,
             \/ HandlePlain(t) \/ RefuseCall(t) \/ ToolReturns(t) \/ SeeCancel(t) \/ Abort(t)
      PROVE  IInv'
  <2>1. /\ pc[t] \in {"spawned", "running"}
        /\ pc' = [pc EXCEPT ![t] = IF pc[t] = "spawned" THEN "done" ELSE "leaving"]
        /\ UNCHANGED <<received, cancelled, inflight>>
    BY <1>1 DEF HandlePlain, RefuseCall, ToolReturns, SeeCancel, Abort, Settle, Replies
  <2>2. QED
    BY <2>1, QuietStep
<1>2. CASE UNCHANGED vars
  <2>1. UNCHANGED <<received, pc, cancelled, inflight>>
    BY <1>2 DEF vars
  <2>2. Here' = Here /\ (\A u : Id(u)' = Id(u)) /\ \A u : CancelsOf(u)' = CancelsOf(u)
    BY <2>1 DEF Here, Id, CancelsOf
  <2>3. QED
    BY <2>1, <2>2 DEF IInv, TypeOK, Arrived, Held, Found, Told
<1>3. QED
  BY <1>1, <1>2, ReceiveStep, CancelStep, RunStep, LeaveStep DEF Next, Here

-----------------------------------------------------------------------------
LEMMA Invariance == Spec => []IInv
BY InitIInv, IInvStep, PTL DEF Spec

\* The table of running calls is exact, whatever ids the CLI uses again and in
\* whatever order calls, cancellations and guards run (SdkMcpServer::handle).
THEOREM TableExact == Spec => []InFlightExact
BY Invariance, Exact, PTL
=============================================================================

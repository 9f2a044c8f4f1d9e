------------------------- MODULE ClientLifecycleProofs -------------------------
(***************************************************************************)
(* Theorems about ClientLifecycle, for every number of sessions, of        *)
(* retries and of servers.                                                 *)
(***************************************************************************)
EXTENDS ClientLifecycle, TLAPS

-----------------------------------------------------------------------------
(* The inductive invariant *)

\* A session that was not begun is untouched, and nobody names it.
BegunInv ==
    /\ \A g \in Sessions : g > begun => s[g] = NewSession
    /\ child <= begun /\ slot <= begun /\ call.g <= begun
    /\ call.at = "idle" => call.g = None
    /\ call.at # "idle" => call.g # None

\* connect has the client for itself; a close that is awaited keeps others out.
ExclusiveInv ==
    /\ call # Idle => slot = None /\ waiting = {}
    /\ waiting # {} => slot = None

\* Until its child is spawned a session has no teardown, and no child.
BeforeSpawn == {"load", "write", "rmtree", "spawn"}
SpawnInv ==
    /\ call.at \in BeforeSpawn =>
        s[call.g].pc = "none" /\ s[call.g].by = "nobody" /\ child # call.g
    /\ call.at = "load" => s[call.g].tree = "none"
    /\ call.at \in {"write", "spawn"} => s[call.g].tree \in {"none", "there"}

\* Whose child the transport may run: that of the session which connects, is
\* open, or closes and is waited for.
ChildInv ==
    /\ call.at \in {"handshake", "rollback", "unwind_close"} => child \in {None, call.g}
    /\ slot # None => child \in {None, slot}
    /\ \A g \in waiting : child \in {None, g}

\* A teardown is awaited, or was given up.
TeardownInv ==
    \A g \in Sessions :
        s[g].by = "task" /\ s[g].pc \notin {"none", "done", "dropped"}
          => g \in waiting \cup abandoned

\* Who is about to remove a tree called close on the transport first.
ClosedFirst ==
    /\ \A g \in Sessions : s[g].pc \in {"tree", "done"} /\ child = g => tried
    /\ call.at = "unwind_tree" /\ child = call.g => tried

IInv == /\ TypeOK /\ BegunInv /\ ExclusiveInv /\ SpawnInv /\ ChildInv /\ TeardownInv
        /\ ClosedFirst /\ TreeIsKept

-----------------------------------------------------------------------------
(* Sessions *)

\* What an attempt to remove a tree, or the guard, leaves of a session.
Removal(r, q) ==
    /\ q \in Session /\ q.made = r.made /\ q.pc = r.pc /\ q.by = r.by /\ q.reader = r.reader
    /\ q.tree \in {r.tree, "removed", "stuck"}

LEMMA AttemptsRemove ==
    ASSUME NEW r \in Session, NEW q \in Attempts(r) PROVE Removal(r, q)
BY LifecycleAssumption DEF Attempts, Removal, Session

LEMMA GuardRemoves ==
    ASSUME NEW r \in Session, NEW q \in GuardDrops(r)
    PROVE  Removal(r, q) /\ q.tree # "there"
BY DEF GuardDrops, Removal, Session

LEMMA InitIInv == Init => IInv
<1> SUFFICES ASSUME Init PROVE IInv
  OBVIOUS
<1>1. NewSession \in Session /\ Idle \in [g : Sessions \cup {None}, at : Stage]
  BY LifecycleAssumption DEF NewSession, Session, Teardown, Idle, Stage
<1>2. TypeOK
  <2>1. 0 \in 0..MaxSessions
    BY LifecycleAssumption
  <2>2. s \in [Sessions -> Session]
    BY <1>1 DEF Init
  <2>3. QED
    BY <1>1, <2>1, <2>2 DEF Init, TypeOK, None
<1>3. \A g \in Sessions : s[g] = NewSession /\ g # None
  BY DEF Init, Sessions, None
<1>4. QED
  BY <1>2, <1>3, LifecycleAssumption
     DEF Init, IInv, BegunInv, ExclusiveInv, SpawnInv, BeforeSpawn, ChildInv, TeardownInv,
         ClosedFirst, TreeIsKept, TreeOutlivesChild, TreeIsGuarded, Idle, None, NewSession

-----------------------------------------------------------------------------
(* connect *)

LEMMA ConnectStep ==
    ASSUME IInv, NEW valid, NEW resume, Connect(valid, resume) PROVE IInv'
<1> USE DEF Sessions, None
<1>0. /\ TypeOK /\ BegunInv /\ ExclusiveInv /\ SpawnInv /\ ChildInv /\ TeardownInv
      /\ ClosedFirst /\ TreeIsKept
  BY DEF IInv
<1>1. CASE call' = call /\ begun' = begun
  BY <1>0, <1>1
     DEF Connect, Free, IInv, TypeOK, BegunInv, ExclusiveInv, SpawnInv, ChildInv, TeardownInv,
         ClosedFirst, TreeIsKept, TreeOutlivesChild, TreeIsGuarded
<1>2. CASE ~ (call' = call /\ begun' = begun)
  <2> DEFINE n == begun + 1
  <2>1. /\ begun < MaxSessions /\ begun' = n /\ n \in 1..MaxSessions
        /\ call' = [g |-> n, at |-> IF resume THEN "load" ELSE "spawn"]
        /\ slot' = None /\ call = Idle /\ waiting = {}
        /\ UNCHANGED <<alive, servers, s, waiting, abandoned, child, tried, answered>>
    BY <1>0, <1>2, LifecycleAssumption DEF Connect, Free, TypeOK
  <2>2. s[n] = NewSession /\ child < n /\ call.at = "idle"
    BY <1>0, <2>1 DEF TypeOK, BegunInv, Idle
  <2>3. call'.g = n /\ call'.at \in {"load", "spawn"} /\ call' # Idle
    BY <2>1 DEF Idle
  <2>4. TypeOK' /\ BegunInv' /\ ExclusiveInv'
    <3>1. call' \in [g : Sessions \cup {None}, at : Stage]
      BY <2>1 DEF Stage
    <3> HIDE DEF n
    <3>2. QED
      BY <1>0, <2>1, <2>3, <3>1, LifecycleAssumption DEF n, TypeOK, BegunInv, ExclusiveInv
  <2> HIDE DEF n
  <2>5. SpawnInv' /\ ChildInv' /\ TeardownInv'
    BY <1>0, <2>1, <2>2, <2>3 DEF SpawnInv, BeforeSpawn, NewSession, ChildInv, TeardownInv, n
  <2>6. ClosedFirst' /\ TreeIsKept'
    BY <1>0, <2>1, <2>2, <2>3 DEF ClosedFirst, TreeIsKept, TreeOutlivesChild, TreeIsGuarded
  <2>7. QED
    BY <2>4, <2>5, <2>6 DEF IInv
<1>3. QED
  BY <1>1, <1>2

\* The connect in progress is that of a session, which was begun last.
LEMMA Calling ==
    ASSUME IInv, call.at # "idle"
    PROVE  call # Idle /\ call.g \in Sessions /\ s[call.g] \in Session
BY DEF IInv, TypeOK, BegunInv, Idle, Sessions, None

\* Where the call may go.
Call == [g : Sessions \cup {None}, at : Stage]
LEMMA CallMoves ==
    /\ Idle \in Call /\ Idle.g = None /\ Idle.at = "idle"
    /\ \A c \in Call, at \in Stage :
        LET m == [c EXCEPT !.at = at] IN m \in Call /\ m.g = c.g /\ m.at = at
<1>1. Idle \in Call /\ Idle.g = None /\ Idle.at = "idle"
  BY DEF Call, Idle, Stage
<1>2. ASSUME NEW c \in Call, NEW at \in Stage
      PROVE  LET m == [c EXCEPT !.at = at] IN m \in Call /\ m.g = c.g /\ m.at = at
  BY DEF Call
<1>3. QED
  BY <1>1, <1>2

\* A step that changes one session.
LEMMA Change ==
    ASSUME s \in [Sessions -> Session], NEW g \in Sessions, NEW r \in Session,
           s' = [s EXCEPT ![g] = r]
    PROVE  s' \in [Sessions -> Session] /\ s'[g] = r /\ \A h \in Sessions \ {g} : s'[h] = s[h]
OBVIOUS

LEMMA LoadStep ==
    ASSUME IInv, NEW outcome, LoadCandidate(outcome) PROVE IInv'
<1> USE DEF Sessions, None
<1>0. /\ TypeOK /\ BegunInv /\ ExclusiveInv /\ SpawnInv /\ ChildInv /\ TeardownInv
      /\ ClosedFirst /\ TreeIsKept
  BY DEF IInv
<1>1. call.g \in Sessions /\ s[call.g] \in Session /\ call # Idle /\ call.at = "load"
  BY Calling DEF LoadCandidate
<1>2. UNCHANGED <<alive, servers, slot, begun, waiting, abandoned, child, tried, answered>>
  BY DEF LoadCandidate
<1>3. s[call.g].tree = "none" /\ s[call.g].pc = "none"
  BY <1>0, <1>1 DEF SpawnInv, BeforeSpawn
<1>4. CASE outcome = "found"
  <2> DEFINE r == [s[call.g] EXCEPT !.tree = "there"]
  <2>1. s' = [s EXCEPT ![call.g] = r] /\ call' = [call EXCEPT !.at = "write"]
    BY <1>4 DEF LoadCandidate, Moves
  <2>2. r \in Session /\ r.tree = "there" /\ r.pc = "none" /\ r.by = s[call.g].by
    BY <1>1, <1>3 DEF Session
  <2>3. call'.g = call.g /\ call'.at = "write"
        /\ call' \in [g : Sessions \cup {None}, at : Stage] /\ call' # Idle
    BY <1>0, <2>1 DEF TypeOK, Stage, Idle
  <2> HIDE DEF r
  <2>4. s' \in [Sessions -> Session] /\ s'[call.g] = r
        /\ \A h \in Sessions \ {call.g} : s'[h] = s[h]
    BY <1>0, <1>1, <2>1, <2>2, Change DEF TypeOK
  <2>5. TypeOK' /\ BegunInv' /\ ExclusiveInv'
    BY <1>0, <1>1, <1>2, <2>2, <2>3, <2>4 DEF TypeOK, BegunInv, ExclusiveInv
  <2>6. SpawnInv' /\ ChildInv' /\ TeardownInv'
    BY <1>0, <1>1, <1>2, <1>3, <2>2, <2>3, <2>4
       DEF TypeOK, SpawnInv, BeforeSpawn, ChildInv, TeardownInv
  <2>7. ClosedFirst' /\ TreeIsKept'
    BY <1>0, <1>1, <1>2, <1>3, <2>2, <2>3, <2>4
       DEF TypeOK, SpawnInv, BeforeSpawn, ClosedFirst, TreeIsKept, TreeOutlivesChild, TreeIsGuarded
  <2>8. QED
    BY <2>5, <2>6, <2>7 DEF IInv
<1>5. CASE outcome # "found"
  <2>1. s' = s /\ (call' = Idle \/ call' = [call EXCEPT !.at = "spawn"])
    BY <1>5 DEF LoadCandidate, Moves
  <2>2. /\ call' = Idle \/ (call'.g = call.g /\ call'.at = "spawn")
        /\ call' \in [g : Sessions \cup {None}, at : Stage]
    <3>1. call \in Call /\ "spawn" \in Stage
      BY <1>0 DEF TypeOK, Call, Stage
    <3>2. CASE call' = Idle
      BY <3>2, CallMoves DEF Call
    <3>3. CASE call' = [call EXCEPT !.at = "spawn"]
      BY <3>1, <3>3, CallMoves DEF Call
    <3>4. QED
      BY <2>1, <3>2, <3>3
  <2>3. QED
    BY <1>0, <1>1, <1>2, <1>3, <2>1, <2>2
       DEF IInv, TypeOK, BegunInv, ExclusiveInv, SpawnInv, BeforeSpawn, ChildInv, TeardownInv,
           ClosedFirst, TreeIsKept, TreeOutlivesChild, TreeIsGuarded, Idle
<1>6. QED
  BY <1>4, <1>5

LEMMA WriteStep ==
    ASSUME IInv, NEW ok, WriteTree(ok) PROVE IInv'
<1> USE DEF Sessions, None
<1>0. /\ TypeOK /\ BegunInv /\ ExclusiveInv /\ SpawnInv /\ ChildInv /\ TeardownInv
      /\ ClosedFirst /\ TreeIsKept
  BY DEF IInv
<1>1. call.g \in Sessions /\ s[call.g] \in Session /\ call # Idle /\ call.at = "write"
  BY Calling DEF WriteTree
<1>2. UNCHANGED <<alive, servers, slot, begun, waiting, abandoned, child, tried, answered>>
  BY DEF WriteTree
<1> DEFINE r == IF ok THEN [s[call.g] EXCEPT !.made = TRUE] ELSE s[call.g]
<1>3. s' = [s EXCEPT ![call.g] = r]
  BY <1>0, <1>1 DEF WriteTree, TypeOK
<1>4. /\ r \in Session /\ r.tree = s[call.g].tree /\ r.pc = s[call.g].pc /\ r.by = s[call.g].by
      /\ ~ok => r.made = s[call.g].made
      /\ ok => r.made
  BY <1>1 DEF Session
<1> HIDE DEF r
<1>5. /\ call' \in [g : Sessions \cup {None}, at : Stage] /\ call'.g = call.g /\ call' # Idle
      /\ call'.at = IF ok THEN "spawn" ELSE "rmtree"
  BY <1>0 DEF WriteTree, Moves, TypeOK, Stage, Idle
<1>6. /\ s' \in [Sessions -> Session] /\ s'[call.g] = r
      /\ \A h \in Sessions \ {call.g} : s'[h] = s[h]
  BY <1>0, <1>1, <1>3, <1>4, Change DEF TypeOK
<1>7. TypeOK' /\ BegunInv' /\ ExclusiveInv'
  BY <1>0, <1>1, <1>2, <1>3, <1>4, <1>5, <1>6
     DEF TypeOK, BegunInv, ExclusiveInv
<1>8. SpawnInv' /\ ChildInv' /\ TeardownInv'
  BY <1>0, <1>1, <1>2, <1>3, <1>4, <1>5, <1>6
     DEF TypeOK, ExclusiveInv, SpawnInv, BeforeSpawn, ChildInv, TeardownInv
<1>9. ClosedFirst' /\ TreeIsKept'
  BY <1>0, <1>1, <1>2, <1>3, <1>4, <1>5, <1>6
     DEF TypeOK, SpawnInv, BeforeSpawn, ClosedFirst, TreeIsKept, TreeOutlivesChild,
         TreeIsGuarded
<1>10. QED
  BY <1>7, <1>8, <1>9 DEF IInv

\* An attempt to remove the tree is made when close was called on the transport, or
\* before there is a child.
LEMMA RemoveStep ==
    ASSUME IInv, RemoveTree PROVE IInv'
<1> USE DEF Sessions, None
<1>0. /\ TypeOK /\ BegunInv /\ ExclusiveInv /\ SpawnInv /\ ChildInv /\ TeardownInv
      /\ ClosedFirst /\ TreeIsKept
  BY DEF IInv
<1>1. call.g \in Sessions /\ s[call.g] \in Session /\ call # Idle /\ call.at \in {"rmtree", "unwind_tree"}
  BY Calling DEF RemoveTree
<1>2. UNCHANGED <<alive, servers, slot, begun, waiting, abandoned, child, tried, answered>>
  BY DEF RemoveTree
<1>3. PICK r \in Attempts(s[call.g]) :
        /\ s' = [s EXCEPT ![call.g] = r]
        /\ call' = IF r.tree = "there" THEN call ELSE Idle
  BY DEF RemoveTree
<1>4. Removal(s[call.g], r)
  BY <1>1, AttemptsRemove
<1>5. /\ r \in Session /\ r.pc = s[call.g].pc /\ r.by = s[call.g].by /\ r.made = s[call.g].made
      /\ r.tree \in {s[call.g].tree, "removed", "stuck"}
  BY <1>4 DEF Removal
<1>6. /\ s' \in [Sessions -> Session] /\ s'[call.g] = r
      /\ \A h \in Sessions \ {call.g} : s'[h] = s[h]
  BY <1>0, <1>1, <1>3, <1>5, Change DEF TypeOK
<1>7. call' = (IF r.tree = "there" THEN call ELSE Idle) /\ call' \in [g : Sessions \cup {None}, at : Stage]
  BY <1>0, <1>3, CallMoves DEF TypeOK, Call
<1>8. Idle.g = None /\ Idle.at = "idle"
  BY CallMoves
<1>9. TypeOK' /\ BegunInv' /\ ExclusiveInv'
  BY <1>0, <1>1, <1>2, <1>3, <1>4, <1>5, <1>6, <1>7, <1>8
     DEF TypeOK, BegunInv, ExclusiveInv
<1>10. SpawnInv' /\ ChildInv' /\ TeardownInv'
  BY <1>0, <1>1, <1>2, <1>3, <1>4, <1>5, <1>6, <1>7, <1>8
     DEF TypeOK, ExclusiveInv, SpawnInv, BeforeSpawn, ChildInv, TeardownInv
<1>11. ClosedFirst' /\ TreeIsKept'
  BY <1>0, <1>1, <1>2, <1>3, <1>4, <1>5, <1>6, <1>7, <1>8
     DEF TypeOK, SpawnInv, BeforeSpawn, ClosedFirst, TreeIsKept, TreeOutlivesChild,
         TreeIsGuarded
<1>12. QED
  BY <1>9, <1>10, <1>11 DEF IInv

\* The child that is started has its tree.
LEMMA SpawnStep ==
    ASSUME IInv, NEW outcome, Spawn(outcome) PROVE IInv'
<1> USE DEF Sessions, None
<1>0. /\ TypeOK /\ BegunInv /\ ExclusiveInv /\ SpawnInv /\ ChildInv /\ TeardownInv
      /\ ClosedFirst /\ TreeIsKept
  BY DEF IInv
<1>1. call.g \in Sessions /\ s[call.g] \in Session /\ call # Idle /\ call.at = "spawn"
  BY Calling DEF Spawn
<1>2. UNCHANGED <<alive, servers, slot, begun, waiting, abandoned>>
  BY DEF Spawn
<1> DEFINE r == IF outcome = "built" THEN [s[call.g] EXCEPT !.reader = "reading"] ELSE s[call.g]
<1>3. s' = [s EXCEPT ![call.g] = r]
  BY <1>0, <1>1 DEF Spawn, TypeOK
<1>4. /\ r \in Session /\ r.tree = s[call.g].tree /\ r.pc = s[call.g].pc /\ r.by = s[call.g].by
      /\ r.made = s[call.g].made
  BY <1>1 DEF Session
<1> HIDE DEF r
<1>5. /\ s' \in [Sessions -> Session] /\ s'[call.g] = r
      /\ \A h \in Sessions \ {call.g} : s'[h] = s[h]
  BY <1>0, <1>1, <1>3, <1>4, Change DEF TypeOK
<1>6. \/ /\ call' = Idle /\ UNCHANGED <<child, tried, answered>>
      \/ /\ child' = call.g /\ tried' = FALSE /\ answered' = FALSE
         /\ \E at \in {"handshake", "unwind_close"} : call' = [call EXCEPT !.at = at]
  BY DEF Spawn, Moves
<1>7. /\ call' = Idle => child' = child /\ tried' = tried /\ answered' = answered
      /\ call' # Idle =>
          /\ child' = call.g /\ ~tried' /\ ~answered' /\ tried' \in BOOLEAN /\ answered' \in BOOLEAN
          /\ call'.g = call.g /\ call'.at \in {"handshake", "unwind_close"}
  <2>1. CASE call' = Idle /\ UNCHANGED <<child, tried, answered>>
    BY <2>1
  <2>2. ASSUME NEW at \in {"handshake", "unwind_close"}, call' = [call EXCEPT !.at = at]
        PROVE  call'.g = call.g /\ call'.at = at /\ call' # Idle
    BY <1>0, <2>2 DEF TypeOK, Idle
  <2>3. QED
    BY <1>6, <2>1, <2>2
<1>8. Idle.g = None /\ Idle.at = "idle" /\ call' \in [g : Sessions \cup {None}, at : Stage]
  <2>1. call \in Call /\ {"handshake", "unwind_close"} \subseteq Stage
    BY <1>0 DEF TypeOK, Call, Stage
  <2>2. call' \in Call
    BY <1>6, <2>1, CallMoves
  <2>3. QED
    BY <2>2, CallMoves DEF Call
<1>9. TypeOK' /\ BegunInv' /\ ExclusiveInv'
  <2>1. CASE call' = Idle
    BY <1>0, <1>1, <1>2, <1>4, <1>5, <1>7, <1>8, <2>1
       DEF TypeOK, BegunInv, ExclusiveInv
  <2>2. CASE call' # Idle
    BY <1>0, <1>1, <1>2, <1>4, <1>5, <1>7, <1>8, <2>2
       DEF TypeOK, BegunInv, ExclusiveInv
  <2>3. QED
    BY <1>7, <2>1, <2>2
<1>10. SpawnInv' /\ ChildInv' /\ TeardownInv'
  <2>1. CASE call' = Idle
    BY <1>0, <1>1, <1>2, <1>4, <1>5, <1>7, <1>8, <2>1
       DEF TypeOK, ExclusiveInv, SpawnInv, BeforeSpawn, ChildInv, TeardownInv
  <2>2. CASE call' # Idle
    BY <1>0, <1>1, <1>2, <1>4, <1>5, <1>7, <1>8, <2>2
       DEF TypeOK, ExclusiveInv, SpawnInv, BeforeSpawn, ChildInv, TeardownInv
  <2>3. QED
    BY <1>7, <2>1, <2>2
<1>11. ClosedFirst' /\ TreeIsKept'
  <2>1. CASE call' = Idle
    BY <1>0, <1>1, <1>2, <1>4, <1>5, <1>7, <1>8, <2>1
       DEF TypeOK, SpawnInv, BeforeSpawn, ClosedFirst, TreeIsKept, TreeOutlivesChild,
           TreeIsGuarded
  <2>2. CASE call' # Idle
    BY <1>0, <1>1, <1>2, <1>4, <1>5, <1>7, <1>8, <2>2
       DEF TypeOK, SpawnInv, BeforeSpawn, ClosedFirst, TreeIsKept, TreeOutlivesChild,
           TreeIsGuarded
  <2>3. QED
    BY <1>7, <2>1, <2>2
<1>12. QED
  BY <1>9, <1>10, <1>11 DEF IInv

LEMMA UnwindStep ==
    ASSUME IInv, UnwindClose PROVE IInv'
<1> USE DEF Sessions, None
<1>0. /\ TypeOK /\ BegunInv /\ ExclusiveInv /\ SpawnInv /\ ChildInv /\ TeardownInv
      /\ ClosedFirst /\ TreeIsKept
  BY DEF IInv
<1>1. call.g \in Sessions /\ s[call.g] \in Session /\ call # Idle /\ call.at = "unwind_close"
  BY Calling DEF UnwindClose
<1>2. UNCHANGED <<alive, servers, slot, begun, s, waiting, abandoned, answered>>
      /\ tried' = TRUE /\ child' \in {None, child}
  BY DEF UnwindClose, TransportClose
<1>3. \/ s[call.g].tree # "there" /\ call' = Idle
      \/ s[call.g].tree = "there" /\ call' = [call EXCEPT !.at = "unwind_tree"]
  BY DEF UnwindClose
<1>4. \/ s[call.g].tree # "there" /\ call' = Idle
      \/ s[call.g].tree = "there" /\ call'.g = call.g /\ call'.at = "unwind_tree" /\ call' # Idle
  BY <1>0, <1>3 DEF TypeOK, Idle
<1>5. Idle.g = None /\ Idle.at = "idle" /\ call' \in [g : Sessions \cup {None}, at : Stage]
  <2>1. call \in Call /\ "unwind_tree" \in Stage
    BY <1>0 DEF TypeOK, Call, Stage
  <2>2. call' \in Call
    BY <1>3, <2>1, CallMoves
  <2>3. QED
    BY <2>2, CallMoves DEF Call
<1>6. TypeOK' /\ BegunInv' /\ ExclusiveInv'
  BY <1>0, <1>1, <1>2, <1>4, <1>5
     DEF TypeOK, BegunInv, ExclusiveInv
<1>7. SpawnInv' /\ ChildInv' /\ TeardownInv'
  BY <1>0, <1>1, <1>2, <1>4, <1>5
     DEF TypeOK, ExclusiveInv, SpawnInv, BeforeSpawn, ChildInv, TeardownInv
<1>8. ClosedFirst' /\ TreeIsKept'
  BY <1>0, <1>1, <1>2, <1>4, <1>5
     DEF TypeOK, SpawnInv, BeforeSpawn, ClosedFirst, TreeIsKept, TreeOutlivesChild,
         TreeIsGuarded
<1>9. QED
  BY <1>6, <1>7, <1>8 DEF IInv

\* The client gets the runtime of the call, and with it the child.
LEMMA AnswerStep ==
    ASSUME IInv, NEW g \in Sessions, TakeAnswer(g) PROVE IInv'
<1> USE DEF Sessions, None
<1>0. /\ TypeOK /\ BegunInv /\ ExclusiveInv /\ SpawnInv /\ ChildInv /\ TeardownInv
      /\ ClosedFirst /\ TreeIsKept
  BY DEF IInv
<1>1. UNCHANGED <<alive, servers, begun, s, waiting, abandoned, child, tried>>
  BY DEF TakeAnswer
<1>2. answered' = FALSE
  BY DEF TakeAnswer
<1>3. \/ call = [g |-> g, at |-> "handshake"] /\ slot' = g /\ call' = Idle
      \/ UNCHANGED <<slot, call>>
  BY DEF TakeAnswer
<1>4. \/ call.g = g /\ call.at = "handshake" /\ call # Idle /\ slot' = g /\ call' = Idle
      \/ UNCHANGED <<slot, call>>
  BY <1>3 DEF Idle
<1>5. Idle.g = None /\ Idle.at = "idle" /\ Idle \in [g : Sessions \cup {None}, at : Stage]
  BY CallMoves DEF Call
<1>6. TypeOK' /\ BegunInv' /\ ExclusiveInv'
  BY <1>0, <1>1, <1>2, <1>3, <1>4, <1>5
     DEF TypeOK, BegunInv, ExclusiveInv
<1>7. SpawnInv' /\ ChildInv' /\ TeardownInv'
  BY <1>0, <1>1, <1>2, <1>3, <1>4, <1>5
     DEF TypeOK, ExclusiveInv, SpawnInv, BeforeSpawn, ChildInv, TeardownInv
<1>8. ClosedFirst' /\ TreeIsKept'
  BY <1>0, <1>1, <1>2, <1>3, <1>4, <1>5
     DEF TypeOK, SpawnInv, BeforeSpawn, ClosedFirst, TreeIsKept, TreeOutlivesChild,
         TreeIsGuarded
<1>9. QED
  BY <1>6, <1>7, <1>8 DEF IInv

LEMMA HandshakeFailsStep ==
    ASSUME IInv, HandshakeFails PROVE IInv'
<1> USE DEF Sessions, None
<1>0. /\ TypeOK /\ BegunInv /\ ExclusiveInv /\ SpawnInv /\ ChildInv /\ TeardownInv
      /\ ClosedFirst /\ TreeIsKept
  BY DEF IInv
<1>1. call.g \in Sessions /\ s[call.g] \in Session /\ call # Idle /\ call.at = "handshake"
  BY Calling DEF HandshakeFails
<1>2. UNCHANGED <<alive, servers, slot, begun, waiting, abandoned, child, tried, answered>>
  BY DEF HandshakeFails
<1> DEFINE r == [s[call.g] EXCEPT !.pc = "handlers", !.by = "call"]
<1>3. s' = [s EXCEPT ![call.g] = r]
  BY <1>0, <1>1 DEF HandshakeFails, TypeOK
<1>4. /\ r \in Session /\ r.tree = s[call.g].tree /\ r.pc = "handlers" /\ r.by = "call"
      /\ r.made = s[call.g].made
  BY <1>1 DEF Session, Teardown
<1> HIDE DEF r
<1>5. /\ s' \in [Sessions -> Session] /\ s'[call.g] = r
      /\ \A h \in Sessions \ {call.g} : s'[h] = s[h]
  BY <1>0, <1>1, <1>3, <1>4, Change DEF TypeOK
<1>6. call' \in [g : Sessions \cup {None}, at : Stage] /\ call'.g = call.g /\ call'.at = "rollback" /\ call' # Idle
  BY <1>0 DEF HandshakeFails, Moves, TypeOK, Stage, Idle
<1>7. TypeOK' /\ BegunInv' /\ ExclusiveInv'
  BY <1>0, <1>1, <1>2, <1>3, <1>4, <1>5, <1>6
     DEF TypeOK, BegunInv, ExclusiveInv
<1>8. SpawnInv' /\ ChildInv' /\ TeardownInv'
  BY <1>0, <1>1, <1>2, <1>3, <1>4, <1>5, <1>6
     DEF TypeOK, ExclusiveInv, SpawnInv, BeforeSpawn, ChildInv, TeardownInv
<1>9. ClosedFirst' /\ TreeIsKept'
  BY <1>0, <1>1, <1>2, <1>3, <1>4, <1>5, <1>6
     DEF TypeOK, SpawnInv, BeforeSpawn, ClosedFirst, TreeIsKept, TreeOutlivesChild,
         TreeIsGuarded
<1>10. QED
  BY <1>7, <1>8, <1>9 DEF IInv

LEMMA RolledBackStep ==
    ASSUME IInv, RolledBack PROVE IInv'
<1> USE DEF Sessions, None
<1>0. /\ TypeOK /\ BegunInv /\ ExclusiveInv /\ SpawnInv /\ ChildInv /\ TeardownInv
      /\ ClosedFirst /\ TreeIsKept
  BY DEF IInv
<1>1. call.g \in Sessions /\ s[call.g] \in Session /\ call # Idle /\ call.at = "rollback"
  BY Calling DEF RolledBack
<1>2. call' = Idle /\ UNCHANGED <<alive, servers, slot, begun, s, waiting, abandoned, child, tried, answered>>
  BY DEF RolledBack
<1>3. Idle.g = None /\ Idle.at = "idle" /\ Idle \in [g : Sessions \cup {None}, at : Stage]
  BY CallMoves DEF Call
<1>4. TypeOK' /\ BegunInv' /\ ExclusiveInv'
  BY <1>0, <1>1, <1>2, <1>3
     DEF TypeOK, BegunInv, ExclusiveInv
<1>5. SpawnInv' /\ ChildInv' /\ TeardownInv'
  BY <1>0, <1>1, <1>2, <1>3
     DEF TypeOK, ExclusiveInv, SpawnInv, BeforeSpawn, ChildInv, TeardownInv
<1>6. ClosedFirst' /\ TreeIsKept'
  BY <1>0, <1>1, <1>2, <1>3
     DEF TypeOK, SpawnInv, BeforeSpawn, ClosedFirst, TreeIsKept, TreeOutlivesChild,
         TreeIsGuarded
<1>7. QED
  BY <1>4, <1>5, <1>6 DEF IInv

\* Whoever drops the call loses what the call alone owned: the guard, or the rollback.
LEMMA CancelStep ==
    ASSUME IInv, CancelConnect PROVE IInv'
<1> USE DEF Sessions, None
<1>0. /\ TypeOK /\ BegunInv /\ ExclusiveInv /\ SpawnInv /\ ChildInv /\ TeardownInv
      /\ ClosedFirst /\ TreeIsKept
  BY DEF IInv
<1>1. call.g \in Sessions /\ s[call.g] \in Session /\ call.at # "idle" /\ call # Idle
  <2>1. call.at # "idle"
    BY <1>0 DEF CancelConnect, TypeOK, BegunInv, Idle
  <2>2. QED
    BY <2>1, Calling
<1>2. UNCHANGED <<alive, servers, slot, begun, waiting, abandoned, child, tried, answered>>
  BY DEF CancelConnect
<1>3. PICK r \in IF call.at \in {"write", "rmtree"} THEN GuardDrops(s[call.g])
                ELSE IF call.at = "rollback" THEN {[s[call.g] EXCEPT !.pc = "dropped"]}
                ELSE {s[call.g]} :
        s' = [s EXCEPT ![call.g] = r]
  BY DEF CancelConnect
<1>4. /\ r \in Session /\ r.made = s[call.g].made /\ r.by = s[call.g].by
      /\ r.pc \in {s[call.g].pc, "dropped"} /\ r.tree \in {s[call.g].tree, "removed", "stuck"}
      /\ call.at \in {"write", "rmtree"} => r.tree # "there"
      /\ call.at \notin {"write", "rmtree"} => r.tree = s[call.g].tree
  <2>1. CASE call.at \in {"write", "rmtree"}
    BY <1>1, <1>3, <2>1, GuardRemoves DEF Removal
  <2>2. CASE call.at = "rollback"
    BY <1>1, <1>3, <2>2 DEF Session, Teardown
  <2>3. CASE call.at \notin {"write", "rmtree", "rollback"}
    BY <1>1, <1>3, <2>3
  <2>4. QED
    BY <2>1, <2>2, <2>3
<1>5. /\ s' \in [Sessions -> Session] /\ s'[call.g] = r
      /\ \A h \in Sessions \ {call.g} : s'[h] = s[h]
  BY <1>0, <1>1, <1>3, <1>4, Change DEF TypeOK
<1>6. call' = Idle
  BY DEF CancelConnect
<1>7. Idle.g = None /\ Idle.at = "idle" /\ Idle \in [g : Sessions \cup {None}, at : Stage]
  BY CallMoves DEF Call
<1>8. TypeOK' /\ BegunInv' /\ ExclusiveInv'
  BY <1>0, <1>1, <1>2, <1>3, <1>4, <1>5, <1>6, <1>7
     DEF TypeOK, BegunInv, ExclusiveInv
<1>9. SpawnInv' /\ ChildInv' /\ TeardownInv'
  BY <1>0, <1>1, <1>2, <1>3, <1>4, <1>5, <1>6, <1>7
     DEF TypeOK, ExclusiveInv, SpawnInv, BeforeSpawn, ChildInv, TeardownInv
<1>10. ClosedFirst' /\ TreeIsKept'
  BY <1>0, <1>1, <1>2, <1>3, <1>4, <1>5, <1>6, <1>7
     DEF TypeOK, SpawnInv, BeforeSpawn, ClosedFirst, TreeIsKept, TreeOutlivesChild,
         TreeIsGuarded
<1>11. QED
  BY <1>8, <1>9, <1>10 DEF IInv

-----------------------------------------------------------------------------
(* close and drop *)

LEMMA CloseStep ==
    ASSUME IInv, Close PROVE IInv'
<1> USE DEF Sessions, None
<1>0. /\ TypeOK /\ BegunInv /\ ExclusiveInv /\ SpawnInv /\ ChildInv /\ TeardownInv
      /\ ClosedFirst /\ TreeIsKept
  BY DEF IInv
<1>1. slot \in Sessions /\ s[slot] \in Session /\ call = Idle /\ waiting = {}
  BY <1>0 DEF Close, TypeOK, ExclusiveInv
<1>2. UNCHANGED <<alive, servers, begun, call, abandoned, child, tried, answered>>
  BY DEF Close
<1> DEFINE r == [s[slot] EXCEPT !.pc = "handlers", !.by = "task"]
<1>3. s' = [s EXCEPT ![slot] = r]
  BY <1>0, <1>1 DEF Close, TypeOK
<1>4. /\ r \in Session /\ r.tree = s[slot].tree /\ r.pc = "handlers" /\ r.by = "task"
      /\ r.made = s[slot].made
  BY <1>1 DEF Session, Teardown
<1> HIDE DEF r
<1>5. /\ s' \in [Sessions -> Session] /\ s'[slot] = r
      /\ \A h \in Sessions \ {slot} : s'[h] = s[h]
  BY <1>0, <1>1, <1>3, <1>4, Change DEF TypeOK
<1>6. slot' = None /\ waiting' = {slot}
  BY <1>1 DEF Close
<1>7. Idle.g = None /\ Idle.at = "idle"
  BY CallMoves
<1>8. TypeOK' /\ BegunInv' /\ ExclusiveInv'
  BY <1>0, <1>1, <1>2, <1>3, <1>4, <1>5, <1>6, <1>7
     DEF TypeOK, BegunInv, ExclusiveInv
<1>9. SpawnInv' /\ ChildInv' /\ TeardownInv'
  BY <1>0, <1>1, <1>2, <1>3, <1>4, <1>5, <1>6, <1>7
     DEF TypeOK, ExclusiveInv, SpawnInv, BeforeSpawn, ChildInv, TeardownInv
<1>10. ClosedFirst' /\ TreeIsKept'
  BY <1>0, <1>1, <1>2, <1>3, <1>4, <1>5, <1>6, <1>7
     DEF TypeOK, SpawnInv, BeforeSpawn, ClosedFirst, TreeIsKept, TreeOutlivesChild,
         TreeIsGuarded
<1>11. QED
  BY <1>8, <1>9, <1>10 DEF IInv

LEMMA CloseReturnsStep ==
    ASSUME IInv, NEW g \in Sessions, CloseReturns(g) PROVE IInv'
<1> USE DEF Sessions, None
<1>0. /\ TypeOK /\ BegunInv /\ ExclusiveInv /\ SpawnInv /\ ChildInv /\ TeardownInv
      /\ ClosedFirst /\ TreeIsKept
  BY DEF IInv
<1>1. UNCHANGED <<alive, servers, slot, begun, call, s, abandoned, child, tried, answered>> /\ waiting' = waiting \ {g}
      /\ g \in waiting /\ s[g].pc = "done"
  BY DEF CloseReturns
<1>2. TypeOK' /\ BegunInv' /\ ExclusiveInv'
  BY <1>0, <1>1
     DEF TypeOK, BegunInv, ExclusiveInv
<1>3. SpawnInv' /\ ChildInv' /\ TeardownInv'
  BY <1>0, <1>1
     DEF TypeOK, ExclusiveInv, SpawnInv, BeforeSpawn, ChildInv, TeardownInv
<1>4. ClosedFirst' /\ TreeIsKept'
  BY <1>0, <1>1
     DEF TypeOK, SpawnInv, BeforeSpawn, ClosedFirst, TreeIsKept, TreeOutlivesChild,
         TreeIsGuarded
<1>5. QED
  BY <1>2, <1>3, <1>4 DEF IInv

LEMMA AbandonStep ==
    ASSUME IInv, NEW g \in Sessions, AbandonClose(g) PROVE IInv'
<1> USE DEF Sessions, None
<1>0. /\ TypeOK /\ BegunInv /\ ExclusiveInv /\ SpawnInv /\ ChildInv /\ TeardownInv
      /\ ClosedFirst /\ TreeIsKept
  BY DEF IInv
<1>1. UNCHANGED <<alive, servers, slot, begun, call, s, child, tried, answered>> /\ g \in waiting
      /\ waiting' = waiting \ {g} /\ abandoned' = abandoned \cup {g}
  BY DEF AbandonClose
<1>2. TypeOK' /\ BegunInv' /\ ExclusiveInv'
  BY <1>0, <1>1
     DEF TypeOK, BegunInv, ExclusiveInv
<1>3. SpawnInv' /\ ChildInv' /\ TeardownInv'
  BY <1>0, <1>1
     DEF TypeOK, ExclusiveInv, SpawnInv, BeforeSpawn, ChildInv, TeardownInv
<1>4. ClosedFirst' /\ TreeIsKept'
  BY <1>0, <1>1
     DEF TypeOK, SpawnInv, BeforeSpawn, ClosedFirst, TreeIsKept, TreeOutlivesChild,
         TreeIsGuarded
<1>5. QED
  BY <1>2, <1>3, <1>4 DEF IInv

LEMMA DropStep ==
    ASSUME IInv, DropClient PROVE IInv'
<1> USE DEF Sessions, None
<1>0. /\ TypeOK /\ BegunInv /\ ExclusiveInv /\ SpawnInv /\ ChildInv /\ TeardownInv
      /\ ClosedFirst /\ TreeIsKept
  BY DEF IInv
<1>1. waiting = {} /\ call = Idle /\ slot' = None /\ alive' = FALSE
  BY DEF DropClient, Free
<1>2. UNCHANGED <<servers, begun, call, waiting, abandoned, child, tried, answered>>
  BY DEF DropClient
<1>3. s' \in [Sessions -> Session] /\ \A h \in Sessions :
        /\ s'[h].tree = s[h].tree /\ s'[h].pc = s[h].pc /\ s'[h].by = s[h].by
        /\ s'[h].made = s[h].made /\ (h > begun => s'[h] = s[h])
  <2>1. CASE slot = None
    BY <1>0, <2>1 DEF DropClient, TypeOK
  <2>2. CASE slot # None
    <3>1. slot \in Sessions /\ s[slot] \in Session /\ slot <= begun
      BY <1>0, <2>2 DEF TypeOK, BegunInv
    <3> DEFINE r == [s[slot] EXCEPT !.reader = "ended"]
    <3>2. s' = [s EXCEPT ![slot] = r]
      BY <2>2 DEF DropClient
    <3>3. /\ r \in Session /\ r.tree = s[slot].tree /\ r.pc = s[slot].pc /\ r.by = s[slot].by
          /\ r.made = s[slot].made
      BY <3>1 DEF Session
    <3> HIDE DEF r
    <3>4. /\ s' \in [Sessions -> Session] /\ s'[slot] = r
          /\ \A h \in Sessions \ {slot} : s'[h] = s[h]
      BY <1>0, <3>1, <3>2, <3>3, Change DEF TypeOK
    <3>5. QED
      BY <1>0, <3>1, <3>3, <3>4 DEF TypeOK
  <2>3. QED
    BY <2>1, <2>2
<1>4. Idle.g = None /\ Idle.at = "idle"
  BY CallMoves
<1>5. TypeOK' /\ BegunInv' /\ ExclusiveInv'
  BY <1>0, <1>1, <1>2, <1>3, <1>4
     DEF TypeOK, BegunInv, ExclusiveInv
<1>6. SpawnInv' /\ ChildInv' /\ TeardownInv'
  BY <1>0, <1>1, <1>2, <1>3, <1>4
     DEF TypeOK, ExclusiveInv, SpawnInv, BeforeSpawn, ChildInv, TeardownInv
<1>7. ClosedFirst' /\ TreeIsKept'
  BY <1>0, <1>1, <1>2, <1>3, <1>4
     DEF TypeOK, SpawnInv, BeforeSpawn, ClosedFirst, TreeIsKept, TreeOutlivesChild,
         TreeIsGuarded
<1>8. QED
  BY <1>5, <1>6, <1>7 DEF IInv

\* A teardown goes on before the transport is closed.
LEMMA TeardownGoesOn ==
    ASSUME IInv, NEW g \in Sessions, NEW r \in Session, Tearing(g),
           s[g].pc \in {"handlers", "reader", "flush", "input"},
           r.pc \in {"reader", "flush", "input", "transport"},
           r.tree = s[g].tree, r.made = s[g].made, r.by = s[g].by,
           s' = [s EXCEPT ![g] = r], TeardownOnly, UNCHANGED <<child, tried>>
    PROVE IInv'
<1> USE DEF Sessions, None
<1>0. /\ TypeOK /\ BegunInv /\ ExclusiveInv /\ SpawnInv /\ ChildInv /\ TeardownInv
      /\ ClosedFirst /\ TreeIsKept
  BY DEF IInv
<1>1. UNCHANGED <<alive, servers, slot, begun, call, waiting, abandoned, child, tried, answered>>
  BY DEF TeardownOnly
<1>2. s[g] # NewSession /\ g <= begun /\ s[g].pc # "none"
  BY <1>0 DEF TypeOK, BegunInv, NewSession
<1>3. /\ s' \in [Sessions -> Session] /\ s'[g] = r
      /\ \A h \in Sessions \ {g} : s'[h] = s[h]
  BY <1>0, Change DEF TypeOK
<1>4. TypeOK' /\ BegunInv' /\ ExclusiveInv'
  BY <1>0, <1>1, <1>2, <1>3
     DEF TypeOK, BegunInv, ExclusiveInv
<1>5. SpawnInv' /\ ChildInv' /\ TeardownInv'
  BY <1>0, <1>1, <1>2, <1>3
     DEF TypeOK, ExclusiveInv, SpawnInv, BeforeSpawn, ChildInv, TeardownInv
<1>6. ClosedFirst' /\ TreeIsKept'
  BY <1>0, <1>1, <1>2, <1>3
     DEF TypeOK, SpawnInv, BeforeSpawn, ClosedFirst, TreeIsKept, TreeOutlivesChild,
         TreeIsGuarded
<1>7. QED
  BY <1>4, <1>5, <1>6 DEF IInv

LEMMA EarlyTeardownStep ==
    ASSUME IInv, NEW g \in Sessions,
           CancelHandlers(g) \/ AbortReader(g) \/ FinalFlush(g) \/ EndInput(g)
    PROVE  IInv'
<1>1. s[g] \in Session /\ s \in [Sessions -> Session]
  BY DEF IInv, TypeOK
<1>2. ASSUME NEW from \in {"handlers", "flush", "input"},
             NEW to \in {"reader", "input", "transport"}, Step(g, from, to), TeardownOnly, 
             UNCHANGED <<child, tried>>
      PROVE  IInv'
  <2> DEFINE r == [s[g] EXCEPT !.pc = to]
  <2>1. /\ r \in Session /\ r.pc = to /\ r.tree = s[g].tree /\ r.made = s[g].made
        /\ r.by = s[g].by
    BY <1>1 DEF Session, Teardown
  <2>2. s' = [s EXCEPT ![g] = r] /\ s[g].pc = from /\ Tearing(g)
    BY <1>2 DEF Step
  <2> HIDE DEF r
  <2>3. QED
    BY <1>2, <2>1, <2>2, TeardownGoesOn
<1>3. CASE AbortReader(g)
  <2> DEFINE r == [s[g] EXCEPT !.pc = "flush", !.reader = "ended"]
  <2>1. /\ r \in Session /\ r.pc = "flush" /\ r.tree = s[g].tree /\ r.made = s[g].made
        /\ r.by = s[g].by
    BY <1>1 DEF Session, Teardown
  <2>2. s' = [s EXCEPT ![g] = r]
    BY <1>1, <1>3 DEF AbortReader
  <2> HIDE DEF r
  <2>3. QED
    BY <1>3, <2>1, <2>2, TeardownGoesOn DEF AbortReader
<1>4. QED
  BY <1>2, <1>3 DEF CancelHandlers, FinalFlush, EndInput

LEMMA CloseTransportStep ==
    ASSUME IInv, NEW g \in Sessions, CloseTransport(g) PROVE IInv'
<1> USE DEF Sessions, None
<1>0. /\ TypeOK /\ BegunInv /\ ExclusiveInv /\ SpawnInv /\ ChildInv /\ TeardownInv
      /\ ClosedFirst /\ TreeIsKept
  BY DEF IInv
<1>1. UNCHANGED <<alive, servers, slot, begun, call, waiting, abandoned, answered>>
  BY DEF CloseTransport, TeardownOnly
<1>2. s[g].pc = "transport" /\ s[g] \in Session /\ s[g] # NewSession /\ g <= begun
  BY <1>0 DEF CloseTransport, Step, TypeOK, BegunInv, NewSession
<1>3. /\ tried' = TRUE /\ child' \in {None, child}
      /\ call.at # "idle" => call.g # None
  BY <1>0 DEF CloseTransport, TransportClose, BegunInv
<1> DEFINE r == [s[g] EXCEPT !.pc = IF s[g].tree = "there" THEN "tree" ELSE "done"]
<1>4. s' = [s EXCEPT ![g] = r]
  BY DEF CloseTransport, Step
<1>5. /\ r \in Session /\ r.pc \in {"tree", "done"} /\ r.tree = s[g].tree /\ r.by = s[g].by
      /\ r.made = s[g].made
  BY <1>2 DEF Session, Teardown
<1> HIDE DEF r
<1>6. /\ s' \in [Sessions -> Session] /\ s'[g] = r
      /\ \A h \in Sessions \ {g} : s'[h] = s[h]
  BY <1>0, <1>4, <1>5, Change DEF TypeOK
<1>7. TypeOK' /\ BegunInv' /\ ExclusiveInv'
  BY <1>0, <1>1, <1>2, <1>3, <1>4, <1>5, <1>6
     DEF TypeOK, BegunInv, ExclusiveInv
<1>8. SpawnInv' /\ ChildInv' /\ TeardownInv'
  BY <1>0, <1>1, <1>2, <1>3, <1>4, <1>5, <1>6
     DEF TypeOK, ExclusiveInv, SpawnInv, BeforeSpawn, ChildInv, TeardownInv
<1>9. ClosedFirst' /\ TreeIsKept'
  BY <1>0, <1>1, <1>2, <1>3, <1>4, <1>5, <1>6
     DEF TypeOK, SpawnInv, BeforeSpawn, ClosedFirst, TreeIsKept, TreeOutlivesChild,
         TreeIsGuarded
<1>10. QED
  BY <1>7, <1>8, <1>9 DEF IInv

LEMMA CleanupStep ==
    ASSUME IInv, NEW g \in Sessions, Cleanup(g) PROVE IInv'
<1> USE DEF Sessions, None
<1>0. /\ TypeOK /\ BegunInv /\ ExclusiveInv /\ SpawnInv /\ ChildInv /\ TeardownInv
      /\ ClosedFirst /\ TreeIsKept
  BY DEF IInv
<1>1. UNCHANGED <<alive, servers, slot, begun, call, waiting, abandoned, child, tried, answered>>
  BY DEF Cleanup, TeardownOnly
<1>2. s[g].pc = "tree" /\ s[g] \in Session /\ s[g] # NewSession /\ g <= begun
  BY <1>0 DEF Cleanup, TypeOK, BegunInv, NewSession
<1>3. PICK q \in Attempts(s[g]) :
        s' = [s EXCEPT ![g] = IF q.tree = "there" THEN q ELSE [q EXCEPT !.pc = "done"]]
  BY DEF Cleanup
<1> DEFINE r == IF q.tree = "there" THEN q ELSE [q EXCEPT !.pc = "done"]
<1>4. /\ r \in Session /\ r.pc \in {"tree", "done"} /\ r.by = s[g].by /\ r.made = s[g].made
      /\ r.tree \in {s[g].tree, "removed", "stuck"}
  <2>1. Removal(s[g], q)
    BY <1>2, AttemptsRemove
  <2>2. QED
    BY <1>2, <2>1 DEF Removal, Session, Teardown
<1>5. s' = [s EXCEPT ![g] = r]
  BY <1>3
<1> HIDE DEF r
<1>6. /\ s' \in [Sessions -> Session] /\ s'[g] = r
      /\ \A h \in Sessions \ {g} : s'[h] = s[h]
  BY <1>0, <1>4, <1>5, Change DEF TypeOK
<1>7. TypeOK' /\ BegunInv' /\ ExclusiveInv'
  BY <1>0, <1>1, <1>2, <1>4, <1>5, <1>6
     DEF TypeOK, BegunInv, ExclusiveInv
<1>8. SpawnInv' /\ ChildInv' /\ TeardownInv'
  BY <1>0, <1>1, <1>2, <1>4, <1>5, <1>6
     DEF TypeOK, ExclusiveInv, SpawnInv, BeforeSpawn, ChildInv, TeardownInv
<1>9. ClosedFirst' /\ TreeIsKept'
  BY <1>0, <1>1, <1>2, <1>4, <1>5, <1>6
     DEF TypeOK, SpawnInv, BeforeSpawn, ClosedFirst, TreeIsKept, TreeOutlivesChild,
         TreeIsGuarded
<1>10. QED
  BY <1>7, <1>8, <1>9 DEF IInv

-----------------------------------------------------------------------------
(* The readers, and the child *)

LEMMA ReaderStep ==
    ASSUME IInv, NEW g \in Sessions, ReadFrame(g) \/ Deliver(g) \/ ReadEnd(g) PROVE IInv'
<1> USE DEF Sessions, None
<1>0. /\ TypeOK /\ BegunInv /\ ExclusiveInv /\ SpawnInv /\ ChildInv /\ TeardownInv
      /\ ClosedFirst /\ TreeIsKept
  BY DEF IInv
<1>1. UNCHANGED <<alive, servers, slot, begun, call, waiting, abandoned, child, tried, answered>>
  BY DEF ReadFrame, Deliver, ReadEnd
<1>2. PICK to \in {"busy", "reading", "ended"} : s' = [s EXCEPT ![g].reader = to]
  BY DEF ReadFrame, Deliver, ReadEnd
<1>3. s[g] \in Session /\ s[g] # NewSession /\ g <= begun
  BY <1>0 DEF ReadFrame, Deliver, ReadEnd, TypeOK, BegunInv, NewSession
<1> DEFINE r == [s[g] EXCEPT !.reader = to]
<1>4. /\ r \in Session /\ r.tree = s[g].tree /\ r.pc = s[g].pc /\ r.by = s[g].by
      /\ r.made = s[g].made
  BY <1>3 DEF Session
<1>5. s' = [s EXCEPT ![g] = r]
  BY <1>2
<1> HIDE DEF r
<1>6. /\ s' \in [Sessions -> Session] /\ s'[g] = r
      /\ \A h \in Sessions \ {g} : s'[h] = s[h]
  BY <1>0, <1>4, <1>5, Change DEF TypeOK
<1>7. \A h \in Sessions : /\ s'[h].tree = s[h].tree /\ s'[h].pc = s[h].pc
                            /\ s'[h].by = s[h].by /\ s'[h].made = s[h].made
  BY <1>4, <1>6
<1>8. call.at \in BeforeSpawn => call.g \in Sessions
  BY <1>0, Calling DEF BeforeSpawn
<1>9. TypeOK' /\ BegunInv' /\ ExclusiveInv'
  BY <1>0, <1>1, <1>3, <1>4, <1>6
     DEF TypeOK, BegunInv, ExclusiveInv
<1>10. SpawnInv' /\ ChildInv' /\ TeardownInv'
  BY <1>0, <1>1, <1>7, <1>8
     DEF TypeOK, ExclusiveInv, SpawnInv, BeforeSpawn, ChildInv, TeardownInv
<1>11. ClosedFirst' /\ TreeIsKept'
  BY <1>0, <1>1, <1>7, <1>8
     DEF TypeOK, SpawnInv, BeforeSpawn, ClosedFirst, TreeIsKept, TreeOutlivesChild,
         TreeIsGuarded
<1>12. QED
  BY <1>9, <1>10, <1>11 DEF IInv

\* The child ends or answers, a server is added, or nothing happens.
LEMMA ChildStep ==
    ASSUME IInv, ChildExits \/ ChildAnswers \/ (\E m \in Servers : AddServer(m)) \/ UNCHANGED vars
    PROVE IInv'
<1> USE DEF Sessions, None
<1>0. /\ TypeOK /\ BegunInv /\ ExclusiveInv /\ SpawnInv /\ ChildInv /\ TeardownInv
      /\ ClosedFirst /\ TreeIsKept
  BY DEF IInv
<1>1. /\ UNCHANGED <<alive, slot, begun, call, s, waiting, abandoned, tried>>
      /\ child' \in {None, child} /\ servers' \subseteq Servers /\ answered' \in BOOLEAN
  BY <1>0 DEF ChildExits, ChildAnswers, AddServer, vars, TypeOK
<1>2. call.at # "idle" => call.g # None
  BY <1>0 DEF BegunInv
<1>3. TypeOK' /\ BegunInv' /\ ExclusiveInv'
  BY <1>0, <1>1, <1>2
     DEF TypeOK, BegunInv, ExclusiveInv
<1>4. SpawnInv' /\ ChildInv' /\ TeardownInv'
  BY <1>0, <1>1, <1>2
     DEF TypeOK, ExclusiveInv, SpawnInv, BeforeSpawn, ChildInv, TeardownInv
<1>5. ClosedFirst' /\ TreeIsKept'
  BY <1>0, <1>1, <1>2
     DEF TypeOK, SpawnInv, BeforeSpawn, ClosedFirst, TreeIsKept, TreeOutlivesChild,
         TreeIsGuarded
<1>6. QED
  BY <1>3, <1>4, <1>5 DEF IInv

-----------------------------------------------------------------------------
(* The theorems *)

LEMMA NextIInv == IInv /\ [Next]_vars => IInv'
<1> SUFFICES ASSUME IInv, [Next]_vars PROVE IInv'
  OBVIOUS
<1>1. CASE \E valid, resume \in BOOLEAN : Connect(valid, resume)
  BY <1>1, ConnectStep
<1>2. CASE \E outcome \in {"found", "none", "error"} : LoadCandidate(outcome)
  BY <1>2, LoadStep
<1>3. CASE \E ok \in BOOLEAN : WriteTree(ok)
  BY <1>3, WriteStep
<1>4. CASE RemoveTree \/ UnwindClose \/ HandshakeFails \/ RolledBack \/ CancelConnect
  BY <1>4, RemoveStep, UnwindStep, HandshakeFailsStep, RolledBackStep, CancelStep
<1>5. CASE \E outcome \in {"error", "built", "unbuilt"} : Spawn(outcome)
  BY <1>5, SpawnStep
<1>6. CASE Close \/ DropClient
  BY <1>6, CloseStep, DropStep
<1>7. ASSUME NEW g \in Sessions, TakeAnswer(g) \/ CloseReturns(g) \/ AbandonClose(g)
      PROVE  IInv'
  BY <1>7, AnswerStep, CloseReturnsStep, AbandonStep
<1>8. ASSUME NEW g \in Sessions, TeardownStep(g) PROVE IInv'
  BY <1>8, EarlyTeardownStep, CloseTransportStep, CleanupStep DEF TeardownStep
<1>9. ASSUME NEW g \in Sessions, ReadFrame(g) \/ Deliver(g) \/ ReadEnd(g) PROVE IInv'
  BY <1>9, ReaderStep
<1>10. CASE ChildExits \/ ChildAnswers \/ (\E m \in Servers : AddServer(m)) \/ UNCHANGED vars
  BY <1>10, ChildStep
<1>11. QED
  BY <1>1, <1>2, <1>3, <1>4, <1>5, <1>6, <1>7, <1>8, <1>9, <1>10 DEF Next

LEMMA Inductive == Spec => []IInv
BY InitIInv, NextIInv, PTL DEF Spec

\* Nobody removes the temporary tree of a resumed session while the child that was
\* started on it may run, and until the materialization hands it over the connect under
\* way owns it, whatever fails, whatever is dropped, and however often the client
\* connects again (agent_runtime.rs Runtime::close, resume.rs TempTreeGuard).
THEOREM TreeIsSafe == Spec => []TreeIsKept
<1>1. IInv => TreeIsKept
  BY DEF IInv
<1>2. QED
  BY <1>1, Inductive, PTL

\* What a teardown that ends the child of another session must be.
LEMMA ForeignStep ==
    ASSUME IInv, [Next]_vars, NEW g \in Sessions,
           s[g].pc = "transport", s'[g].pc \in {"tree", "done"}, child \notin {None, g}
    PROVE  g \in abandoned
<1>1. CASE CloseTransport(g)
  BY <1>1 DEF CloseTransport, Step, Tearing, IInv, ChildInv, TeardownInv
<1>2. CASE ~CloseTransport(g)
  <2> SUFFICES FALSE
    OBVIOUS
  <2>1. /\ s \in [Sessions -> Session] /\ slot \in Sessions \cup {None}
        /\ s'[g].pc # s[g].pc /\ s'[g].pc \notin {"handlers", "dropped"}
    BY DEF IInv, TypeOK
  <2>2. call.at # "idle" => call.g \in Sessions /\ s[call.g] \in Session
    BY Calling
  <2>3. ASSUME NEW h \in Sessions, NEW r \in Session, r.pc = s[h].pc, s' = [s EXCEPT ![h] = r]
        PROVE  FALSE
    BY <2>1, <2>3
  <2>4. CASE s' = s
    BY <2>1, <2>4
  <2>5. ASSUME NEW outcome, LoadCandidate(outcome) \/ Spawn(outcome) \/ WriteTree(outcome)
        PROVE  FALSE
    BY <2>1, <2>2, <2>5 DEF LoadCandidate, Spawn, WriteTree, Session
  <2>6. CASE RemoveTree
    BY <2>2, <2>3, <2>6, AttemptsRemove DEF RemoveTree, Removal
  <2>7. CASE CancelConnect
    <3>1. call.at # "idle"
      BY <2>7 DEF CancelConnect, IInv, TypeOK, BegunInv, Idle
    <3>2. PICK r \in IF call.at \in {"write", "rmtree"} THEN GuardDrops(s[call.g])
                     ELSE IF call.at = "rollback" THEN {[s[call.g] EXCEPT !.pc = "dropped"]}
                     ELSE {s[call.g]} :
            s' = [s EXCEPT ![call.g] = r]
      BY <2>7 DEF CancelConnect
    <3>3. r.pc \in {s[call.g].pc, "dropped"}
      BY <2>2, <3>1, <3>2, GuardRemoves DEF Removal, Session
    <3>4. QED
      BY <2>1, <2>2, <3>1, <3>2, <3>3
  <2>8. CASE HandshakeFails \/ Close \/ DropClient
    BY <2>1, <2>2, <2>8 DEF HandshakeFails, Close, DropClient, Session, None
  <2>9. ASSUME NEW h \in Sessions, TeardownStep(h), ~CloseTransport(h) \/ h # g PROVE FALSE
    BY <2>1, <2>9
       DEF TeardownStep, CancelHandlers, AbortReader, FinalFlush, EndInput, CloseTransport,
           Cleanup, Step
  <2>10. ASSUME NEW h \in Sessions, ReadFrame(h) \/ Deliver(h) \/ ReadEnd(h) PROVE FALSE
    BY <2>1, <2>10 DEF ReadFrame, Deliver, ReadEnd, Session
  <2>11. QED
    BY <1>2, <2>4, <2>5, <2>6, <2>7, <2>8, <2>9, <2>10
       DEF Next, vars, AddServer, Connect, UnwindClose, TakeAnswer, RolledBack, CloseReturns,
           AbandonClose, ChildAnswers, ChildExits
<1>3. QED
  BY <1>1, <1>2

\* A teardown closes the child of another session only if the caller of its close
\* gave up, and the client was connected again behind it: connect takes the client
\* exclusively, and close holds a borrow of it as long as it is awaited (agent.rs).
THEOREM ClosesItsOwnChild == Spec => NoForeignClose
<1>1. IInv /\ [Next]_vars =>
        [\A g \in Sessions :
            s[g].pc = "transport" /\ s'[g].pc \in {"tree", "done"} /\ child \notin {None, g}
                => g \in abandoned]_vars
  BY ForeignStep
<1>2. QED
  BY <1>1, Inductive, PTL DEF Spec, NoForeignClose
=============================================================================

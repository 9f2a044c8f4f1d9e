-------------------------- MODULE RunBoundaryProofs --------------------------
(***************************************************************************)
(* Theorems about the run boundary, for every set of agents, ceiling,      *)
(* channel capacity, number of frames and scheduler: the deadline of the   *)
(* tracker is set exactly where the wait for idle is to be bounded, and a  *)
(* query returns with the result that ended the run.                       *)
(***************************************************************************)
EXTENDS RunBoundary, SequenceTheorems, TLAPS

\* What both properties say of a tracker: a deadline only in a gap, and one in
\* every gap.
Waits(tr) ==
    /\ tr.needsStdin /\ tr.result /\ ~tr.turn /\ ~tr.runEnded
    /\ tr.state = "running" /\ tr.tasks = {}

GoodTracker(tr) ==
    /\ tr \in Tracker
    /\ tr.deadline # NoDeadline =>
         /\ tr.needsStdin /\ tr.result /\ ~tr.turn /\ ~tr.runEnded
         /\ tr.state # "requires_action"
    /\ Ceiling > 0 /\ Waits(tr) => tr.deadline # NoDeadline

\* A new tracker has no deadline and waits for nothing.
LEMMA NewTrackerGood ==
    ASSUME NEW needs \in BOOLEAN PROVE GoodTracker(NewTracker(needs))
BY DEF GoodTracker, NewTracker, Tracker, State, Waits, NoDeadline

\* Arming the ceiling past a result, in any state that is not a request.
LEMMA ArmGood ==
    ASSUME NEW tr \in Tracker, NEW now \in Nat,
           tr.result, tr.state # "requires_action"
    PROVE  GoodTracker(ArmCeiling(tr, now))
BY TrackerAssumption DEF GoodTracker, ArmCeiling, Tracker, State, Waits, NoDeadline

LEMMA MaybeEndRunGood ==
    ASSUME NEW tr \in Tracker,
           tr.tasks = {} \/ GoodTracker(tr)
    PROVE  GoodTracker(MaybeEndRun(tr).tracker)
<1>1. CASE tr.tasks = {}
  BY <1>1 DEF GoodTracker, MaybeEndRun, Verdict, Tracker, State, Waits, NoDeadline
<1>2. CASE tr.tasks # {}
  BY <1>2 DEF MaybeEndRun, Verdict
<1>3. QED
  BY <1>1, <1>2

LEMMA OnTaskGood ==
    ASSUME NEW tr, GoodTracker(tr), NEW tasks \in SUBSET Agent, NEW now \in Nat
    PROVE  GoodTracker(OnTask(tr, tasks, now).tracker)
<1> DEFINE tracked == [tr EXCEPT !.tasks = tasks]
<1>1. tr \in Tracker /\ tracked \in Tracker
  BY DEF GoodTracker, Tracker
<1>2. CASE tr.tasks # {} /\ tasks = {} /\ tr.result /\ tr.state = "running"
  <2>1. OnTask(tr, tasks, now).tracker = ArmCeiling(tracked, now)
    BY <1>1, <1>2 DEF OnTask, Verdict, RearmBetweenTurns, Tracker
  <2>2. tracked.result /\ tracked.state # "requires_action"
    BY <1>1, <1>2 DEF Tracker
  <2>3. QED
    BY <2>1, <2>2, <1>1, ArmGood
<1>3. CASE ~ (tr.tasks # {} /\ tasks = {} /\ tr.result /\ tr.state = "running")
  <2>1. OnTask(tr, tasks, now).tracker = tracked
    BY <1>1, <1>3 DEF OnTask, Verdict, RearmBetweenTurns, Tracker
  <2>2. GoodTracker(tracked)
    BY <1>1, <1>3 DEF GoodTracker, Waits, Tracker
  <2>3. QED
    BY <2>1, <2>2
<1>4. QED
  BY <1>2, <1>3

LEMMA OnSessionStateGood ==
    ASSUME NEW tr, GoodTracker(tr), NEW s \in State, NEW now \in Nat
    PROVE  GoodTracker(OnSessionState(tr, s, now).tracker)
<1> DEFINE told == [tr EXCEPT !.state = s]
           open == [told EXCEPT !.runEnded = FALSE]
<1>1. tr \in Tracker /\ told \in Tracker /\ open \in Tracker
  BY DEF GoodTracker, Tracker
<1>2. CASE s = "idle"
  <2>1. GoodTracker(told)
    <3>1. /\ told.state = "idle" /\ told.deadline = tr.deadline
          /\ told.needsStdin = tr.needsStdin /\ told.result = tr.result
          /\ told.turn = tr.turn /\ told.runEnded = tr.runEnded
      BY <1>1, <1>2 DEF Tracker
    <3> HIDE DEF told
    <3>2. QED
      BY <1>1, <3>1 DEF GoodTracker, Waits
  <2>2. OnSessionState(tr, s, now).tracker
          = IF told.result THEN MaybeEndRun(told).tracker ELSE told
    BY <1>2 DEF OnSessionState, Verdict
  <2>3. QED
    BY <2>1, <2>2, <1>1, MaybeEndRunGood
<1>3. CASE s = "requires_action"
  <2>1. OnSessionState(tr, s, now).tracker = [open EXCEPT !.deadline = NoDeadline]
    BY <1>3 DEF OnSessionState, Verdict
  <2>2. [open EXCEPT !.deadline = NoDeadline] \in Tracker
    BY <1>1 DEF Tracker, NoDeadline
  <2>3. /\ [open EXCEPT !.deadline = NoDeadline].deadline = NoDeadline
        /\ [open EXCEPT !.deadline = NoDeadline].state = "requires_action"
    BY <1>1, <1>3 DEF Tracker
  <2>4. QED
    BY <2>1, <2>2, <2>3 DEF GoodTracker, Waits
<1>4. CASE s \in {"none", "running"}
  <2>1. OnSessionState(tr, s, now).tracker = RearmBetweenTurns(open, now)
    BY <1>4 DEF OnSessionState, Verdict
  <2>2. CASE open.result /\ open.state = "running"
    BY <2>1, <2>2, <1>1, ArmGood DEF RearmBetweenTurns
  <2>3. CASE ~ (open.result /\ open.state = "running")
    <3>1. OnSessionState(tr, s, now).tracker = open
      BY <2>1, <2>3 DEF RearmBetweenTurns
    <3>2. GoodTracker(open)
      BY <1>1, <1>4, <2>3 DEF GoodTracker, Waits, Tracker
    <3>3. QED
      BY <3>1, <3>2
  <2>4. QED
    BY <2>2, <2>3
<1>5. QED
  BY <1>2, <1>3, <1>4 DEF State

LEMMA OnResultGood ==
    ASSUME NEW tr, GoodTracker(tr), NEW now \in Nat
    PROVE  GoodTracker(OnResult(tr, now).tracker)
<1> DEFINE fresh == [tr EXCEPT !.result = TRUE, !.turn = FALSE, !.runEnded = FALSE]
<1>1. tr \in Tracker /\ fresh \in Tracker
  BY DEF GoodTracker, Tracker
<1>2. CASE tr.state \in {"none", "idle"} \/ ~tr.needsStdin
  <2>1. GoodTracker(fresh)
    BY <1>1, <1>2 DEF GoodTracker, Waits, Tracker
  <2>2. OnResult(tr, now).tracker = MaybeEndRun(fresh).tracker
    BY <1>2 DEF OnResult
  <2>3. QED
    BY <2>1, <2>2, <1>1, MaybeEndRunGood
<1>3. CASE ~ (tr.state \in {"none", "idle"} \/ ~tr.needsStdin) /\ tr.state # "requires_action"
  <2>1. OnResult(tr, now).tracker = ArmCeiling(fresh, now)
    BY <1>3 DEF OnResult, Verdict
  <2>2. fresh.result /\ fresh.state # "requires_action"
    BY <1>1, <1>3 DEF Tracker
  <2>3. QED
    BY <2>1, <2>2, <1>1, ArmGood
<1>4. CASE ~ (tr.state \in {"none", "idle"} \/ ~tr.needsStdin) /\ tr.state = "requires_action"
  <2>1. OnResult(tr, now).tracker = fresh
    BY <1>4 DEF OnResult, Verdict
  <2>2. QED
    BY <2>1, <1>1, <1>4 DEF GoodTracker, Waits, Tracker
<1>5. QED
  BY <1>2, <1>3, <1>4

LEMMA OnTurnActivityGood ==
    ASSUME NEW tr, GoodTracker(tr) PROVE GoodTracker(OnTurnActivity(tr))
BY DEF GoodTracker, OnTurnActivity, Waits, Tracker, NoDeadline

LEMMA OnCeilingGood ==
    ASSUME NEW tr, GoodTracker(tr), NEW d \in Nat
    PROVE  GoodTracker(OnCeiling(tr, d).tracker)
<1> DEFINE off == [tr EXCEPT !.deadline = NoDeadline]
<1>1. tr \in Tracker /\ off \in Tracker
  BY DEF GoodTracker, Tracker, NoDeadline
<1>2. CASE tr.deadline # d
  BY <1>2 DEF OnCeiling, Verdict
<1>3. CASE tr.deadline = d
  <2>1. off.tasks = {} \/ GoodTracker(off)
    BY <1>1 DEF GoodTracker, Waits, Tracker, NoDeadline
  <2>2. QED
    BY <2>1, <1>1, <1>3, MaybeEndRunGood DEF OnCeiling
<1>4. QED
  BY <1>2, <1>3

-----------------------------------------------------------------------------
(* The specification *)

TrackerInv == GoodTracker(tracker) /\ clock \in Nat /\ armed \in Nat

\* The frame a reader reads makes one of the transitions.
LEMMA TransitionGood ==
    ASSUME TrackerInv, NEW fr \in Frame PROVE GoodTracker(Transition(fr).tracker)
<1> USE DEF TrackerInv
<1>1. tracker \in Tracker /\ tracker.tasks \in SUBSET Agent
  BY DEF GoodTracker, Tracker
<1>2. CASE fr \in [kind : {"task_started"}, arg : Agent]
  <2>1. Transition(fr) = OnTask(tracker, tracker.tasks \union {fr.arg}, clock)
    BY <1>2 DEF Transition, OnSystemFrame
  <2>2. tracker.tasks \union {fr.arg} \in SUBSET Agent
    BY <1>1, <1>2
  <2>3. QED
    BY <2>1, <2>2, OnTaskGood
<1>3. CASE fr \in [kind : {"task_settled"}, arg : Agent]
  <2>1. Transition(fr) = OnTask(tracker, tracker.tasks \ {fr.arg}, clock)
    BY <1>3 DEF Transition, OnSystemFrame
  <2>2. tracker.tasks \ {fr.arg} \in SUBSET Agent
    BY <1>1
  <2>3. QED
    BY <2>1, <2>2, OnTaskGood
<1>4. CASE fr \in [kind : {"state"}, arg : State]
  <2>1. Transition(fr) = OnSessionState(tracker, fr.arg, clock) /\ fr.arg \in State
    BY <1>4 DEF Transition, OnSystemFrame
  <2>2. QED
    BY <2>1, OnSessionStateGood
<1>5. CASE fr.kind = "turn"
  BY <1>5, OnTurnActivityGood DEF Transition, Verdict
<1>6. CASE fr.kind = "result"
  BY <1>6, OnResultGood DEF Transition
<1>7. CASE fr.kind = "other"
  BY <1>7 DEF Transition, Verdict
<1>8. QED
  BY <1>2, <1>3, <1>4, <1>5, <1>6, <1>7 DEF Frame

LEMMA TrackerInvInductive == Spec => []TrackerInv
<1>1. Init => TrackerInv
  BY NewTrackerGood DEF Init, TrackerInv, NoDeadline
<1>2. TrackerInv /\ [Next]_vars => TrackerInv'
  <2> SUFFICES ASSUME TrackerInv, [Next]_vars PROVE TrackerInv'
    OBVIOUS
  <2> USE DEF TrackerInv
  <2>1. CASE \E fr \in Frame : ReadFrame(fr)
    <3>1. PICK fr \in Frame : ReadFrame(fr)
      BY <2>1
    <3>2. tracker' = Transition(fr).tracker /\ clock' = clock /\ armed' = armed
      BY <3>1 DEF ReadFrame
    <3>3. QED
      BY <3>2, TransitionGood DEF GoodTracker
  <2>2. CASE TimerFires
    <3>1. tracker' = OnCeiling(tracker, armed).tracker /\ clock' = clock /\ armed' = armed
      BY <2>2 DEF TimerFires
    <3>2. QED
      BY <3>1, OnCeilingGood DEF GoodTracker
  <2>3. CASE TimerReads
    <3>1. tracker.deadline \in Nat
      BY DEF GoodTracker, Tracker
    <3>2. QED
      BY <2>3, <3>1 DEF TimerReads, GoodTracker, Waits
  <2>4. CASE Tick
    BY <2>4 DEF Tick, GoodTracker, Waits
  <2>5. CASE ReadError \/ SendNext("reader") \/ ReadNext \/ StopReader \/ TimerWoken
               \/ SendNext("timer") \/ Finished \/ UNCHANGED vars
    BY <2>5 DEF ReadError, SendNext, ReadNext, StopReader, TimerWoken, Finished, vars,
                GoodTracker, Waits
  <2>6. CASE Receive \/ BeginQuery \/ Query
    BY <2>6 DEF Receive, BeginQuery, Query, TakeMessage, TakeResult, TakeMarker, TakeError,
                SeeEnd, Take, GoodTracker, Waits
  <2>7. QED
    BY <2>1, <2>2, <2>3, <2>4, <2>5, <2>6 DEF Next, Timer
<1>3. QED
  BY <1>1, <1>2, PTL DEF Spec

\* The ceiling counts only in the gap between two turns of a run that may still
\* need stdin, and never while the host answers a request.
THEOREM DeadlineInGap == Spec => []DeadlineOnlyInGap
<1>1. TrackerInv => DeadlineOnlyInGap
  BY DEF TrackerInv, GoodTracker, DeadlineOnlyInGap
<1>2. QED
  BY <1>1, TrackerInvInductive, PTL

\* Every gap is bounded: whenever a run waits for an idle that may never come,
\* the ceiling is armed, whatever frames came before.
THEOREM GapBounded == Spec => []GapHasDeadline
<1>1. TrackerInv => GapHasDeadline
  BY DEF TrackerInv, GoodTracker, Waits, GapHasDeadline, InGap
<1>2. QED
  BY <1>1, TrackerInvInductive, PTL

-----------------------------------------------------------------------------
(* The ceiling counts the gap *)

\* A frame clears the deadline, sets it anew, or is no work and leaves it alone;
\* and while the CLI is running it leaves it alone only if it is no activity.
LEMMA DeadlineMoves ==
    ASSUME TrackerInv, NEW fr \in Frame
    PROVE  LET tr == Transition(fr).tracker
           IN  \/ tr.deadline \in {NoDeadline, clock + Ceiling}
               \/ /\ tr.deadline = tracker.deadline
                  /\ ~Work(fr)
                  /\ tr.state = "running" => tracker.state = "running" /\ ~Activity(fr, tr)
<1> USE DEF TrackerInv
<1> DEFINE tr == Transition(fr).tracker
           Moves == \/ tr.deadline \in {NoDeadline, clock + Ceiling}
                    \/ /\ tr.deadline = tracker.deadline
                       /\ ~Work(fr)
                       /\ tr.state = "running" =>
                            tracker.state = "running" /\ ~Activity(fr, tr)
<1> SUFFICES Moves
  OBVIOUS
<1>1. tracker \in Tracker /\ tracker.tasks \in SUBSET Agent
  BY DEF GoodTracker, Tracker
<1>2. ASSUME NEW tasks \in SUBSET Agent, fr.kind \in {"task_started", "task_settled"},
             Transition(fr) = OnTask(tracker, tasks, clock)
      PROVE  Moves
  <2> DEFINE tracked == [tracker EXCEPT !.tasks = tasks]
  <2>1. /\ tracked.deadline = tracker.deadline /\ tracked.state = tracker.state
        /\ tracked.result = tracker.result /\ tracked.tasks = tasks /\ tracked \in Tracker
    BY <1>1 DEF Tracker
  <2>2. CASE tracker.tasks # {} /\ tasks = {} /\ tracker.result /\ tracker.state = "running"
    <3>1. tr = ArmCeiling(tracked, clock)
      BY <1>2, <2>1, <2>2 DEF OnTask, Verdict, RearmBetweenTurns
    <3>2. tr.deadline \in {NoDeadline, clock + Ceiling}
      BY <2>1, <3>1 DEF ArmCeiling, Tracker
    <3>3. QED
      BY <3>2
  <2>3. CASE ~ (tracker.tasks # {} /\ tasks = {} /\ tracker.result
                  /\ tracker.state = "running")
    <3>1. tr = tracked
      BY <1>2, <2>1, <2>3 DEF OnTask, Verdict, RearmBetweenTurns
    <3>2. tr.deadline = tracker.deadline /\ tr.state = tracker.state /\ tr.tasks = tasks
      BY <2>1, <3>1
    <3>3. ~Work(fr)
      BY <1>2 DEF Work
    <3>4. ~tracker.result => tr.deadline = NoDeadline
      BY <3>2 DEF GoodTracker
    <3> HIDE DEF tr
    <3>5. QED
      BY <1>2, <2>3, <3>2, <3>3, <3>4 DEF Activity
  <2>4. QED
    BY <2>2, <2>3
<1>3. CASE fr \in [kind : {"task_started"}, arg : Agent]
  <2>1. Transition(fr) = OnTask(tracker, tracker.tasks \union {fr.arg}, clock)
        /\ fr.kind = "task_started"
    BY <1>3 DEF Transition, OnSystemFrame
  <2>2. tracker.tasks \union {fr.arg} \in SUBSET Agent
    BY <1>1, <1>3
  <2> HIDE DEF Moves
  <2>3. QED
    BY <2>1, <2>2, <1>2
<1>4. CASE fr \in [kind : {"task_settled"}, arg : Agent]
  <2>1. Transition(fr) = OnTask(tracker, tracker.tasks \ {fr.arg}, clock)
        /\ fr.kind = "task_settled"
    BY <1>4 DEF Transition, OnSystemFrame
  <2>2. tracker.tasks \ {fr.arg} \in SUBSET Agent
    BY <1>1
  <2> HIDE DEF Moves
  <2>3. QED
    BY <2>1, <2>2, <1>2
<1>5. CASE fr \in [kind : {"state"}, arg : State]
  <2> DEFINE told == [tracker EXCEPT !.state = fr.arg]
             open == [told EXCEPT !.runEnded = FALSE]
  <2>1. tr = OnSessionState(tracker, fr.arg, clock).tracker /\ fr.kind = "state"
    BY <1>5 DEF Transition, OnSystemFrame
  <2>2. /\ told \in Tracker /\ told.deadline = tracker.deadline /\ told.state = fr.arg
        /\ told.result = tracker.result /\ told.tasks = tracker.tasks
    BY <1>1, <1>5 DEF Tracker
  <2>3. /\ open \in Tracker /\ open.deadline = tracker.deadline /\ open.state = fr.arg
        /\ open.result = tracker.result /\ open.tasks = tracker.tasks
    BY <2>2 DEF Tracker
  <2> HIDE DEF tr
  <2>4. CASE fr.arg = "idle"
    <3>1. CASE told.result /\ told.tasks = {}
      BY <2>1, <2>2, <2>4, <3>1 DEF OnSessionState, MaybeEndRun, Verdict, Tracker
    <3>2. CASE ~ (told.result /\ told.tasks = {})
      <4>1. tr = told
        BY <2>1, <2>4, <3>2 DEF OnSessionState, MaybeEndRun, Verdict
      <4>2. QED
        BY <2>1, <2>2, <2>4, <4>1 DEF Work
    <3>3. QED
      BY <3>1, <3>2
  <2>5. CASE fr.arg = "requires_action"
    <3>1. tr = [open EXCEPT !.deadline = NoDeadline]
      BY <2>1, <2>5 DEF OnSessionState, Verdict
    <3>2. QED
      BY <2>3, <3>1 DEF Tracker
  <2>6. CASE fr.arg = "running"
    <3>1. tr = RearmBetweenTurns(open, clock)
      BY <2>1, <2>6 DEF OnSessionState, Verdict
    <3>2. CASE tracker.result
      <4>1. tr = ArmCeiling(open, clock)
        BY <2>3, <2>6, <3>1, <3>2 DEF RearmBetweenTurns
      <4>2. QED
        BY <2>3, <4>1 DEF ArmCeiling, Tracker
    <3>3. CASE ~tracker.result
      <4>1. tr = open
        BY <2>3, <3>1, <3>3 DEF RearmBetweenTurns
      <4>2. QED
        BY <2>3, <3>3, <4>1 DEF GoodTracker
    <3>4. QED
      BY <3>2, <3>3
  <2>7. CASE fr.arg = "none"
    <3>1. tr = open
      BY <2>1, <2>3, <2>7 DEF OnSessionState, Verdict, RearmBetweenTurns
    <3>2. QED
      BY <2>1, <2>3, <2>7, <3>1 DEF Work
  <2>8. QED
    BY <1>5, <2>4, <2>5, <2>6, <2>7 DEF State
<1>6. CASE fr.kind = "turn"
  BY <1>1, <1>6 DEF Transition, OnTurnActivity, Verdict, Tracker
<1>7. CASE fr.kind = "result"
  <2> DEFINE fresh == [tracker EXCEPT !.result = TRUE, !.turn = FALSE, !.runEnded = FALSE]
  <2>1. tr = OnResult(tracker, clock).tracker
    BY <1>7 DEF Transition
  <2>2. /\ fresh \in Tracker /\ fresh.deadline = tracker.deadline
        /\ fresh.state = tracker.state /\ fresh.tasks = tracker.tasks
    BY <1>1 DEF Tracker
  <2> HIDE DEF tr
  <2>3. ~Work(fr)
    BY <1>7 DEF Work
  <2>4. CASE tracker.state \in {"none", "idle"} \/ ~tracker.needsStdin
    <3>1. tr = MaybeEndRun(fresh).tracker
      BY <2>1, <2>4 DEF OnResult
    <3>2. CASE tracker.tasks = {}
      BY <2>2, <3>1, <3>2 DEF MaybeEndRun, Verdict, Tracker
    <3>3. CASE tracker.tasks # {}
      <4>1. tr = fresh
        BY <2>2, <3>1, <3>3 DEF MaybeEndRun, Verdict
      <4>2. ~tracker.needsStdin => tracker.deadline = NoDeadline
        BY DEF GoodTracker
      <4>3. QED
        BY <2>2, <2>3, <2>4, <4>1, <4>2
    <3>4. QED
      BY <3>2, <3>3
  <2>5. CASE ~ (tracker.state \in {"none", "idle"} \/ ~tracker.needsStdin)
               /\ tracker.state # "requires_action"
    <3>1. tr = ArmCeiling(fresh, clock)
      BY <2>1, <2>5 DEF OnResult, Verdict
    <3>2. QED
      BY <2>2, <3>1 DEF ArmCeiling, Tracker
  <2>6. CASE ~ (tracker.state \in {"none", "idle"} \/ ~tracker.needsStdin)
               /\ tracker.state = "requires_action"
    <3>1. tr = fresh
      BY <2>1, <2>6 DEF OnResult, Verdict
    <3>2. QED
      BY <2>2, <2>3, <2>6, <3>1
  <2>7. QED
    BY <2>4, <2>5, <2>6
<1>8. CASE fr.kind = "other"
  <2>1. tr = tracker
    BY <1>8 DEF Transition, Verdict
  <2>2. QED
    BY <1>8, <2>1 DEF Work, Activity
<1>9. QED
  BY <1>3, <1>4, <1>5, <1>6, <1>7, <1>8 DEF Frame

\* A deadline is the ceiling past the last work, and while the CLI is running
\* past the last activity.
GapInv ==
    /\ workedAt \in Nat /\ workedAt <= clock
    /\ gapStart \in Nat /\ gapStart <= clock
    /\ tracker.deadline # NoDeadline =>
         /\ tracker.deadline >= workedAt + Ceiling
         /\ tracker.state = "running" => tracker.deadline >= gapStart + Ceiling

LEMMA GapInvInductive == Spec => [](TrackerInv /\ GapInv)
<1>1. Init => GapInv
  BY DEF Init, GapInv, NewTracker, NoDeadline
<1>2. TrackerInv /\ GapInv /\ [Next]_vars => GapInv'
  <2> SUFFICES ASSUME TrackerInv, GapInv, [Next]_vars PROVE GapInv'
    OBVIOUS
  <2>1. CASE \E fr \in Frame : ReadFrame(fr)
    <3>1. PICK fr \in Frame : ReadFrame(fr)
      BY <2>1
    <3> DEFINE tr == Transition(fr).tracker
    <3>2. /\ tracker' = tr /\ clock' = clock
          /\ workedAt' = IF Work(fr) THEN clock ELSE workedAt
          /\ gapStart' = IF Activity(fr, tr) THEN clock ELSE gapStart
      BY <3>1 DEF ReadFrame
    <3>3. \/ tr.deadline \in {NoDeadline, clock + Ceiling}
          \/ /\ tr.deadline = tracker.deadline
             /\ ~Work(fr)
             /\ tr.state = "running" => tracker.state = "running" /\ ~Activity(fr, tr)
      BY DeadlineMoves
    <3> HIDE DEF tr
    <3>4. QED
      BY <3>2, <3>3, TrackerAssumption DEF GapInv, TrackerInv
  <2>2. CASE TimerFires
    <3>1. tracker' = OnCeiling(tracker, armed).tracker
          /\ UNCHANGED <<clock, workedAt, gapStart>>
      BY <2>2 DEF TimerFires, cli
    <3>2. tracker' = tracker \/ tracker'.deadline = NoDeadline
      BY <3>1 DEF OnCeiling, MaybeEndRun, Verdict, TrackerInv, GoodTracker, Tracker
    <3>3. QED
      BY <3>1, <3>2 DEF GapInv
  <2>3. CASE Tick
    BY <2>3 DEF Tick, GapInv, TrackerInv, cli
  <2>4. CASE TimerReads \/ TimerWoken \/ ReadError \/ SendNext("reader") \/ ReadNext
               \/ StopReader \/ SendNext("timer") \/ Finished \/ UNCHANGED vars
    BY <2>4 DEF TimerReads, TimerWoken, ReadError, SendNext, ReadNext, StopReader, Finished,
                vars, cli, GapInv
  <2>5. CASE Receive \/ BeginQuery \/ Query
    BY <2>5 DEF Receive, BeginQuery, Query, TakeMessage, TakeResult, TakeMarker, TakeError,
                SeeEnd, Take, GapInv, cli
  <2>6. QED
    BY <2>1, <2>2, <2>3, <2>4, <2>5 DEF Next, Timer
<1>3. QED
  BY <1>1, <1>2, TrackerInvInductive, PTL DEF Spec

\* The only step that ends a run and leaves the reader where it is, is that of
\* the timer, on a deadline that is not stale.
LEMMA OnlyTheTimer ==
    ASSUME TrackerInv, Next, TimerEndsRun
    PROVE  tracker.tasks = {} /\ tracker.deadline # NoDeadline /\ clock >= tracker.deadline
<1>1. ~tracker.runEnded /\ tracker'.runEnded /\ reader' = reader
  BY DEF TimerEndsRun
<1>2. tracker' # tracker
  BY <1>1
<1>3. ~ \E fr \in Frame : ReadFrame(fr)
  BY <1>1 DEF ReadFrame
<1>4. TimerFires
  BY <1>2, <1>3 DEF Next, Timer, ReadError, SendNext, ReadNext, StopReader, TimerReads,
        TimerWoken, Tick, Receive, BeginQuery, Query, TakeMessage, TakeResult, TakeMarker,
        TakeError, SeeEnd, Take, Finished, vars
<1>5. tracker' = OnCeiling(tracker, armed).tracker /\ armed # NoDeadline /\ clock >= armed
  BY <1>4 DEF TimerFires
<1>6. tracker.deadline = armed
  BY <1>2, <1>5 DEF OnCeiling, Verdict
<1>7. tracker.tasks = {}
  BY <1>1, <1>5, <1>6 DEF OnCeiling, MaybeEndRun, Verdict, TrackerInv, GoodTracker, Tracker
<1>8. QED
  BY <1>5, <1>6, <1>7

\* The timer ends a run only with no agent in flight, a whole ceiling after the
\* CLI last worked, and if the CLI is running a whole ceiling after the last
\* result and the last agent that settled: however the timer's read of the
\* deadline, its expiry and the frames interleave.
THEOREM CeilingCountsOnlyTheGap == Spec => CeilingCountsGap
<1>1. ASSUME TrackerInv /\ GapInv, [Next]_vars
      PROVE  [TimerEndsRun =>
                /\ tracker.tasks = {}
                /\ clock - workedAt >= Ceiling
                /\ tracker.state = "running" => clock - gapStart >= Ceiling]_vars
  <2>1. CASE UNCHANGED vars
    BY <2>1
  <2>2. CASE Next /\ TimerEndsRun
    <3>1. tracker.tasks = {} /\ tracker.deadline # NoDeadline /\ clock >= tracker.deadline
      BY <1>1, <2>2, OnlyTheTimer
    <3>2. tracker.deadline \in Nat
      BY <1>1 DEF TrackerInv, GoodTracker, Tracker
    <3>3. QED
      BY <1>1, <3>1, <3>2, TrackerAssumption DEF GapInv, TrackerInv
  <2>3. QED
    BY <1>1, <2>1, <2>2
<1>2. QED
  BY <1>1, GapInvInductive, PTL DEF Spec, CeilingCountsGap
-----------------------------------------------------------------------------
(***************************************************************************)
(* A query returns with the result that ended the run: though two tasks    *)
(* send into the channel, on a current-thread runtime every marker follows *)
(* the result it is about, and no other result comes between.              *)
(***************************************************************************)

\* The last result among the first len items of a channel is number n; or there
\* is none, and the query holds none (p = 0) or that one.
LastResult(s, len, n, p) ==
    \/ \E i \in 1..len :
         /\ s[i].what = "result" /\ s[i].n = n
         /\ \A k \in (i + 1)..len : s[k].what # "result"
    \/ (\A k \in 1..len : s[k].what # "result") /\ p \in {0, n}

\* Every marker of a channel comes after its result and before the next.
MarkersFollow(s, p) ==
    \A j \in 1..Len(s) : s[j].what = "marker" => LastResult(s, j - 1, s[j].n, p)

\* What a query holds after it took the head of the channel.
MayHold(q, s, p) ==
    IF Head(s).what = "result" THEN q \in {0, Head(s).n} ELSE q \in {0, p}

-----------------------------------------------------------------------------
(* Lemmas on channels *)

LEMMA AppendKeeps ==
    ASSUME NEW s \in Seq(Item), NEW it \in Item, NEW len \in 0..Len(s), NEW n, NEW p,
           LastResult(s, len, n, p)
    PROVE  LastResult(Append(s, it), len, n, p)
<1> DEFINE t == Append(s, it)
<1>1. \A i \in 1..len : t[i] = s[i]
  BY AppendProperties
<1> HIDE DEF t
<1>2. LastResult(t, len, n, p)
  BY <1>1 DEF LastResult
<1>3. QED
  BY <1>2 DEF t

LEMMA AppendMakesLast ==
    ASSUME NEW s \in Seq(Item), NEW it \in Item, NEW n, NEW p,
           IF it.what = "result" THEN it.n = n ELSE LastResult(s, Len(s), n, p)
    PROVE  LastResult(Append(s, it), Len(Append(s, it)), n, p)
<1> DEFINE t == Append(s, it)
           l == Len(s)
<1>1. /\ l \in Nat /\ Len(t) = l + 1 /\ t[l + 1] = it
      /\ \A i \in 1..l : t[i] = s[i]
  BY AppendProperties, LenProperties
<1>2. LastResult(s, l, n, p) \/ it.what = "result"
  OBVIOUS
<1> HIDE DEF t, l
<1>3. CASE it.what = "result"
  <2>1. it.n = n
    BY <1>3
  <2>2. l + 1 \in 1..(l + 1) /\ \A k \in ((l + 1) + 1)..(l + 1) : t[k].what # "result"
    BY <1>1
  <2>3. LastResult(t, l + 1, n, p)
    BY <1>1, <1>3, <2>1, <2>2 DEF LastResult
  <2>4. QED
    BY <1>1, <2>3 DEF t
<1>4. CASE it.what # "result"
  <2>1. CASE \E i \in 1..l : /\ s[i].what = "result" /\ s[i].n = n
                             /\ \A k \in (i + 1)..l : s[k].what # "result"
    <3>1. PICK i \in 1..l : /\ s[i].what = "result" /\ s[i].n = n
                            /\ \A k \in (i + 1)..l : s[k].what # "result"
      BY <2>1
    <3>2. \A k \in (i + 1)..(l + 1) : t[k].what # "result"
      BY <1>1, <1>4, <3>1
    <3>3. LastResult(t, l + 1, n, p)
      BY <1>1, <3>1, <3>2 DEF LastResult
    <3>4. QED
      BY <1>1, <3>3 DEF t
  <2>2. CASE (\A k \in 1..l : s[k].what # "result") /\ p \in {0, n}
    <3>1. \A k \in 1..(l + 1) : t[k].what # "result"
      BY <1>1, <1>4, <2>2
    <3>2. LastResult(t, l + 1, n, p)
      BY <2>2, <3>1 DEF LastResult
    <3>3. QED
      BY <1>1, <3>2 DEF t
  <2>3. QED
    BY <1>2, <1>4, <2>1, <2>2 DEF LastResult
<1>5. QED
  BY <1>3, <1>4

\* An item is sent: a marker of the last result sent, or no marker.
LEMMA AppendFollows ==
    ASSUME NEW s \in Seq(Item), NEW it \in Item, NEW p, MarkersFollow(s, p),
           it.what = "marker" => LastResult(s, Len(s), it.n, p)
    PROVE  MarkersFollow(Append(s, it), p)
<1> DEFINE t == Append(s, it)
<1>1. /\ Len(s) \in Nat /\ Len(t) = Len(s) + 1 /\ t[Len(s) + 1] = it
      /\ \A i \in 1..Len(s) : t[i] = s[i]
  BY AppendProperties, LenProperties
<1>2. \A n : \A len \in 0..Len(s) : LastResult(s, len, n, p) => LastResult(t, len, n, p)
  BY AppendKeeps
<1> HIDE DEF t
<1>3. SUFFICES ASSUME NEW j \in 1..Len(t), t[j].what = "marker"
               PROVE  LastResult(t, j - 1, t[j].n, p)
  BY DEF MarkersFollow, t
<1>4. CASE j = Len(s) + 1
  BY <1>1, <1>2, <1>3, <1>4
<1>5. CASE j \in 1..Len(s)
  <2>1. LastResult(s, j - 1, s[j].n, p) /\ t[j] = s[j] /\ j - 1 \in 0..Len(s)
    BY <1>1, <1>3, <1>5 DEF MarkersFollow
  <2>2. QED
    BY <1>2, <2>1
<1>6. QED
  BY <1>1, <1>4, <1>5

LEMMA TailKeeps ==
    ASSUME NEW s \in Seq(Item), s # <<>>, NEW len \in 1..Len(s), NEW n, NEW p, NEW q,
           MayHold(q, s, p), LastResult(s, len, n, p)
    PROVE  LastResult(Tail(s), len - 1, n, q)
<1> DEFINE t == Tail(s)
<1>1. /\ Len(s) \in Nat /\ len \in Nat /\ Head(s) = s[1]
      /\ \A i \in 1..(len - 1) : t[i] = s[i + 1]
  BY HeadTailProperties, LenProperties
<1> HIDE DEF t
<1>2. CASE \E i \in 1..len : /\ s[i].what = "result" /\ s[i].n = n
                             /\ \A k \in (i + 1)..len : s[k].what # "result"
  <2>1. PICK i \in 1..len : /\ s[i].what = "result" /\ s[i].n = n
                            /\ \A k \in (i + 1)..len : s[k].what # "result"
    BY <1>2
  <2>2. CASE i = 1
    <3>1. \A k \in 1..(len - 1) : t[k].what # "result"
      BY <1>1, <2>1, <2>2
    <3>2. q \in {0, n}
      BY <1>1, <2>1, <2>2 DEF MayHold
    <3>3. QED
      BY <3>1, <3>2 DEF LastResult, t
  <2>3. CASE i # 1
    <3>1. i - 1 \in 1..(len - 1) /\ t[i - 1] = s[i]
      BY <1>1, <2>3
    <3>2. \A k \in ((i - 1) + 1)..(len - 1) : t[k].what # "result"
      <4>1. TAKE k \in ((i - 1) + 1)..(len - 1)
      <4>2. k + 1 \in (i + 1)..len /\ k \in 1..(len - 1)
        BY <1>1
      <4>3. QED
        BY <1>1, <2>1, <4>2
    <3>3. QED
      BY <2>1, <3>1, <3>2 DEF LastResult, t
  <2>4. QED
    BY <2>2, <2>3
<1>3. CASE (\A k \in 1..len : s[k].what # "result") /\ p \in {0, n}
  <2>1. \A k \in 1..(len - 1) : t[k].what # "result"
    <3>1. TAKE k \in 1..(len - 1)
    <3>2. k + 1 \in 1..len
      BY <1>1
    <3>3. QED
      BY <1>1, <1>3, <3>2
  <2>2. q \in {0, n}
    BY <1>1, <1>3 DEF MayHold
  <2>3. QED
    BY <2>1, <2>2 DEF LastResult, t
<1>4. QED
  BY <1>2, <1>3 DEF LastResult

\* An item is taken.
LEMMA TailFollows ==
    ASSUME NEW s \in Seq(Item), s # <<>>, NEW p, NEW q, MayHold(q, s, p), MarkersFollow(s, p)
    PROVE  MarkersFollow(Tail(s), q)
<1> DEFINE t == Tail(s)
<1>1. /\ Len(s) \in Nat /\ Len(t) = Len(s) - 1 /\ \A i \in 1..Len(t) : t[i] = s[i + 1]
  BY HeadTailProperties, LenProperties
<1>2. \A n : \A len \in 1..Len(s) : LastResult(s, len, n, p) => LastResult(t, len - 1, n, q)
  BY TailKeeps
<1> HIDE DEF t
<1>3. SUFFICES ASSUME NEW j \in 1..Len(t), t[j].what = "marker"
               PROVE  LastResult(t, j - 1, t[j].n, q)
  BY DEF MarkersFollow, t
<1>4. j \in Nat /\ j + 1 \in 1..Len(s) /\ (j + 1) - 1 = j /\ t[j] = s[j + 1] /\ j \in 1..Len(s)
  BY <1>1
<1>5. LastResult(s, j, t[j].n, p)
  BY <1>3, <1>4 DEF MarkersFollow
<1>6. QED
  BY <1>2, <1>4, <1>5

\* What waits for room is dropped.
LEMMA PrefixFollows ==
    ASSUME NEW s \in Seq(Item), NEW m \in 0..Len(s), NEW p, MarkersFollow(s, p)
    PROVE  SubSeq(s, 1, m) \in Seq(Item) /\ MarkersFollow(SubSeq(s, 1, m), p)
<1> DEFINE t == SubSeq(s, 1, m)
<1>1. /\ Len(s) \in Nat /\ m \in Nat /\ t \in Seq(Item) /\ Len(t) = m
      /\ \A i \in 1..m : t[i] = s[i]
  BY SubSeqProperties, LenProperties
<1> HIDE DEF t
<1>2. SUFFICES ASSUME NEW j \in 1..m, t[j].what = "marker"
               PROVE  LastResult(t, j - 1, t[j].n, p)
  BY <1>1 DEF MarkersFollow, t
<1>3. LastResult(s, j - 1, s[j].n, p) /\ t[j] = s[j]
  BY <1>1, <1>2 DEF MarkersFollow
<1>4. \A i \in 1..(j - 1) : t[i] = s[i]
  BY <1>1
<1>5. QED
  BY <1>3, <1>4 DEF LastResult

-----------------------------------------------------------------------------
(* The specification *)

\* Who holds what.  The bounds are left out: no argument needs them.
ShapeInv ==
    /\ channel \in Seq(Item)
    /\ hand \in [Sender -> Seq(Item)]
    /\ results \in Nat
    /\ consumer = "idle" => pendingResult = 0
    /\ reader = "ended" => timer = "dead"

\* On a current-thread runtime.  At its awaits the timer holds nothing back and
\* the reader at most the marker of the last result, which the channel agrees
\* is the last as long as the reader lives.
OrderInv ==
    /\ hand["timer"] = <<>>
    /\ hand["reader"] \in {<<>>, <<Marker(results, "reader")>>}
    /\ reader \in {"reading", "ended"} => hand["reader"] = <<>>
    /\ MarkersFollow(channel, pendingResult)
    /\ reader # "ended" => LastResult(channel, Len(channel), results, pendingResult)

EndingInv == ShapeInv /\ (OneThread => OrderInv)

\* An item for the channel is offered by a task that lives.
LEMMA OfferShape ==
    ASSUME ShapeInv, NEW s \in Sender, NEW items \in Seq(Item), Offer(s, items)
    PROVE  channel' \in Seq(Item) /\ hand' \in [Sender -> Seq(Item)]
<1>1. CASE OneThread /\ items # <<>>
  <2>1. Head(items) \in Item /\ Tail(items) \in Seq(Item)
    BY <1>1, HeadTailProperties
  <2>2. Append(channel, Head(items)) \in Seq(Item)
    BY <2>1, AppendProperties DEF ShapeInv
  <2>3. QED
    BY <1>1, <2>1, <2>2 DEF Offer, ShapeInv
<1>2. CASE ~ (OneThread /\ items # <<>>)
  BY <1>2 DEF Offer, ShapeInv
<1>3. QED
  BY <1>1, <1>2

LEMMA ItemsTyped ==
    ASSUME NEW fr, NEW e, NEW n \in Nat, results \in Nat
    PROVE  /\ FrameItem(fr) \in Item /\ Marker(n, "reader") \in Item /\ Error \in Item
           /\ Marker(n, "timer") \in Item
           /\ Items(fr, e, n) \in Seq(Item)
<1>1. /\ FrameItem(fr) \in Item /\ Marker(n, "reader") \in Item /\ Error \in Item
      /\ Marker(n, "timer") \in Item
  BY DEF FrameItem, Marker, Error, Item, Sender
<1>2. <<>> \in Seq(Item) /\ <<FrameItem(fr)>> \in Seq(Item) /\ <<Marker(n, "reader")>> \in Seq(Item)
  BY <1>1
<1>3. Items(fr, e, n) \in Seq(Item)
  BY <1>2, ConcatProperties DEF Items
<1>4. QED
  BY <1>1, <1>3

\* What the reader sends at once and what it keeps, for each kind of frame.
LEMMA ItemsForms ==
    ASSUME NEW fr, NEW e, NEW n
    PROVE  LET f == FrameItem(fr)
               m == Marker(n, "reader")
           IN  \/ Items(fr, e, n) = <<>> /\ ~Surfaced(fr)
               \/ Items(fr, e, n) = <<m>> /\ ~Surfaced(fr)
               \/ Items(fr, e, n) = <<f>> /\ Surfaced(fr)
               \/ Items(fr, e, n) = <<f, m>> /\ Surfaced(fr)
<1> DEFINE f == FrameItem(fr)
           m == Marker(n, "reader")
           items == Items(fr, e, n)
<1>1. items = (IF Surfaced(fr) THEN <<f>> ELSE <<>>) \o (IF e THEN <<m>> ELSE <<>>)
  BY DEF Items
<1> HIDE DEF f, m, items
<1>2. /\ <<f>> \o <<m>> = <<f, m>> /\ <<f>> \o <<>> = <<f>>
      /\ <<>> \o <<m>> = <<m>> /\ <<>> \o <<>> = <<>>
  <2>1. /\ <<f>> \in Seq({f, m}) /\ <<m>> \in Seq({f, m}) /\ <<>> \in Seq({f, m})
        /\ <<f, m>> \in Seq({f, m})
    OBVIOUS
  <2>2. <<f>> \o <<>> = <<f>> /\ <<>> \o <<m>> = <<m>> /\ <<>> \o <<>> = <<>>
    BY <2>1, ConcatEmptySeq
  <2>3. <<f>> \o <<m>> = <<f, m>>
    <3> DEFINE c == <<f>> \o <<m>>
    <3>1. Len(<<f>>) = 1 /\ Len(<<m>>) = 1 /\ <<f>>[1] = f /\ <<m>>[1] = m
      OBVIOUS
    <3>2. /\ c \in Seq({f, m}) /\ Len(c) = 1 + 1
          /\ \A i \in 1..(1 + 1) : c[i] = IF i <= 1 THEN <<f>>[i] ELSE <<m>>[i - 1]
      BY <2>1, <3>1, ConcatProperties
    <3> HIDE DEF c
    <3>3. Len(c) = 2 /\ c[1] = f /\ c[2] = m
      BY <3>1, <3>2
    <3>4. /\ Len(<<f, m>>) = 2 /\ <<f, m>>[1] = f /\ <<f, m>>[2] = m
      OBVIOUS
    <3>5. \A i \in 1..Len(c) : c[i] = <<f, m>>[i]
      BY <3>3, <3>4
    <3>6. c = <<f, m>>
      BY <2>1, <3>2, <3>3, <3>4, <3>5, SeqEqual
    <3>7. QED
      BY <3>6 DEF c
  <2>4. QED
    BY <2>2, <2>3
<1>3. \/ items = <<>> /\ ~Surfaced(fr)
      \/ items = <<m>> /\ ~Surfaced(fr)
      \/ items = <<f>> /\ Surfaced(fr)
      \/ items = <<f, m>> /\ Surfaced(fr)
  BY <1>1, <1>2
<1>4. QED
  BY <1>3 DEF f, m, items

\* The tail of a channel is a channel.
LEMMA TakeShape ==
    ASSUME ShapeInv, channel # <<>>
    PROVE  Tail(channel) \in Seq(Item)
BY HeadTailProperties DEF ShapeInv

LEMMA ShapeStep ==
    ASSUME ShapeInv, [Next]_vars PROVE ShapeInv'
<1>1. CASE \E fr \in Frame : ReadFrame(fr)
  <2>1. PICK fr \in Frame : ReadFrame(fr)
    BY <1>1
  <2> DEFINE n == IF fr.kind = "result" THEN results + 1 ELSE results
             v == Transition(fr)
  <2>2. /\ Offer("reader", Items(fr, v.ended, n)) /\ results' = n /\ reader' = "sending"
        /\ consumer' = consumer /\ pendingResult' = pendingResult
    BY <2>1 DEF ReadFrame, app
  <2>3. n \in Nat
    BY DEF ShapeInv
  <2>4. Items(fr, v.ended, n) \in Seq(Item)
    BY <2>3, ItemsTyped DEF ShapeInv
  <2> HIDE DEF n, v
  <2>5. channel' \in Seq(Item) /\ hand' \in [Sender -> Seq(Item)]
    BY <2>2, <2>4, OfferShape DEF Sender
  <2>6. QED
    BY <2>2, <2>3, <2>5 DEF ShapeInv
<1>2. CASE ReadError
  <2>1. Error \in Item
    BY DEF Error, Item, Sender
  <2>2. <<Error>> \in Seq(Item)
    BY <2>1
  <2>3. channel' \in Seq(Item) /\ hand' \in [Sender -> Seq(Item)]
    BY <1>2, <2>2, OfferShape DEF ReadError, Sender
  <2>4. QED
    BY <1>2, <2>3 DEF ReadError, ShapeInv, app, cli
<1>3. CASE TimerFires
  <2>1. Marker(results, "timer") \in Item
    BY DEF Marker, Item, Sender, ShapeInv
  <2>2. <<Marker(results, "timer")>> \in Seq(Item) /\ <<>> \in Seq(Item)
    BY <2>1
  <2>3. PICK items \in Seq(Item) : Offer("timer", items)
    BY <1>3, <2>2 DEF TimerFires
  <2>4. channel' \in Seq(Item) /\ hand' \in [Sender -> Seq(Item)]
    BY <2>3, OfferShape DEF Sender
  <2>5. QED
    BY <1>3, <2>4 DEF TimerFires, ShapeInv, app, cli
<1>4. ASSUME NEW s \in Sender, SendNext(s) PROVE ShapeInv'
  <2>1. hand[s] \in Seq(Item) /\ hand[s] # <<>>
    BY <1>4 DEF SendNext, ShapeInv
  <2>2. Head(hand[s]) \in Item /\ Tail(hand[s]) \in Seq(Item)
    BY <2>1, HeadTailProperties
  <2>3. Append(channel, Head(hand[s])) \in Seq(Item)
    BY <2>2, AppendProperties DEF ShapeInv
  <2>4. QED
    BY <1>4, <2>2, <2>3 DEF SendNext, ShapeInv, app, cli
<1>5. CASE StopReader
  <2>1. Blocked("timer") => SubSeq(channel, 1, Buffer) \in Seq(Item)
    <3>1. SUFFICES ASSUME Blocked("timer") PROVE SubSeq(channel, 1, Buffer) \in Seq(Item)
      OBVIOUS
    <3>2. Len(channel) \in Nat /\ Buffer \in Nat
      BY LenProperties, BoundaryAssumption DEF ShapeInv
    <3>3. Buffer \in 0..Len(channel)
      BY <3>1, <3>2 DEF Blocked
    <3>4. \A i \in 1..Buffer : i \in 1..Len(channel)
      BY <3>2, <3>3
    <3>5. QED
      BY <3>2, <3>3, <3>4, SubSeqProperties DEF ShapeInv
  <2>2. channel' \in Seq(Item)
    BY <1>5, <2>1 DEF StopReader, ShapeInv
  <2>3. <<>> \in Seq(Item)
    OBVIOUS
  <2>4. QED
    BY <1>5, <2>2, <2>3 DEF StopReader, ShapeInv, app, cli
<1>6. CASE ReadNext \/ TimerReads \/ TimerWoken \/ Tick \/ Finished \/ UNCHANGED vars
  BY <1>6 DEF ReadNext, AllSent, TimerReads, TimerWoken, Tick, Finished, vars, ShapeInv, app, cli
<1>7. CASE Receive \/ BeginQuery \/ Query
  <2>1. channel' = channel \/ (channel # <<>> /\ channel' = Tail(channel))
    BY <1>7 DEF Receive, BeginQuery, Query, TakeMessage, TakeResult, TakeMarker, TakeError,
                SeeEnd, Take
  <2>2. channel' \in Seq(Item)
    BY <2>1, TakeShape DEF ShapeInv
  <2>3. UNCHANGED <<hand, results, reader, timer>>
    BY <1>7 DEF Receive, BeginQuery, Query, TakeMessage, TakeResult, TakeMarker, TakeError,
                SeeEnd, Take, cli
  <2>4. consumer' = "idle" => pendingResult' = 0
    <3>1. CASE Receive \/ BeginQuery
      BY <3>1 DEF Receive, BeginQuery, app, ShapeInv
    <3>2. CASE Query
      BY <3>2 DEF Query, TakeMessage, TakeResult, TakeMarker, TakeError, SeeEnd, Take, GoOn,
                  Return, ShapeInv
    <3>3. QED
      BY <1>7, <3>1, <3>2
  <2>5. QED
    BY <2>2, <2>3, <2>4 DEF ShapeInv
<1>8. QED
  BY <1>1, <1>2, <1>3, <1>4, <1>5, <1>6, <1>7 DEF Next, Timer, Sender

\* A task sends an item: the result that just came, a marker of the last one, or
\* something else.
LEMMA Sending ==
    ASSUME ShapeInv, NEW it \in Item, NEW n,
           MarkersFollow(channel, pendingResult),
           LastResult(channel, Len(channel), results, pendingResult),
           IF it.what = "result" THEN it.n = n ELSE n = results,
           it.what = "marker" => it.n = results
    PROVE  /\ MarkersFollow(Append(channel, it), pendingResult)
           /\ LastResult(Append(channel, it), Len(Append(channel, it)), n, pendingResult)
<1>1. channel \in Seq(Item)
  BY DEF ShapeInv
<1>2. MarkersFollow(Append(channel, it), pendingResult)
  BY <1>1, AppendFollows
<1>3. IF it.what = "result" THEN it.n = n
      ELSE LastResult(channel, Len(channel), n, pendingResult)
  OBVIOUS
<1>4. QED
  BY <1>1, <1>2, <1>3, AppendMakesLast

LEMMA ReadKeepsOrder ==
    ASSUME ShapeInv, OneThread, OrderInv, NEW fr \in Frame, ReadFrame(fr)
    PROVE  OrderInv'
<1> DEFINE n == IF fr.kind = "result" THEN results + 1 ELSE results
           v == Transition(fr)
           f == FrameItem(fr)
           m == Marker(n, "reader")
           items == Items(fr, v.ended, n)
<1>1. /\ Offer("reader", items) /\ results' = n /\ reader = "reading" /\ reader' = "sending"
      /\ pendingResult' = pendingResult
  BY DEF ReadFrame, app
<1>2. n \in Nat
  BY DEF ShapeInv
<1>3. f \in Item /\ m \in Item
  BY <1>2, ItemsTyped DEF ShapeInv
<1>4. /\ IF f.what = "result" THEN f.n = n ELSE n = results
      /\ f.what # "marker"
  BY DEF FrameItem
<1>5. ~Surfaced(fr) => n = results
  BY DEF Surfaced
<1>6. m.what = "marker" /\ m.n = n
  BY DEF Marker
<1>7. /\ MarkersFollow(channel, pendingResult)
      /\ LastResult(channel, Len(channel), results, pendingResult)
      /\ hand["timer"] = <<>> /\ hand \in [Sender -> Seq(Item)]
  BY <1>1 DEF OrderInv, ShapeInv
<1>8. \/ items = <<>> /\ ~Surfaced(fr)
      \/ items = <<m>> /\ ~Surfaced(fr)
      \/ items = <<f>> /\ Surfaced(fr)
      \/ items = <<f, m>> /\ Surfaced(fr)
  BY ItemsForms
<1>9. m = Marker(results', "reader")
  BY <1>1
<1> HIDE DEF f, m, n, v, items
<1>10. CASE items = <<>> /\ ~Surfaced(fr)
  <2>1. channel' = channel /\ hand' = [hand EXCEPT !["reader"] = <<>>] /\ results' = results
    BY <1>1, <1>5, <1>10 DEF Offer
  <2>2. hand'["reader"] = <<>> /\ hand'["timer"] = <<>>
    BY <1>7, <2>1 DEF Sender
  <2>3. QED
    BY <1>1, <1>7, <2>1, <2>2 DEF OrderInv
<1>11. ASSUME NEW it \in Item, NEW rest \in {<<>>, <<m>>}, channel' = Append(channel, it),
              hand' = [hand EXCEPT !["reader"] = rest],
              it = f \/ (it = m /\ n = results)
       PROVE  OrderInv'
  <2>1. /\ MarkersFollow(Append(channel, it), pendingResult)
        /\ LastResult(Append(channel, it), Len(Append(channel, it)), n, pendingResult)
    BY <1>4, <1>6, <1>7, <1>11, Sending
  <2>2. hand'["reader"] = rest /\ hand'["timer"] = <<>>
    BY <1>7, <1>11 DEF Sender
  <2>3. QED
    BY <1>1, <1>9, <1>11, <2>1, <2>2 DEF OrderInv
<1>12. CASE items = <<m>> /\ ~Surfaced(fr)
  <2>1. items # <<>> /\ Head(items) = m /\ Tail(items) = <<>>
    BY <1>12
  <2>2. channel' = Append(channel, m) /\ hand' = [hand EXCEPT !["reader"] = <<>>]
    BY <1>1, <2>1 DEF Offer
  <2>3. QED
    BY <1>3, <1>5, <1>11, <1>12, <2>2
<1>13. CASE items = <<f>> /\ Surfaced(fr)
  <2>1. items # <<>> /\ Head(items) = f /\ Tail(items) = <<>>
    BY <1>13
  <2>2. channel' = Append(channel, f) /\ hand' = [hand EXCEPT !["reader"] = <<>>]
    BY <1>1, <2>1 DEF Offer
  <2>3. QED
    BY <1>3, <1>11, <2>2
<1>14. CASE items = <<f, m>> /\ Surfaced(fr)
  <2>1. items # <<>> /\ Head(items) = f /\ Tail(items) = <<m>>
    BY <1>14
  <2>2. channel' = Append(channel, f) /\ hand' = [hand EXCEPT !["reader"] = <<m>>]
    BY <1>1, <2>1 DEF Offer
  <2>3. QED
    BY <1>3, <1>11, <2>2
<1>15. QED
  BY <1>8, <1>10, <1>12, <1>13, <1>14

LEMMA TimerKeepsOrder ==
    ASSUME ShapeInv, OneThread, OrderInv, TimerFires PROVE OrderInv'
<1> DEFINE m == Marker(results, "timer")
<1>1. /\ reader # "ended" /\ reader' = reader /\ results' = results
      /\ pendingResult' = pendingResult
  BY DEF TimerFires, ShapeInv, app, cli
<1>2. Offer("timer", <<>>) \/ Offer("timer", <<m>>)
  BY DEF TimerFires
<1>3. /\ MarkersFollow(channel, pendingResult)
      /\ LastResult(channel, Len(channel), results, pendingResult)
      /\ hand["timer"] = <<>> /\ hand \in [Sender -> Seq(Item)]
      /\ hand["reader"] \in {<<>>, <<Marker(results, "reader")>>}
      /\ reader = "reading" => hand["reader"] = <<>>
  BY <1>1 DEF OrderInv, ShapeInv
<1>4. m \in Item /\ m.what = "marker" /\ m.n = results
  BY DEF Marker, Item, Sender, ShapeInv
<1> HIDE DEF m
<1>5. CASE Offer("timer", <<>>)
  <2>1. channel' = channel /\ hand' = [hand EXCEPT !["timer"] = <<>>]
    BY <1>5 DEF Offer
  <2>2. hand'["reader"] = hand["reader"] /\ hand'["timer"] = <<>>
    BY <1>3, <2>1 DEF Sender
  <2>3. QED
    BY <1>1, <1>3, <2>1, <2>2 DEF OrderInv
<1>6. CASE Offer("timer", <<m>>)
  <2>1. <<m>> # <<>> /\ Head(<<m>>) = m /\ Tail(<<m>>) = <<>>
    OBVIOUS
  <2>2. channel' = Append(channel, m) /\ hand' = [hand EXCEPT !["timer"] = <<>>]
    BY <1>6, <2>1 DEF Offer
  <2>3. hand'["reader"] = hand["reader"] /\ hand'["timer"] = <<>>
    BY <1>3, <2>2 DEF Sender
  <2>4. /\ MarkersFollow(Append(channel, m), pendingResult)
        /\ LastResult(Append(channel, m), Len(Append(channel, m)), results, pendingResult)
    BY <1>3, <1>4, Sending
  <2>5. QED
    BY <1>1, <1>3, <2>2, <2>3, <2>4 DEF OrderInv
<1>7. QED
  BY <1>2, <1>5, <1>6

\* The item that the application takes leaves the rest in order.
LEMMA TakingKeepsOrder ==
    ASSUME ShapeInv, OrderInv, channel # <<>>, channel' = Tail(channel),
           MayHold(pendingResult', channel, pendingResult),
           UNCHANGED <<hand, results, reader>>
    PROVE  OrderInv'
<1>1. channel \in Seq(Item) /\ MarkersFollow(channel, pendingResult)
  BY DEF ShapeInv, OrderInv
<1>2. MarkersFollow(channel', pendingResult')
  BY <1>1, TailFollows
<1>3. reader # "ended" => LastResult(channel', Len(channel'), results, pendingResult')
  <2>1. Len(channel) \in 1..Len(channel) /\ Len(Tail(channel)) = Len(channel) - 1
    BY <1>1, HeadTailProperties, EmptySeq, LenProperties
  <2>2. QED
    BY <1>1, <2>1, TailKeeps DEF OrderInv
<1>4. QED
  BY <1>2, <1>3 DEF OrderInv

LEMMA OrderStep ==
    ASSUME ShapeInv, OneThread, OrderInv, [Next]_vars PROVE OrderInv'
<1>1. CASE \E fr \in Frame : ReadFrame(fr)
  BY <1>1, ReadKeepsOrder
<1>2. CASE ReadError
  <2>1. Error \in Item /\ Error.what = "error"
    BY DEF Error, Item, Sender
  <2>2. <<Error>> # <<>> /\ Head(<<Error>>) = Error /\ Tail(<<Error>>) = <<>>
    OBVIOUS
  <2>3. /\ channel' = Append(channel, Error) /\ hand' = [hand EXCEPT !["reader"] = <<>>]
        /\ reader = "reading" /\ reader' = "failing"
        /\ UNCHANGED <<results, pendingResult>>
    BY <1>2, <2>2 DEF ReadError, Offer, app, cli
  <2>4. /\ MarkersFollow(channel, pendingResult)
        /\ LastResult(channel, Len(channel), results, pendingResult)
    BY <2>3 DEF OrderInv
  <2>5. /\ MarkersFollow(Append(channel, Error), pendingResult)
        /\ LastResult(Append(channel, Error), Len(Append(channel, Error)), results,
                      pendingResult)
    BY <2>1, <2>4, Sending
  <2>6. hand'["reader"] = <<>> /\ hand'["timer"] = <<>>
    BY <2>3 DEF ShapeInv, OrderInv, Sender
  <2>7. QED
    BY <2>3, <2>5, <2>6 DEF OrderInv
<1>3. CASE TimerFires
  BY <1>3, TimerKeepsOrder
<1>4. ~SendNext("timer")
  BY DEF SendNext, OrderInv
<1>5. CASE SendNext("reader")
  <2> DEFINE m == Marker(results, "reader")
  <2>1. hand["reader"] = <<m>> /\ reader # "ended" /\ reader # "reading"
    BY <1>5 DEF SendNext, OrderInv
  <2>2. m \in Item /\ m.what = "marker" /\ m.n = results
    BY DEF Marker, Item, Sender, ShapeInv
  <2>3. UNCHANGED <<results, pendingResult, reader>>
    BY <1>5 DEF SendNext, app, cli
  <2>4. m = Marker(results', "reader")
    BY <2>3
  <2> HIDE DEF m
  <2>5. Head(hand["reader"]) = m /\ Tail(hand["reader"]) = <<>>
    BY <2>1
  <2>6. channel' = Append(channel, m) /\ hand' = [hand EXCEPT !["reader"] = <<>>]
    BY <1>5, <2>5 DEF SendNext
  <2>7. hand'["reader"] = <<>> /\ hand'["timer"] = <<>>
    BY <2>6 DEF ShapeInv, OrderInv, Sender
  <2>8. /\ MarkersFollow(channel, pendingResult)
        /\ LastResult(channel, Len(channel), results, pendingResult)
    BY <2>1 DEF OrderInv
  <2>9. /\ MarkersFollow(Append(channel, m), pendingResult)
        /\ LastResult(Append(channel, m), Len(Append(channel, m)), results, pendingResult)
    BY <2>2, <2>8, Sending
  <2>10. QED
    BY <2>3, <2>6, <2>7, <2>9 DEF OrderInv
<1>6. CASE ReadNext
  BY <1>6 DEF ReadNext, AllSent, OrderInv, app, cli
<1>7. CASE StopReader
  <2>1. hand["reader"] = <<>> /\ MarkersFollow(channel, pendingResult)
    BY <1>7 DEF StopReader, ReaderReturns, AllSent, OrderInv
  <2>2. /\ reader' = "ended" /\ pendingResult' = pendingResult
        /\ hand'["reader"] = <<>> /\ hand'["timer"] = <<>>
    BY <1>7, <2>1 DEF StopReader, ShapeInv, Sender, app
  <2>3. CASE Blocked("timer")
    <3>1. Len(channel) \in Nat /\ Buffer \in Nat
      BY LenProperties, BoundaryAssumption DEF ShapeInv
    <3>2. Buffer \in 0..Len(channel)
      BY <2>3, <3>1 DEF Blocked
    <3>3. MarkersFollow(SubSeq(channel, 1, Buffer), pendingResult)
      BY <2>1, <3>2, PrefixFollows DEF ShapeInv
    <3>4. QED
      BY <1>7, <2>2, <2>3, <3>3 DEF StopReader, OrderInv
  <2>4. CASE ~Blocked("timer")
    BY <1>7, <2>1, <2>2, <2>4 DEF StopReader, OrderInv
  <2>5. QED
    BY <2>3, <2>4
<1>8. CASE TimerReads \/ TimerWoken \/ Tick \/ Finished \/ UNCHANGED vars
  BY <1>8 DEF TimerReads, TimerWoken, Tick, Finished, vars, OrderInv, app, cli
<1>9. CASE BeginQuery
  BY <1>9 DEF BeginQuery, OrderInv, ShapeInv, cli
<1>10. CASE SeeEnd
  <2>1. channel = <<>> /\ channel' = <<>> /\ pendingResult' = 0 /\ reader = "ended"
        /\ UNCHANGED <<hand, results, reader>>
    BY <1>10 DEF SeeEnd, Closed, Return, cli
  <2>2. MarkersFollow(<<>>, 0)
    BY DEF MarkersFollow
  <2>3. QED
    BY <2>1, <2>2 DEF OrderInv
<1>11. CASE Receive \/ TakeMessage \/ TakeResult \/ TakeMarker \/ TakeError
  <2>1. /\ channel # <<>> /\ channel' = Tail(channel)
        /\ UNCHANGED <<hand, results, reader>>
    BY <1>11 DEF Receive, TakeMessage, TakeResult, TakeMarker, TakeError, Take, cli
  <2>2. MayHold(pendingResult', channel, pendingResult)
    <3>1. CASE Receive
      BY <3>1 DEF Receive, MayHold, ShapeInv, app
    <3>2. CASE TakeMessage \/ TakeMarker \/ TakeError
      BY <3>2 DEF TakeMessage, TakeMarker, TakeError, Take, GoOn, Return, MayHold
    <3>3. CASE TakeResult
      BY <3>3 DEF TakeResult, Take, Return, MayHold
    <3>4. QED
      BY <1>11, <3>1, <3>2, <3>3
  <2>3. QED
    BY <2>1, <2>2, TakingKeepsOrder
<1>12. QED
  BY <1>1, <1>2, <1>3, <1>4, <1>5, <1>6, <1>7, <1>8, <1>9, <1>10, <1>11
  DEF Next, Timer, Query

LEMMA SameThread == ASSUME [Next]_vars PROVE OneThread' <=> OneThread
BY DEF Next, Timer, Query, ReadFrame, ReadError, SendNext, ReadNext, StopReader, TimerReads,
       TimerWoken, TimerFires, Tick, Receive, BeginQuery, TakeMessage, TakeResult, TakeMarker,
       TakeError, SeeEnd, Take, Finished, vars, options, OneThread

LEMMA EndingInvInductive == Spec => []EndingInv
<1>1. Init => EndingInv
  <2> SUFFICES ASSUME Init PROVE EndingInv
    OBVIOUS
  <2>1. /\ channel = <<>> /\ hand = [s \in Sender |-> <<>>] /\ results = 0
        /\ pendingResult = 0 /\ reader = "reading"
    BY DEF Init
  <2>2. channel \in Seq(Item) /\ hand \in [Sender -> Seq(Item)] /\ Len(channel) = 0
    BY <2>1
  <2>3. hand["reader"] = <<>> /\ hand["timer"] = <<>>
    BY <2>1 DEF Sender
  <2>4. LastResult(channel, Len(channel), results, pendingResult)
    BY <2>1, <2>2 DEF LastResult
  <2>5. MarkersFollow(channel, pendingResult)
    BY <2>1, <2>2 DEF MarkersFollow
  <2>6. QED
    BY <2>1, <2>2, <2>3, <2>4, <2>5 DEF EndingInv, ShapeInv, OrderInv
<1>2. EndingInv /\ [Next]_vars => EndingInv'
  BY ShapeStep, OrderStep, SameThread DEF EndingInv
<1>3. QED
  BY <1>1, <1>2, PTL DEF Spec

\* A query that has a result and comes to a marker has the result that the marker
\* is about, whatever waits for room, and whether the reader or the timer ended
\* the run.
THEOREM QueryGetsRunEnding == Spec => []QueryReturnsRunEnding
<1>1. EndingInv => QueryReturnsRunEnding
  <2> SUFFICES ASSUME EndingInv, OneThread, TakesMarker PROVE pendingResult = Head(channel).n
    BY DEF QueryReturnsRunEnding
  <2>1. /\ channel \in Seq(Item) /\ channel # <<>> /\ pendingResult # 0
        /\ Head(channel).what = "marker" /\ MarkersFollow(channel, pendingResult)
    BY DEF EndingInv, ShapeInv, OrderInv, TakesMarker
  <2>2. Head(channel) = channel[1] /\ 1 \in 1..Len(channel)
    BY <2>1, HeadTailProperties, EmptySeq, LenProperties
  <2>3. LastResult(channel, 1 - 1, channel[1].n, pendingResult)
    BY <2>1, <2>2 DEF MarkersFollow
  <2>4. ~ \E i \in 1..(1 - 1) : TRUE
    OBVIOUS
  <2>5. pendingResult \in {0, channel[1].n}
    BY <2>3, <2>4 DEF LastResult
  <2>6. QED
    BY <2>1, <2>2, <2>5
<1>2. QED
  BY <1>1, EndingInvInductive, PTL
=============================================================================
